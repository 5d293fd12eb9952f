---------------------------- MODULE DeliveryProofs --------------------------
(***************************************************************************)
(* For any number of relays, partitions, rows and failures, and whatever   *)
(* the workers and the operator do: the outbox implements the safety part  *)
(* of the event log, and only marks what is announced.                     *)
(***************************************************************************)
EXTENDS Delivery, WellFoundedInduction, TLAPS

\* The first row of a batch, which Flush handles next, is one of the batch: a
\* non-empty set of row numbers has a smallest one.
LEMMA FirstInBatch ==
  ASSUME NEW b \in SUBSET Nat, b # {}
  PROVE  First(b) \in b
<1> DEFINE R == {p \in Nat \X Nat : p[1] < p[2]}
<1>1. IsWellFoundedOn(R, Nat)
  BY NatLessThanWellFounded, Zenon DEF OpToRel
<1>2. \A k, m \in Nat : k < m => <<k, m>> \in R
  BY Zenon
<1> HIDE DEF R
<1>3. PICK m \in b : \A k \in b : ~ (<<k, m>> \in R)
  BY <1>1, WFMin, Zenon
<1>4. \A k \in b : m <= k
  <2> TAKE k \in b
  <2>1. ~ (k < m)
    BY <1>2, <1>3, Zenon
  <2> QED BY <2>1
<1> QED BY <1>4, Zenon DEF First

\* What relay g holds is committed, and what it has sent is announced.
RelayInv(g) ==
  /\ batch[g] \subseteq 1..Len(rows)
  /\ sent[g] => batch[g] # {} /\ First(batch[g]) \in announced

IInv ==
  /\ rows \in Seq(Mutations) /\ Len(rows) <= MaxRows
  /\ batch \in [Relays -> SUBSET Nat]
  /\ sent \in [Relays -> BOOLEAN]
  /\ announced \subseteq 1..Len(rows)
  /\ published \subseteq announced
  /\ \A g \in Relays : RelayInv(g)

\* What a step of the system is to the outbox.
OutboxStep ==
  \/ \E m \in Mutations : write(m)
  \/ \E g \in Relays : Flush(g) \/ MarkFailed(g) \/ FlushStops(g)
  \/ UNCHANGED relayVars

\* A step that leaves the relays alone (of a worker, the operator) keeps IInv.
LEMMA RelaysIdle ==
  ASSUME IInv, UNCHANGED relayVars
  PROVE  IInv'
BY DEF IInv, RelayInv, relayVars, First

\* A committed write appends at most one row.
LEMMA WriteAppends ==
  ASSUME IInv, NEW m \in Mutations, write(m)
  PROVE  IInv' /\ [Log!Next]_(Log!vars)
<1>0. rows \in Seq(Mutations) /\ Len(rows) < MaxRows
  <2>1. rows \in Seq(Mutations)
    BY Zenon DEF IInv
  <2>2. Len(rows) < MaxRows
    BY Zenon DEF write
  <2> QED BY <2>1, <2>2, Zenon
<1>1. rows \in Seq(Mutations) /\ Len(rows) \in Nat /\ Len(rows) < MaxRows
  BY <1>0
<1>2. UNCHANGED <<published, batch, sent, announced>>
  BY Zenon DEF write
<1>3. CASE rows' = rows
  <2>1. UNCHANGED relayVars
    BY <1>2, <1>3, Zenon DEF relayVars
  <2>2. UNCHANGED Log!vars
    BY <1>2, <1>3, Zenon DEF Log!vars
  <2> QED BY <2>1, <2>2, RelaysIdle, Zenon
<1>4. CASE rows' = Append(rows, m)
  <2>1. rows' \in Seq(Mutations) /\ Len(rows') = Len(rows) + 1
    BY <1>1, <1>4
  <2>2. 1..Len(rows) \subseteq 1..Len(rows') /\ Len(rows') <= MaxRows
    BY <1>1, <2>1, OutboxAssumption
  <2>3. announced' \subseteq 1..Len(rows') /\ published' \subseteq announced'
    BY <1>2, <2>2, Zenon DEF IInv
  <2>4. ASSUME NEW g \in Relays
        PROVE  RelayInv(g)'
    <3>1. RelayInv(g) /\ UNCHANGED <<batch, sent, announced>>
      BY <1>2, Zenon DEF IInv
    <3> QED BY <2>2, <3>1 DEF RelayInv, First
  <2>5. IInv'
    BY <1>2, <2>1, <2>2, <2>3, <2>4, Zenon DEF IInv
  <2>6. Log!Next
    BY <1>1, <1>2, <2>1, Zenon DEF Log!Next, Log!Commit
  <2> QED BY <2>5, <2>6, Zenon
<1> QED BY <1>3, <1>4, Zenon DEF write

\* A step of relay g that changes only its batch, its flag and what is announced
\* and marked keeps IInv, if what it holds, announces and marks is right.
LEMMA RelaySteps ==
  ASSUME IInv, NEW g \in Relays, NEW b \in SUBSET (1..Len(rows)), NEW s \in BOOLEAN,
         rows' = rows,
         batch' = [batch EXCEPT ![g] = b],
         sent' = [sent EXCEPT ![g] = s],
         announced \subseteq announced', announced' \subseteq 1..Len(rows),
         published' \subseteq announced',
         s => b # {} /\ First(b) \in announced'
  PROVE  IInv'
<1>1. b \in SUBSET Nat
  BY DEF IInv
<1>2. batch' \in [Relays -> SUBSET Nat] /\ sent' \in [Relays -> BOOLEAN]
  BY <1>1, Zenon DEF IInv
<1>3. ASSUME NEW h \in Relays
      PROVE  RelayInv(h)'
  <2>1. CASE h = g
    <3>1. batch'[h] = b /\ sent'[h] = s
      BY <2>1, Zenon DEF IInv
    <3> QED BY <3>1, Zenon DEF RelayInv, First
  <2>2. CASE h # g
    <3>1. batch'[h] = batch[h] /\ sent'[h] = sent[h]
      BY <2>2, Zenon DEF IInv
    <3> QED BY <3>1, Zenon DEF IInv, RelayInv, First
  <2> QED BY <2>1, <2>2, Zenon
<1> QED BY <1>2, <1>3, Zenon DEF IInv

\* A relay announces nothing, or the first row of its batch.
LEMMA AnnounceFirst ==
  ASSUME IInv, NEW g \in Relays, batch[g] # {}, rows' = rows,
         announced' \in {announced, announced \cup {First(batch[g])}}
  PROVE  /\ announced \subseteq announced' /\ announced' \subseteq 1..Len(rows)
         /\ [Log!Next]_(Log!vars)
<1>1. First(batch[g]) \in batch[g] /\ batch[g] \subseteq 1..Len(rows)
  BY FirstInBatch, Zenon DEF IInv, RelayInv
<1>2. PICK e \in 1..Len(rows) : e = First(batch[g])
  BY <1>1, Zenon
<1>3. CASE announced' = announced
  BY <1>3, Zenon DEF IInv, Log!vars
<1>4. CASE announced' = announced \cup {e} /\ e \notin announced
  <2>1. e \in 1..MaxRows
    BY OutboxAssumption DEF IInv
  <2>2. Log!Announce(e)
    BY <1>4, Zenon DEF Log!Announce
  <2> QED BY <1>4, <2>1, <2>2, Zenon DEF IInv, Log!Next
<1> QED BY <1>2, <1>3, <1>4, Zenon

\* Every step keeps the invariant, and is a step of the event log or none: one
\* case for each thing a relay does between its calls.
LEMMA StepOfLog ==
  ASSUME IInv, OutboxStep
  PROVE  IInv' /\ [Log!Next]_(Log!vars)
<1>1. CASE UNCHANGED relayVars
  <2>1. UNCHANGED Log!vars
    BY <1>1, Zenon DEF relayVars, Log!vars
  <2> QED BY <1>1, <2>1, RelaysIdle, Zenon
<1>2. ASSUME NEW m \in Mutations, write(m)
      PROVE  IInv' /\ [Log!Next]_(Log!vars)
  BY <1>2, WriteAppends, Zenon
<1>3. ASSUME NEW g \in Relays, PendingOutbox(g)
      PROVE  IInv' /\ [Log!Next]_(Log!vars)
  <2>1. sent' = [sent EXCEPT ![g] = sent[g]] /\ sent[g] \in BOOLEAN
    BY <1>3, Zenon DEF PendingOutbox, IInv
  <2>2. ~sent[g]
    BY <1>3, Zenon DEF PendingOutbox, IInv, RelayInv
  <2>3. IInv'
    BY <1>3, <2>1, <2>2, RelaySteps, Zenon DEF PendingOutbox, Unpublished, IInv
  <2>4. UNCHANGED Log!vars
    BY <1>3, Zenon DEF PendingOutbox, Log!vars
  <2> QED BY <2>3, <2>4, Zenon
<1>4. ASSUME NEW g \in Relays, Publish(g)
      PROVE  IInv' /\ [Log!Next]_(Log!vars)
  <2>1. /\ rows' = rows /\ batch[g] # {} /\ published' = published
        /\ announced' = announced \cup {First(batch[g])}
        /\ sent' = [sent EXCEPT ![g] = TRUE]
    BY <1>4, Zenon DEF Publish, Produce
  <2>2. batch' = [batch EXCEPT ![g] = batch[g]] /\ batch[g] \in SUBSET (1..Len(rows))
    BY <1>4, Zenon DEF Publish, IInv, RelayInv
  <2>3. announced \subseteq announced' /\ announced' \subseteq 1..Len(rows) /\ [Log!Next]_(Log!vars)
    BY <2>1, AnnounceFirst, Zenon
  <2>4. published' \subseteq announced' /\ First(batch[g]) \in announced'
    BY <2>1, Zenon DEF IInv
  <2> QED BY <2>1, <2>2, <2>3, <2>4, RelaySteps, Zenon
<1>5. ASSUME NEW g \in Relays, MarkFailed(g)
      PROVE  IInv' /\ [Log!Next]_(Log!vars)
  <2>1. /\ rows' = rows /\ batch[g] # {} /\ published' = published
        /\ announced' \in {announced, announced \cup {First(batch[g])}}
        /\ batch' = [batch EXCEPT ![g] = Rest(batch[g])]
    BY <1>5, Zenon DEF MarkFailed, Produce
  <2>2. sent' = [sent EXCEPT ![g] = FALSE] /\ Rest(batch[g]) \in SUBSET (1..Len(rows))
    BY <1>5, Zenon DEF MarkFailed, IInv, RelayInv, Rest
  <2>3. announced \subseteq announced' /\ announced' \subseteq 1..Len(rows) /\ [Log!Next]_(Log!vars)
    BY <2>1, AnnounceFirst, Zenon
  <2>4. published' \subseteq announced'
    BY <2>1, Zenon DEF IInv
  <2> QED BY <2>1, <2>2, <2>3, <2>4, RelaySteps, Zenon
<1>6. ASSUME NEW g \in Relays, MarkPublished(g)
      PROVE  IInv' /\ [Log!Next]_(Log!vars)
  <2>1. /\ rows' = rows /\ announced' = announced
        /\ published' = published \cup {First(batch[g])}
        /\ batch' = [batch EXCEPT ![g] = Rest(batch[g])]
        /\ sent' = [sent EXCEPT ![g] = FALSE]
    BY <1>6, Zenon DEF MarkPublished
  <2>2. First(batch[g]) \in announced /\ Rest(batch[g]) \in SUBSET (1..Len(rows))
    BY <1>6, Zenon DEF MarkPublished, IInv, RelayInv, Rest
  <2>3. IInv'
    BY <2>1, <2>2, RelaySteps, Zenon DEF IInv
  <2>4. UNCHANGED Log!vars
    BY <2>1, Zenon DEF Log!vars
  <2> QED BY <2>3, <2>4, Zenon
<1>7. ASSUME NEW g \in Relays, FlushStops(g)
      PROVE  IInv' /\ [Log!Next]_(Log!vars)
  <2>1. /\ rows' = rows /\ announced' = announced /\ published' = published
        /\ batch' = [batch EXCEPT ![g] = {}] /\ sent' = [sent EXCEPT ![g] = FALSE]
    BY <1>7, Zenon DEF FlushStops
  <2>2. IInv'
    BY <2>1, RelaySteps, Zenon DEF IInv
  <2>3. UNCHANGED Log!vars
    BY <2>1, Zenon DEF Log!vars
  <2> QED BY <2>2, <2>3, Zenon
<1> QED BY <1>1, <1>2, <1>3, <1>4, <1>5, <1>6, <1>7, Zenon DEF OutboxStep, Flush

\* Only the gateway writes to the outbox, and only the relays mark its rows.
LEMMA StepOfOutbox == [Next]_vars => OutboxStep
<1> SUFFICES ASSUME [Next]_vars PROVE OutboxStep
  BY Zenon
<1>1. CASE Gateway
  BY <1>1, Zenon DEF Gateway, UpsertUserAccess, DeleteUserAccess, OtherWrite, OutboxStep
<1>2. CASE Failures
  <2>1. ASSUME NEW p \in Partitions, DispatchFails(p) \/ WorkerStops(p)
        PROVE  UNCHANGED relayVars
    BY <2>1, Zenon DEF DispatchFails, WorkerStops
  <2>2. CASE ReconcileFails
    BY <2>2, Zenon DEF ReconcileFails, OutboxStep
  <2> QED BY <1>2, <2>1, <2>2, Zenon DEF Failures, OutboxStep
<1>3. CASE Collector
  BY <1>3, Zenon DEF Collector, OutboxStep, outboxVars
<1>4. ASSUME NEW g \in Relays, Relay(g)
      PROVE  OutboxStep
  BY <1>4, Zenon DEF Relay, OutboxStep
<1>5. ASSUME NEW p \in Partitions, Worker(p)
      PROVE  OutboxStep
  BY <1>5, Zenon DEF Worker, Dispatch, Poll, OutboxStep
<1>6. ASSUME NEW k \in CRKinds, Reconcile(k) \/ Informer(k)
      PROVE  OutboxStep
  BY <1>6, Zenon DEF Reconcile, Informer, OutboxStep, outboxVars
<1>7. CASE UNCHANGED vars
  BY <1>7, Zenon DEF vars, outboxVars, OutboxStep
<1> QED BY <1>1, <1>2, <1>3, <1>4, <1>5, <1>6, <1>7, Zenon DEF Next

\* The outbox starts empty.
LEMMA InitEstablishes == OutboxInit => IInv /\ Log!Init
<1> SUFFICES ASSUME OutboxInit PROVE IInv /\ Log!Init
  BY Zenon
<1>1. rows = <<>> /\ Len(rows) = 0 /\ rows \in Seq(Mutations)
  BY DEF OutboxInit
<1>2. IInv
  BY <1>1, OutboxAssumption DEF OutboxInit, IInv, RelayInv
<1> QED BY <1>1, <1>2, Zenon DEF OutboxInit, Log!Init

\* The outbox implements the safety part of the event log: commands are
\* announced only after the transaction that wrote them committed, and what has
\* been announced stays announced (write, Flush and their failures).
THEOREM OutboxImplementsLog == Spec => Log!Safety
<1>1. IInv /\ [Next]_vars => IInv' /\ [Log!Next]_(Log!vars)
  BY StepOfOutbox, StepOfLog, Zenon
<1>2. Init => IInv /\ Log!Init
  BY InitEstablishes, Zenon DEF Init
<1> QED BY <1>1, <1>2, PTL DEF Spec, Log!Safety

\* A row that Flush has marked as published has reached Kafka, for any number of
\* relays that hold it at the same time.
THEOREM MarkedRowsAnnounced == Spec => []MarkedIsAnnounced
<1>1. IInv => MarkedIsAnnounced
  BY Zenon DEF IInv, MarkedIsAnnounced
<1>2. IInv /\ [Next]_vars => IInv'
  BY StepOfOutbox, StepOfLog, Zenon
<1>3. Init => IInv
  BY InitEstablishes, Zenon DEF Init
<1> QED BY <1>1, <1>2, <1>3, PTL DEF Spec

-----------------------------------------------------------------------------
(* The operator *)

Done(k, object) ==
  object # Absent =>
    /\ k = "NexusPipelineRun" /\ object.status.ref # "" => submitted
    /\ k = "NexusModelPromotion" /\ object.status.phase = "Succeeded" => \E v \in inference : mlflow[v] # "None"

\* The children are as the object of kind k asks for.
Converged(k) ==
  /\ k = "NexusWorkspace" =>
       IF cr[k] = Absent THEN workspace = Absent \/ ~workspace.live
       ELSE WorkspaceMatches(cr[k].spec) /\ cr[k].status.seen = cr[k].spec
  /\ k = "NexusAgent" /\ cr[k] # Absent =>
       agents[cr[k].spec.version] = [replicas |-> cr[k].spec.replicas, service |-> TRUE]
  /\ k = "NexusPipelineRun" /\ cr[k] # Absent => submitted
  /\ k = "NexusModelPromotion" /\ cr[k] # Absent => \E v \in inference : mlflow[v] # "None"

\* A Reconcile that holds the latest version works on what is asked for; one that
\* does not will be followed by another.
KindInv(k) ==
  /\ {cr[k], cached[k], active[k]} \subseteq Objects(k) \cup {Absent}
  /\ cr[k] # Absent => cr[k].live
  /\ "cache" \in fresh[k] => cached[k] = cr[k]
  /\ active[k] # Absent =>
       IF "reconcile" \in fresh[k] THEN cr[k] # Absent /\ active[k].spec = cr[k].spec /\ active[k].live
       ELSE k \in queue \/ "cache" \notin fresh[k]
  /\ \A p \in Partitions : p \in fresh[k] => cr[k] # Absent
  /\ Done(k, cr[k]) /\ Done(k, cached[k]) /\ Done(k, active[k])
  /\ Idle(k) => Converged(k)

\* What is left of a workspace without an owner.
OrphanInv ==
  cr["NexusWorkspace"] = Absent =>
    \A object \in {cached["NexusWorkspace"], active["NexusWorkspace"], workspace} : object = Absent \/ ~object.live

OperatorInv ==
  /\ cr = [k \in CRKinds |-> cr[k]] /\ cached = [k \in CRKinds |-> cached[k]]
  /\ active = [k \in CRKinds |-> active[k]] /\ fresh = [k \in CRKinds |-> fresh[k]]
  /\ \A k \in CRKinds : KindInv(k)
  /\ OrphanInv
  /\ workspace \in Workspaces \cup {Absent}
  /\ agents \in [Versions -> [replicas : Int, service : BOOLEAN]]
  /\ mlflow = [v \in Versions |-> mlflow[v]] /\ inference \subseteq Versions

\* Records are of rows, and a Dispatcher that has read an object writes it next.
WorkerInv ==
  /\ topic \in [Partitions -> Seq(1..Len(rows))] /\ todo \in [Partitions -> Seq(1..Len(rows))]
  /\ read = [p \in Partitions |-> read[p]]
  /\ \A p \in Partitions : read[p] # "nothing" =>
       todo[p] # <<>> /\ ResourceKind(Command(p)) # "none" /\ Command(p).verb # "deleted"

\* The larger of two numbers: the claim of a workspace is only enlarged.
LEMMA MaxTwo ==
  ASSUME NEW a \in Int, NEW b \in Int
  PROVE  Max({a, b}) \in Int /\ Max({a, b}) >= a /\ Max({a, b}) >= b
<1>1. \E x \in {a, b} : \A y \in {a, b} : x >= y
  <2>1. CASE a >= b
    BY <2>1
  <2>2. CASE b >= a
    BY <2>2
  <2> QED BY <2>1, <2>2
<1> QED BY <1>1, Zenon DEF Max

\* What a step leaves alone of an object of kind k, and of its children.
Same(k) ==
  /\ cr'[k] = cr[k] /\ cached'[k] = cached[k] /\ active'[k] = active[k] /\ fresh'[k] = fresh[k]
  /\ k \in queue' <=> k \in queue

SameChildren(k) ==
  /\ k = "NexusWorkspace" => UNCHANGED workspace
  /\ k = "NexusAgent" => UNCHANGED agents
  /\ k = "NexusPipelineRun" => UNCHANGED submitted
  /\ k = "NexusModelPromotion" => UNCHANGED <<mlflow, inference>>

\* A step that is about another kind of object keeps what is known of this one.
LEMMA KindFrame ==
  ASSUME NEW k, KindInv(k), Same(k), SameChildren(k)
  PROVE  KindInv(k)'
<1>1. \A object : Done(k, object) => Done(k, object)'
  BY Zenon DEF Done, SameChildren
<1>2. Done(k, cr[k])' /\ Done(k, cached[k])' /\ Done(k, active[k])'
  <2>1. PICK a, b, c : a = cr[k] /\ b = cached[k] /\ c = active[k]
    BY Zenon
  <2>2. Done(k, a)' /\ Done(k, b)' /\ Done(k, c)'
    BY <1>1, <2>1, Zenon DEF KindInv
  <2>3. cr'[k] = a /\ cached'[k] = b /\ active'[k] = c
    BY <2>1, Zenon DEF Same
  <2> QED BY <2>2, <2>3, Zenon DEF Done
<1>3. Idle(k)' => Idle(k)
  BY Zenon DEF Idle, Same
<1>4. Converged(k) => Converged(k)'
  BY DEF Converged, Same, SameChildren, WorkspaceMatches
<1> QED BY <1>2, <1>3, <1>4, Zenon DEF KindInv, Same

\* A step about objects of kind k only.
OnlyKind(k) ==
  /\ cr' = [j \in CRKinds |-> cr'[j]] /\ cached' = [j \in CRKinds |-> cached'[j]]
  /\ active' = [j \in CRKinds |-> active'[j]] /\ fresh' = [j \in CRKinds |-> fresh'[j]]
  /\ \A j \in CRKinds \ {k} : Same(j) /\ SameChildren(j)

\* Such a step has to keep what is known of its kind.
LEMMA KindStep ==
  ASSUME OperatorInv, NEW k \in CRKinds, OnlyKind(k), KindInv(k)',
         k = "NexusWorkspace" => OrphanInv' /\ workspace' \in Workspaces \cup {Absent},
         k = "NexusAgent" => agents' \in [Versions -> [replicas : Int, service : BOOLEAN]],
         k = "NexusModelPromotion" => mlflow' = [v \in Versions |-> mlflow'[v]] /\ inference' \subseteq Versions
  PROVE  OperatorInv'
<1>1. \A j \in CRKinds : KindInv(j)'
  <2> SUFFICES ASSUME NEW j \in CRKinds, j # k PROVE KindInv(j)'
    BY Zenon
  <2> QED BY KindFrame, Zenon DEF OperatorInv, OnlyKind
<1>2. OrphanInv' /\ workspace' \in Workspaces \cup {Absent}
  <2>1. CASE k # "NexusWorkspace"
    <3>1. Same("NexusWorkspace") /\ SameChildren("NexusWorkspace")
      BY <2>1, Zenon DEF OnlyKind, CRKinds
    <3>2. /\ cr'["NexusWorkspace"] = cr["NexusWorkspace"] /\ cached'["NexusWorkspace"] = cached["NexusWorkspace"]
          /\ active'["NexusWorkspace"] = active["NexusWorkspace"] /\ workspace' = workspace
      BY <3>1, Zenon DEF Same, SameChildren
    <3> QED BY <3>2, Zenon DEF OperatorInv, OrphanInv
  <2> QED BY <2>1, Zenon
<1>3. agents' \in [Versions -> [replicas : Int, service : BOOLEAN]]
  <2>1. CASE k # "NexusAgent"
    BY <2>1, Zenon DEF OperatorInv, OnlyKind, SameChildren, CRKinds
  <2> QED BY <2>1, Zenon
<1>4. mlflow' = [v \in Versions |-> mlflow'[v]] /\ inference' \subseteq Versions
  <2>1. CASE k # "NexusModelPromotion"
    BY <2>1, Zenon DEF OperatorInv, OnlyKind, SameChildren, CRKinds
  <2> QED BY <2>1, Zenon
<1> QED BY <1>1, <1>2, <1>3, <1>4, Zenon DEF OperatorInv, OnlyKind

\* Finish: the status is updated when the object is the one that was read, and a
\* Reconcile that failed, or worked on an earlier version, is followed by another.
LEMMA Finishes ==
  ASSUME OperatorInv, NEW k \in CRKinds, NEW status, NEW error \in BOOLEAN, Finish(k, status, error),
         NEW object, object = [cr[k] EXCEPT !.status = status],
         Current(k) => status \in Statuses(k) /\ Done(k, object)',
         \A o \in {cr[k], cached[k]} : Done(k, o) => Done(k, o)',
         ~error /\ Current(k) /\ cr'[k] = object => Converged(k)',
         ~error /\ ~Current(k) => active[k] # Absent /\ (cr[k] # Absent \/ Converged(k)')
  PROVE  /\ KindInv(k)'
         /\ cr' = [j \in CRKinds |-> cr'[j]] /\ cached' = [j \in CRKinds |-> cached'[j]]
         /\ active' = [j \in CRKinds |-> active'[j]] /\ fresh' = [j \in CRKinds |-> fresh'[j]]
         /\ \A j \in CRKinds \ {k} : Same(j)
         /\ cr'[k] = Absent <=> cr[k] = Absent
<1>1. KindInv(k)
  BY Zenon DEF OperatorInv
<1>2. /\ active' = [active EXCEPT ![k] = Absent] /\ cached' = cached
      /\ queue' = IF error THEN queue \cup {k} ELSE queue
      /\ Current(k) => cr' = [cr EXCEPT ![k] = object]
                       /\ fresh' = IF object = cr[k] THEN fresh ELSE [fresh EXCEPT ![k] = {"reconcile"}]
      /\ ~Current(k) => cr' = cr /\ fresh' = fresh
  BY Zenon DEF Finish, Put
<1>3. /\ cr' = [j \in CRKinds |-> cr'[j]] /\ cached' = [j \in CRKinds |-> cached'[j]]
      /\ active' = [j \in CRKinds |-> active'[j]] /\ fresh' = [j \in CRKinds |-> fresh'[j]]
  <2>1. CASE Current(k)
    BY <1>2, <2>1, Zenon DEF OperatorInv
  <2>2. CASE ~Current(k)
    BY <1>2, <2>2, Zenon DEF OperatorInv
  <2> QED BY <2>1, <2>2, Zenon
<1>4. active'[k] = Absent /\ cached'[k] = cached[k]
  BY <1>2, Zenon DEF OperatorInv
<1>5. \A j \in CRKinds \ {k} : Same(j)
  <2>1. \A j \in CRKinds \ {k} : cr'[j] = cr[j] /\ fresh'[j] = fresh[j]
    <3>1. CASE Current(k)
      BY <1>2, <3>1, Zenon DEF OperatorInv
    <3>2. CASE ~Current(k)
      BY <1>2, <3>2, Zenon
    <3> QED BY <3>1, <3>2, Zenon
  <2>2. \A j \in CRKinds \ {k} : active'[j] = active[j] /\ cached'[j] = cached[j] /\ (j \in queue' <=> j \in queue)
    BY <1>2, Zenon DEF OperatorInv
  <2> QED BY <2>1, <2>2, Zenon DEF Same
<1>6. Done(k, cached[k])' /\ Done(k, active[k])'
  <2>1. PICK b : b = cached[k]
    BY Zenon
  <2>2. Done(k, b)' /\ cached'[k] = b
    BY <1>1, <1>4, <2>1, Zenon DEF KindInv
  <2> QED BY <1>4, <2>2, Zenon DEF Done
<1>7. CASE Current(k)
  <2>1. cr[k] # Absent /\ "reconcile" \in fresh[k] /\ cr[k] \in Objects(k) /\ cr[k].live
    BY <1>1, <1>7, Zenon DEF Current, KindInv
  <2>2. object \in Objects(k) /\ object.live = cr[k].live
    BY <1>7, <2>1, Zenon DEF Objects
  <2>3. object # Absent
    BY <2>2, DeliveryAssumption, Zenon
  <2>4. cr'[k] = object
    BY <1>2, <1>7, Zenon DEF OperatorInv
  <2>5. fresh'[k] = IF object = cr[k] THEN fresh[k] ELSE {"reconcile"}
    BY <1>2, <1>7, Zenon DEF OperatorInv
  <2>6. Done(k, cr[k])'
    BY <1>7, <2>4, Zenon DEF Done
  <2>7. Idle(k)' => Converged(k)'
    <3>1. Idle(k)' => ~error
      BY <1>2, Zenon DEF Idle
    <3> QED BY <1>7, <2>4, <3>1, Zenon
  <2>8. "cache" \in fresh'[k] => cached'[k] = cr'[k]
    BY <1>1, <1>4, <2>4, <2>5, Zenon DEF KindInv
  <2>9. KindInv(k)'
    BY <1>1, <1>4, <1>6, <2>1, <2>2, <2>3, <2>4, <2>6, <2>7, <2>8, Zenon DEF KindInv
  <2> QED BY <1>3, <1>5, <2>1, <2>3, <2>4, <2>9, Zenon
<1>8. CASE ~Current(k)
  <2>1. cr' = cr /\ fresh' = fresh
    BY <1>2, <1>8, Zenon
  <2>2. Done(k, cr[k])'
    <3>1. PICK b : b = cr[k]
      BY Zenon
    <3>2. Done(k, b)' /\ cr'[k] = b
      BY <1>1, <2>1, <3>1, Zenon DEF KindInv
    <3> QED BY <3>2, Zenon DEF Done
  <2>3. ASSUME Idle(k)' PROVE Converged(k)'
    <3>1. ~error /\ "cache" \in fresh[k] /\ k \notin queue
      BY <1>2, <2>1, <2>3, Zenon DEF Idle
    <3>2. CASE cr[k] # Absent
      BY <1>1, <1>8, <3>1, <3>2, Zenon DEF KindInv, Current
    <3> QED BY <1>8, <3>1, <3>2, Zenon
  <2>4. KindInv(k)'
    BY <1>1, <1>4, <1>6, <2>1, <2>2, <2>3, Zenon DEF KindInv
  <2> QED BY <1>3, <1>5, <2>1, <2>4, Zenon
<1> QED BY <1>7, <1>8, Zenon

\* A copy of an object of kind k that no longer lives is one, too.
LEMMA DeadCopy ==
  ASSUME NEW k \in CRKinds, NEW object \in Objects(k) \cup {Absent}
  PROVE  /\ Dead(object) \in Objects(k) \cup {Absent}
         /\ Dead(object) = Absent \/ ~Dead(object).live
         /\ k = "NexusWorkspace" => Done(k, Dead(object))'
<1>1. CASE object = Absent
  BY <1>1, Zenon DEF Dead, Done
<1>2. CASE object # Absent
  BY <1>2, Zenon DEF Dead, Objects, Done
<1> QED BY <1>1, <1>2, Zenon

\* The workspace object is deleted, and its children are without an owner.
LEMMA WorkspaceDeleted ==
  ASSUME OperatorInv, DeleteWorkspace
  PROVE  OperatorInv'
<1> DEFINE k == "NexusWorkspace"
<1>1. k \in CRKinds /\ KindInv(k)
  BY Zenon DEF CRKinds, OperatorInv
<1>2. /\ cr' = [cr EXCEPT ![k] = Absent] /\ fresh' = [fresh EXCEPT ![k] = {}]
      /\ cached' = [cached EXCEPT ![k] = Dead(cached[k])] /\ active' = [active EXCEPT ![k] = Dead(active[k])]
      /\ workspace' = Dead(workspace) /\ UNCHANGED <<queue, agents, submitted, mlflow, inference>>
  BY Zenon DEF DeleteWorkspace
<1> HIDE DEF k
<1>3. /\ cr' = [j \in CRKinds |-> cr'[j]] /\ cached' = [j \in CRKinds |-> cached'[j]]
      /\ active' = [j \in CRKinds |-> active'[j]] /\ fresh' = [j \in CRKinds |-> fresh'[j]]
      /\ cr'[k] = Absent /\ fresh'[k] = {} /\ cached'[k] = Dead(cached[k]) /\ active'[k] = Dead(active[k])
  BY <1>1, <1>2, Zenon DEF OperatorInv
<1>4. OnlyKind(k)
  <2>1. \A j \in CRKinds \ {k} : Same(j)
    BY <1>2, Zenon DEF OperatorInv, Same
  <2>2. \A j \in CRKinds \ {k} : SameChildren(j)
    BY <1>2, Zenon DEF SameChildren, k
  <2> QED BY <1>3, <2>1, <2>2, Zenon DEF OnlyKind
<1>5. {cached[k], active[k]} \subseteq Objects(k) \cup {Absent}
  BY <1>1, Zenon DEF KindInv
<1>6. workspace' = Absent \/ ~workspace'.live
  BY <1>2, Zenon DEF Dead, OperatorInv, Workspaces
<1>7. workspace' \in Workspaces \cup {Absent}
  BY <1>2, Zenon DEF Dead, OperatorInv, Workspaces
<1>8. OrphanInv'
  BY <1>1, <1>3, <1>5, <1>6, DeadCopy DEF OrphanInv, k
<1>9. KindInv(k)'
  <2>1. PICK b, c : b = Dead(cached[k]) /\ c = Dead(active[k])
    BY Zenon
  <2>2. {b, c} \subseteq Objects(k) \cup {Absent}
    BY <1>1, <1>5, <2>1, DeadCopy, Zenon
  <2>3. cached'[k] = b /\ active'[k] = c
    BY <1>3, <2>1, Zenon
  <2>4. Done(k, cr[k])' /\ Done(k, cached[k])' /\ Done(k, active[k])'
    BY Zenon DEF Done, k
  <2>5. ~Idle(k)'
    BY <1>3, Zenon DEF Idle
  <2> QED BY <1>3, <2>2, <2>3, <2>4, <2>5, Zenon DEF KindInv
<1> QED BY <1>1, <1>4, <1>7, <1>8, <1>9, KindStep, Zenon DEF k

\* The garbage collector removes what no longer has an owner.
LEMMA GarbageCollected ==
  ASSUME OperatorInv, collectGarbage
  PROVE  OperatorInv'
<1> DEFINE k == "NexusWorkspace"
<1>1. k \in CRKinds /\ KindInv(k)
  BY Zenon DEF CRKinds, OperatorInv
<1>2. ~workspace.live /\ workspace' = Absent
      /\ UNCHANGED <<cr, cached, fresh, queue, active, agents, submitted, mlflow, inference>>
  BY Zenon DEF collectGarbage, apiVars
<1>3. OnlyKind(k)
  BY <1>2, Zenon DEF OnlyKind, OperatorInv, Same, SameChildren
<1>4. OrphanInv'
  BY <1>2, Zenon DEF OperatorInv, OrphanInv
<1>5. Converged(k) => Converged(k)'
  BY <1>2, Zenon DEF Converged, WorkspaceMatches
<1>6. Done(k, cr[k])' /\ Done(k, cached[k])' /\ Done(k, active[k])'
  BY Zenon DEF Done
<1>7. Idle(k)' => Idle(k)
  BY <1>2, Zenon DEF Idle
<1> HIDE DEF k
<1>8. KindInv(k)'
  BY <1>1, <1>2, <1>5, <1>6, <1>7, Zenon DEF KindInv
<1> QED BY <1>1, <1>2, <1>3, <1>4, <1>8, KindStep, Zenon DEF k

\* An event brings the cache up to date and queues the object.
LEMMA Watched ==
  ASSUME OperatorInv, NEW k \in CRKinds, watchEvent(k)
  PROVE  OperatorInv'
<1>1. /\ "cache" \notin fresh[k] /\ cached' = [cached EXCEPT ![k] = cr[k]]
      /\ fresh' = [fresh EXCEPT ![k] = fresh[k] \cup {"cache"}] /\ queue' = queue \cup {k}
      /\ UNCHANGED <<cr, active, workspace, agents, submitted, mlflow, inference>>
  BY Zenon DEF watchEvent, childVars
<1>2. KindInv(k)
  BY Zenon DEF OperatorInv
<1>3. cached'[k] = cr[k] /\ fresh'[k] = fresh[k] \cup {"cache"} /\ k \in queue'
  BY <1>1, Zenon DEF OperatorInv
<1>4. OnlyKind(k)
  <2>1. \A j \in CRKinds \ {k} : Same(j)
    BY <1>1, Zenon DEF OperatorInv, Same
  <2>2. \A j \in CRKinds \ {k} : SameChildren(j)
    BY <1>1, Zenon DEF SameChildren
  <2> QED BY <1>1, <2>1, <2>2, Zenon DEF OperatorInv, OnlyKind
<1>5. OrphanInv' /\ workspace' \in Workspaces \cup {Absent}
  BY <1>1, Zenon DEF OperatorInv, OrphanInv, CRKinds
<1>6. Done(k, cr[k])' /\ Done(k, cached[k])' /\ Done(k, active[k])'
  BY <1>1, <1>2, <1>3, Zenon DEF KindInv, Done
<1>7. ~Idle(k)'
  BY <1>3, Zenon DEF Idle
<1>8. \A p \in Partitions : p # "cache"
  BY DeliveryAssumption, Zenon
<1>9. KindInv(k)'
  BY <1>1, <1>2, <1>3, <1>6, <1>7, <1>8, Zenon DEF KindInv
<1> QED BY <1>1, <1>4, <1>5, <1>9, KindStep, Zenon DEF OperatorInv

\* A Reconcile reads the object from the cache.
LEMMA Got ==
  ASSUME OperatorInv, NEW k \in CRKinds, Get(k)
  PROVE  OperatorInv'
<1>1. /\ k \in queue /\ active[k] = Absent /\ queue' = queue \ {k}
      /\ active' = [active EXCEPT ![k] = cached[k]]
      /\ fresh' = [fresh EXCEPT ![k] = IF "cache" \in fresh[k] THEN fresh[k] \cup {"reconcile"}
                                       ELSE fresh[k] \ {"reconcile"}]
      /\ UNCHANGED <<cr, cached, workspace, agents, submitted, mlflow, inference>>
  BY Zenon DEF Get, childVars
<1>2. KindInv(k)
  BY Zenon DEF OperatorInv
<1>3. active'[k] = cached[k] /\ k \notin queue'
      /\ fresh'[k] = IF "cache" \in fresh[k] THEN fresh[k] \cup {"reconcile"} ELSE fresh[k] \ {"reconcile"}
  BY <1>1, Zenon DEF OperatorInv
<1>4. OnlyKind(k)
  <2>1. \A j \in CRKinds \ {k} : Same(j)
    BY <1>1, Zenon DEF OperatorInv, Same
  <2>2. \A j \in CRKinds \ {k} : SameChildren(j)
    BY <1>1, Zenon DEF SameChildren
  <2> QED BY <1>1, <2>1, <2>2, Zenon DEF OperatorInv, OnlyKind
<1>5. OrphanInv' /\ workspace' \in Workspaces \cup {Absent}
  BY <1>1, Zenon DEF OperatorInv, OrphanInv, CRKinds
<1>6. Done(k, cr[k])' /\ Done(k, cached[k])' /\ Done(k, active[k])'
  BY <1>1, <1>2, <1>3, Zenon DEF KindInv, Done
<1>7. "cache" \in fresh'[k] <=> "cache" \in fresh[k]
  BY <1>3, Zenon
<1>8. \A p \in Partitions : p \in fresh'[k] => p \in fresh[k]
  BY <1>3, DeliveryAssumption, Zenon
<1>9. ASSUME active'[k] # Absent
      PROVE  IF "reconcile" \in fresh'[k] THEN cr'[k] # Absent /\ active'[k].spec = cr'[k].spec /\ active'[k].live
             ELSE "cache" \notin fresh'[k]
  BY <1>1, <1>2, <1>3, <1>9 DEF KindInv
<1>10. ASSUME Idle(k)' PROVE Converged(k)'
  <2>1. cr[k] = Absent
    BY <1>2, <1>3, <1>7, <1>10, Zenon DEF Idle, KindInv
  <2>2. k = "NexusWorkspace" => workspace = Absent \/ ~workspace.live
    BY <2>1, Zenon DEF OperatorInv, OrphanInv
  <2> QED BY <1>1, <2>1, <2>2, Zenon DEF Converged
<1>11. KindInv(k)'
  BY <1>1, <1>2, <1>3, <1>6, <1>7, <1>8, <1>9, <1>10 DEF KindInv
<1> QED BY <1>1, <1>4, <1>5, <1>11, KindStep, Zenon DEF OperatorInv

\* The children that a Reconcile of the workspace leaves after n of its calls.
LEMMA ChildrenOf ==
  ASSUME NEW a \in Objects("NexusWorkspace"), NEW old \in Workspaces, NEW n \in 0..4
  PROVE  /\ Children(a, old, n) \in Workspaces
         /\ Children(a, old, n).disk >= old.disk
         /\ n >= 1 => Children(a, old, n).live = a.live
         /\ n = 4 => /\ Children(a, old, n).disk >= a.spec.disk /\ Children(a, old, n).secret
                     /\ Children(a, old, n).pods = containers(a.spec)
                     /\ Children(a, old, n).service = workspacePorts(a.spec.services)
                     /\ Children(a, old, n).replicas =
                          IF a.spec.disabled \/ DOMAIN containers(a.spec) = {} THEN 0 ELSE 1
<1>1. a.spec \in Specs("NexusWorkspace") /\ a.live \in BOOLEAN
  BY Zenon DEF Objects
<1>2. a.spec.disk \in Int /\ containers(a.spec) \in {containers(s) : s \in Specs("NexusWorkspace")}
  BY <1>1, DeliveryAssumption, Zenon
<1>3. /\ old.disk \in Int /\ old.secret \in BOOLEAN /\ old.replicas \in {0, 1} /\ old.live \in BOOLEAN
      /\ old.service \in SUBSET {"workbench", "ide"}
      /\ old.pods \in {<<>>} \cup {containers(s) : s \in Specs("NexusWorkspace")}
  BY Zenon DEF Workspaces
<1>4. PICK top \in Int : top = Max({a.spec.disk, old.disk}) /\ top >= a.spec.disk /\ top >= old.disk
  BY <1>2, <1>3, MaxTwo, Zenon
<1>5. PICK pods, ports : pods = containers(a.spec) /\ ports = workspacePorts(a.spec.services)
  BY Zenon
<1>6. ports \in SUBSET {"workbench", "ide"}
  BY <1>5, Zenon DEF workspacePorts
<1>7. PICK up \in {0, 1} : up = IF a.spec.disabled \/ DOMAIN pods = {} THEN 0 ELSE 1
  BY Zenon
<1>8. PICK c : c = [disk     |-> IF n >= 1 THEN top ELSE old.disk,
                    secret   |-> n >= 2 \/ old.secret,
                    replicas |-> IF n < 3 THEN old.replicas ELSE up,
                    pods     |-> IF n >= 3 THEN pods ELSE old.pods,
                    service  |-> IF n >= 4 THEN ports ELSE old.service,
                    live     |-> IF n >= 1 THEN a.live ELSE old.live]
  BY Zenon
<1>9. Children(a, old, n) = c
  BY <1>4, <1>5, <1>7, <1>8, Zenon DEF Children
<1>10. c \in Workspaces
  BY <1>1, <1>2, <1>3, <1>5, <1>6, <1>8, Zenon DEF Workspaces
<1>11. c.disk >= old.disk /\ (n >= 1 => c.live = a.live)
  BY <1>3, <1>4, <1>8
<1>12. n = 4 => c.disk >= a.spec.disk /\ c.secret /\ c.pods = pods /\ c.service = ports /\ c.replicas = up
  <2>1. n = 4 => c.disk >= a.spec.disk /\ c.pods = pods /\ c.service = ports /\ c.replicas = up
    BY <1>4, <1>8
  <2>2. n = 4 => n >= 2
    OBVIOUS
  <2>3. c.secret = (n >= 2 \/ old.secret)
    BY <1>8, Zenon
  <2>4. n = 4 => c.secret
    BY <2>2, <2>3, Zenon
  <2> QED BY <2>1, <2>4, Zenon
<1>13. Children(a, old, n) \in Workspaces /\ Children(a, old, n).disk >= old.disk
  BY <1>9, <1>10, <1>11, Zenon
<1>14. n >= 1 => Children(a, old, n).live = a.live
  BY <1>9, <1>11, Zenon
<1>15. n = 4 => Children(a, old, n).disk >= a.spec.disk /\ Children(a, old, n).secret
  BY <1>9, <1>12, Zenon
<1>16. n = 4 => /\ Children(a, old, n).pods = containers(a.spec)
                /\ Children(a, old, n).service = workspacePorts(a.spec.services)
  BY <1>5, <1>9, <1>12, Zenon
<1>17. n = 4 => Children(a, old, n).replicas =
                  IF a.spec.disabled \/ DOMAIN containers(a.spec) = {} THEN 0 ELSE 1
  BY <1>5, <1>7, <1>9, <1>12, Zenon
<1> QED BY <1>13, <1>14, <1>15, <1>16, <1>17, Zenon

\* A Reconcile of a workspace whose grant is invalid fails.
LEMMA WorkspaceFails ==
  ASSUME OperatorInv, failWorkspace
  PROVE  OperatorInv'
<1> DEFINE k == "NexusWorkspace"
<1>1. PICK a : a = active[k]
  BY Zenon
<1>2. PICK status : status = [a.status EXCEPT !.phase = "Failed"]
  BY Zenon
<1>3. /\ a # Absent /\ Finish(k, status, TRUE) /\ UNCHANGED <<workspace, agents, submitted, mlflow, inference>>
  BY <1>1, <1>2, Zenon DEF failWorkspace, childVars
<1>4. k \in CRKinds /\ KindInv(k)
  BY Zenon DEF OperatorInv, CRKinds
<1>5. a \in Objects(k)
  BY <1>1, <1>3, <1>4, Zenon DEF KindInv
<1>6. status \in Statuses(k)
  <2>1. a.status \in [phase : Phases, seen : Specs(k) \cup {Absent}]
    BY <1>5, Zenon DEF Objects, Statuses
  <2>2. status \in [phase : Phases, seen : Specs(k) \cup {Absent}]
    <3>1. PICK s, S, failed : s = a.status /\ S = Specs(k) \cup {Absent} /\ failed = "Failed"
      BY Zenon
    <3>2. failed \in Phases
      BY <3>1, Zenon DEF Phases
    <3>3. s \in [phase : Phases, seen : S] /\ status = [s EXCEPT !.phase = failed]
      BY <1>2, <2>1, <3>1, Zenon
    <3>4. status \in [phase : Phases, seen : S]
      BY <3>2, <3>3, Zenon
    <3> QED BY <3>1, <3>4, Zenon
  <2> QED BY <2>2, Zenon DEF Statuses
<1>7. PICK object : object = [cr[k] EXCEPT !.status = status]
  BY Zenon
<1>8. \A o : Done(k, o)'
  BY Zenon DEF Done
<1> HIDE DEF k
<1>9. /\ KindInv(k)'
      /\ cr' = [j \in CRKinds |-> cr'[j]] /\ cached' = [j \in CRKinds |-> cached'[j]]
      /\ active' = [j \in CRKinds |-> active'[j]] /\ fresh' = [j \in CRKinds |-> fresh'[j]]
      /\ \A j \in CRKinds \ {k} : Same(j)
      /\ cr'[k] = Absent <=> cr[k] = Absent
  BY <1>3, <1>4, <1>6, <1>7, <1>8, Finishes, Zenon
<1>10. OnlyKind(k)
  BY <1>3, <1>9, Zenon DEF OnlyKind, SameChildren
<1>11. OrphanInv'
  <2>1. cached' = cached /\ active' = [active EXCEPT ![k] = Absent] /\ workspace' = workspace
    BY <1>3, Zenon DEF Finish
  <2> QED BY <1>4, <1>9, <2>1, Zenon DEF OrphanInv, OperatorInv, k
<1> QED BY <1>3, <1>4, <1>9, <1>10, <1>11, KindStep, Zenon DEF k, OperatorInv

\* The children before a Reconcile are those there, or none.
Old == IF workspace = Absent THEN NoChildren ELSE workspace

\* A Reconcile of the workspace writes the children, the last of them the service,
\* and then the status.
LEMMA WorkspaceReconciled ==
  ASSUME OperatorInv, NEW n \in 0..4, ReconcileWorkspace(n)
  PROVE  /\ OperatorInv'
         /\ workspace # Absent => workspace' # Absent /\ workspace'.disk >= workspace.disk
<1> DEFINE k == "NexusWorkspace"
<1>1. PICK a, new : a = active[k] /\ new = Children(a, Old, n)
  BY Zenon
<1>2. PICK status, error : /\ status = IF n < 4 THEN a.status ELSE WorkspaceStatus(a.spec)
                           /\ error = (n < 4 \/ cr[k] = Absent)
  BY Zenon
<1>3. /\ a # Absent /\ Valid(a.spec) /\ workspace' = IF n = 0 THEN workspace ELSE new
      /\ UNCHANGED <<agents, submitted, mlflow, inference>>
  BY <1>1, Zenon DEF ReconcileWorkspace, Old
<1>4. Finish(k, status, error) /\ error \in BOOLEAN
  <2>1. CASE n < 4
    <3>1. Finish(k, a.status, TRUE)
      BY <1>1, <2>1, Zenon DEF ReconcileWorkspace
    <3>2. status = a.status /\ error = TRUE
      BY <1>2, <2>1, Zenon
    <3> QED BY <3>1, <3>2, Zenon
  <2>2. CASE ~(n < 4)
    <3>1. Finish(k, WorkspaceStatus(a.spec), cr[k] = Absent)
      BY <1>1, <2>2, Zenon DEF ReconcileWorkspace
    <3>2. status = WorkspaceStatus(a.spec) /\ error = (cr[k] = Absent)
      BY <1>2, <2>2, Zenon
    <3> QED BY <3>1, <3>2, Zenon
  <2> QED BY <2>1, <2>2, Zenon
<1>5. k \in CRKinds /\ KindInv(k)
  BY Zenon DEF OperatorInv, CRKinds
<1>6. a \in Objects(k) /\ a.spec \in Specs(k)
  BY <1>1, <1>3, <1>5, Zenon DEF KindInv, Objects
<1>7. Old \in Workspaces
  BY DEF Old, NoChildren, Workspaces, OperatorInv
<1>8. /\ new \in Workspaces /\ new.disk >= Old.disk /\ (n >= 1 => new.live = a.live)
      /\ n = 4 => /\ new.disk >= a.spec.disk /\ new.secret
                  /\ new.pods = containers(a.spec) /\ new.service = workspacePorts(a.spec.services)
                  /\ new.replicas = IF a.spec.disabled \/ DOMAIN containers(a.spec) = {} THEN 0 ELSE 1
  BY <1>1, <1>6, <1>7, ChildrenOf
<1>9. workspace' \in Workspaces \cup {Absent}
  BY <1>3, <1>8, Zenon DEF OperatorInv
<1>10. workspace # Absent => workspace' # Absent /\ workspace'.disk >= workspace.disk
  <2>1. new # Absent
    BY <1>8, DeliveryAssumption, Zenon
  <2>2. ASSUME workspace # Absent PROVE Old = workspace /\ workspace.disk \in Int
    BY <2>2, Zenon DEF Old, OperatorInv, Workspaces
  <2> QED BY <1>3, <1>8, <2>1, <2>2
<1>11. status \in Statuses(k)
  <2>1. a.status \in Statuses(k)
    BY <1>6, Zenon DEF Objects
  <2>2. WorkspaceStatus(a.spec) \in Statuses(k)
    <3>1. WorkspaceStatus(a.spec) \in [phase : Phases, seen : Specs(k) \cup {Absent}]
      <4>1. PICK phase \in Phases : phase = IF a.spec.disabled THEN "Suspended" ELSE "Ready"
        BY Zenon DEF Phases
      <4>2. WorkspaceStatus(a.spec) = [phase |-> phase, seen |-> a.spec]
        BY <4>1, Zenon DEF WorkspaceStatus
      <4> QED BY <1>6, <4>2
    <3> QED BY <3>1, Zenon DEF Statuses
  <2> QED BY <1>2, <2>1, <2>2, Zenon
<1>12. PICK object : object = [cr[k] EXCEPT !.status = status]
  BY Zenon
<1>13. \A o : Done(k, o)'
  BY Zenon DEF Done
<1>14. ASSUME ~error, Current(k), cr'[k] = object
       PROVE  Converged(k)'
  <2>1. n = 4 /\ cr[k] # Absent
    <3>1. ~(n < 4) /\ cr[k] # Absent
      BY <1>2, <1>14, Zenon
    <3> QED BY <3>1
  <2>2. a.spec = cr[k].spec /\ a.live /\ cr[k] \in Objects(k)
    BY <1>1, <1>3, <1>5, <1>14, <2>1, Zenon DEF KindInv, Current
  <2>3. object.spec = a.spec /\ object.status = WorkspaceStatus(a.spec)
    BY <1>2, <1>12, <2>1, <2>2 DEF Objects
  <2>4. object.status.seen = a.spec
    BY <2>3 DEF WorkspaceStatus
  <2>5. workspace' = new /\ new # Absent /\ new.live
    <3>1. n >= 1 /\ workspace' = new /\ new # Absent
      BY <1>3, <1>8, <2>1, DeliveryAssumption
    <3>2. new.live
      BY <1>8, <2>2, <3>1, Zenon
    <3> QED BY <3>1, <3>2, Zenon
  <2>6. PICK interactive : interactive = a.spec.services \cap {"workbench", "ide"}
    BY Zenon
  <2>7. DOMAIN containers(a.spec) = interactive /\ workspacePorts(a.spec.services) = interactive
    BY <2>6, Zenon DEF containers, workspacePorts
  <2>8. /\ new.secret /\ new.disk >= a.spec.disk /\ new.service = DOMAIN new.pods /\ new.service = interactive
        /\ new.replicas = IF a.spec.disabled \/ interactive = {} THEN 0 ELSE 1
    BY <1>8, <2>1, <2>7, Zenon
  <2>9. PICK spec : spec = a.spec
    BY Zenon
  <2>10. WorkspaceMatches(spec)'
    BY <2>5, <2>6, <2>8, <2>9, Zenon DEF WorkspaceMatches
  <2>11. cr'[k].spec = spec /\ cr'[k].status.seen = cr'[k].spec /\ cr'[k] # Absent
    <3>1. object # Absent
      <4>1. object \in Objects(k)
        BY <1>11, <1>12, <2>2, Zenon DEF Objects
      <4> QED BY <1>5, <4>1, DeliveryAssumption, Zenon
    <3> QED BY <1>14, <2>3, <2>4, <2>9, <3>1, Zenon
  <2>12. WorkspaceMatches(cr[k].spec)'
    BY <2>10, <2>11, Zenon DEF WorkspaceMatches
  <2> QED BY <2>11, <2>12, Zenon DEF Converged
<1>15. ~error /\ ~Current(k) => active[k] # Absent /\ cr[k] # Absent
  BY <1>1, <1>2, <1>3, Zenon
<1> HIDE DEF k
<1>16. /\ KindInv(k)'
       /\ cr' = [j \in CRKinds |-> cr'[j]] /\ cached' = [j \in CRKinds |-> cached'[j]]
       /\ active' = [j \in CRKinds |-> active'[j]] /\ fresh' = [j \in CRKinds |-> fresh'[j]]
       /\ \A j \in CRKinds \ {k} : Same(j)
       /\ cr'[k] = Absent <=> cr[k] = Absent
  BY <1>4, <1>5, <1>11, <1>12, <1>13, <1>14, <1>15, Finishes, Zenon
<1>17. OnlyKind(k)
  BY <1>3, <1>16, Zenon DEF OnlyKind, SameChildren, k
<1>18. OrphanInv'
  <2> SUFFICES ASSUME cr'[k] = Absent
               PROVE  \A object1 \in {cached'[k], active'[k], workspace'} : object1 = Absent \/ ~object1.live
    BY Zenon DEF OrphanInv, k
  <2>1. cached' = cached /\ active' = [active EXCEPT ![k] = Absent]
    BY <1>4, Zenon DEF Finish
  <2>2. cr[k] = Absent
    BY <1>16, Zenon
  <2>3. /\ cached[k] = Absent \/ ~cached[k].live
        /\ ~a.live
        /\ workspace = Absent \/ ~workspace.live
    BY <1>1, <1>3, <2>2, Zenon DEF OperatorInv, OrphanInv, k
  <2>4. workspace' = Absent \/ ~workspace'.live
    BY <1>3, <1>8, <2>3
  <2>5. active'[k] = Absent
    BY <1>5, <2>1, Zenon DEF OperatorInv
  <2> QED BY <2>1, <2>3, <2>4, <2>5, Zenon
<1> QED BY <1>3, <1>5, <1>9, <1>10, <1>16, <1>17, <1>18, KindStep, Zenon DEF k, OperatorInv

\* The larger of two numbers is the second when the first is no larger.
LEMMA MaxSecond ==
  ASSUME NEW a \in Int, NEW b \in Int, a =< b
  PROVE  Max({a, b}) = b
<1>1. b \in {a, b} /\ \A y \in {a, b} : b >= y
  OBVIOUS
<1>2. \A x \in {a, b} : (\A y \in {a, b} : x >= y) => x = b
  OBVIOUS
<1> QED BY <1>1, <1>2, Zenon DEF Max

\* A Reconcile of another object than the workspace ends.
LEMMA FinishStep ==
  ASSUME OperatorInv, NEW k \in CRKinds, k # "NexusWorkspace",
         NEW status, NEW error \in BOOLEAN, Finish(k, status, error),
         NEW object, object = [cr[k] EXCEPT !.status = status],
         Current(k) => status \in Statuses(k) /\ Done(k, object)',
         \A o \in {cr[k], cached[k]} : Done(k, o) => Done(k, o)',
         ~error /\ Current(k) /\ cr'[k] = object => Converged(k)',
         ~error /\ ~Current(k) => active[k] # Absent /\ (cr[k] # Absent \/ Converged(k)'),
         \A j \in CRKinds \ {k} : SameChildren(j),
         k = "NexusAgent" => agents' \in [Versions -> [replicas : Int, service : BOOLEAN]],
         k = "NexusModelPromotion" => mlflow' = [v \in Versions |-> mlflow'[v]] /\ inference' \subseteq Versions
  PROVE  OperatorInv'
<1>1. /\ KindInv(k)'
      /\ cr' = [j \in CRKinds |-> cr'[j]] /\ cached' = [j \in CRKinds |-> cached'[j]]
      /\ active' = [j \in CRKinds |-> active'[j]] /\ fresh' = [j \in CRKinds |-> fresh'[j]]
      /\ \A j \in CRKinds \ {k} : Same(j)
  BY Finishes
<1>2. OnlyKind(k)
  BY <1>1, Zenon DEF OnlyKind
<1> QED BY <1>1, <1>2, KindStep, Zenon

\* The agent's object gets its finalizer before its children are written.
LEMMA FinalizerAdded ==
  ASSUME OperatorInv, AddFinalizer
  PROVE  OperatorInv'
<1> DEFINE k == "NexusAgent"
<1>1. k \in CRKinds /\ KindInv(k) /\ active[k] # Absent
  BY Zenon DEF OperatorInv, CRKinds, AddFinalizer
<1>2. UNCHANGED <<workspace, agents, submitted, mlflow, inference>>
  BY Zenon DEF AddFinalizer, childVars
<1>3. \A o : Done(k, o)'
  BY Zenon DEF Done
<1>4. k # "NexusWorkspace" /\ k # "NexusModelPromotion" /\ \A j \in CRKinds : SameChildren(j)
  BY <1>2, Zenon DEF SameChildren
<1>5. CASE Current(k)
  <2>1. PICK object, copy : object = [cr[k] EXCEPT !.finalizer = TRUE] /\ copy = [active[k] EXCEPT !.finalizer = TRUE]
    BY Zenon
  <2>2. /\ cr' = [cr EXCEPT ![k] = object] /\ active' = [active EXCEPT ![k] = copy]
        /\ fresh' = IF object = cr[k] THEN fresh ELSE [fresh EXCEPT ![k] = {"reconcile"}]
        /\ UNCHANGED <<cached, queue>>
    BY <1>5, <2>1, Zenon DEF AddFinalizer, Put
  <2>3. cr[k] \in Objects(k) /\ active[k] \in Objects(k) /\ "reconcile" \in fresh[k]
    BY <1>1, <1>5, Zenon DEF KindInv, Current
  <2>4. active[k].spec = cr[k].spec /\ active[k].live /\ cr[k].live
    BY <1>1, <1>5, Zenon DEF KindInv, Current
  <2>5. object \in Objects(k) /\ copy \in Objects(k) /\ copy.spec = object.spec
        /\ object.live = cr[k].live /\ copy.live = active[k].live
    BY <2>1, <2>3, <2>4, Zenon DEF Objects
  <2>6. object # Absent /\ copy # Absent
    BY <1>1, <2>5, DeliveryAssumption, Zenon
  <2> HIDE DEF k
  <2>7. /\ cr'[k] = object /\ active'[k] = copy /\ cached'[k] = cached[k]
        /\ fresh'[k] = IF object = cr[k] THEN fresh[k] ELSE {"reconcile"}
    BY <1>1, <2>2, Zenon DEF OperatorInv
  <2>8. OnlyKind(k)
    BY <1>4, <2>2, Zenon DEF OnlyKind, OperatorInv, Same
  <2>9. object.live /\ copy.live
    BY <2>4, <2>5, Zenon
  <2>10. Done(k, cr[k])' /\ Done(k, cached[k])' /\ Done(k, active[k])'
    BY Zenon DEF Done, k
  <2>11. ~Idle(k)'
    BY <2>6, <2>7, Zenon DEF Idle
  <2>12. KindInv(k)'
    <3>1. {cr'[k], cached'[k], active'[k]} \subseteq Objects(k) \cup {Absent}
      BY <1>1, <2>5, <2>7, Zenon DEF KindInv
    <3>2. "cache" \in fresh'[k] => cached'[k] = cr'[k]
      BY <1>1, <2>7 DEF KindInv
    <3>3. "reconcile" \in fresh'[k] /\ cr'[k] # Absent /\ active'[k].spec = cr'[k].spec
      BY <2>3, <2>5, <2>6, <2>7, Zenon
    <3>4. cr'[k].live /\ active'[k].live
      BY <2>7, <2>9, Zenon
    <3> QED BY <2>10, <2>11, <3>1, <3>2, <3>3, <3>4, Zenon DEF KindInv
  <2> QED BY <1>1, <1>2, <1>4, <2>8, <2>12, KindStep, Zenon DEF OperatorInv
<1>6. CASE ~Current(k)
  <2>1. PICK status, object : status = active[k].status /\ object = [cr[k] EXCEPT !.status = status]
    BY Zenon
  <2>2. Finish(k, status, TRUE)
    BY <1>6, <2>1, Zenon DEF AddFinalizer
  <2> HIDE DEF k
  <2> QED BY <1>1, <1>2, <1>3, <1>4, <1>6, <2>1, <2>2, FinishStep, Zenon DEF OperatorInv
<1> QED BY <1>5, <1>6, Zenon

\* A Reconcile of the agent writes the Deployment and the Service of its version.
LEMMA AgentReconciled ==
  ASSUME OperatorInv, NEW n \in 0..2, ReconcileAgent(n)
  PROVE  OperatorInv'
<1> DEFINE k == "NexusAgent"
<1>1. PICK a, status, error : /\ a = active[k] /\ error = (n < 2)
                              /\ status = IF n < 2 THEN a.status ELSE [phase |-> "Ready", seen |-> a.spec]
  BY Zenon
<1>2. a # Absent /\ Finish(k, status, error) /\ UNCHANGED <<workspace, submitted, mlflow, inference>>
  BY <1>1, Zenon DEF ReconcileAgent
<1>3. k \in CRKinds /\ KindInv(k) /\ error \in BOOLEAN
  BY <1>1 DEF OperatorInv, CRKinds
<1>4. a \in Objects(k) /\ a.spec \in Specs(k) /\ a.status \in Statuses(k)
  BY <1>1, <1>2, <1>3, Zenon DEF KindInv, Objects
<1>5. PICK version, replicas : version = a.spec.version /\ replicas = a.spec.replicas
  BY Zenon
<1>6. version \in Versions /\ replicas \in Int /\ replicas >= 1
  BY <1>4, <1>5, DeliveryAssumption
<1>7. AgentPlan(a.spec).replicas = replicas
  BY <1>5, <1>6, MaxSecond DEF AgentPlan
<1>8. PICK old \in [replicas : Int, service : BOOLEAN] : old = agents[version]
  BY <1>6, Zenon DEF OperatorInv
<1>9. PICK new : new = [replicas |-> IF n >= 1 THEN replicas ELSE old.replicas, service |-> n >= 2 \/ old.service]
  BY Zenon
<1>10. agents' = [agents EXCEPT ![version] = new]
  BY <1>1, <1>5, <1>7, <1>8, <1>9, Zenon DEF ReconcileAgent
<1>11. new \in [replicas : Int, service : BOOLEAN]
  BY <1>6, <1>8, <1>9, Zenon
<1>12. agents' \in [Versions -> [replicas : Int, service : BOOLEAN]] /\ agents'[version] = new
  BY <1>6, <1>10, <1>11, Zenon DEF OperatorInv
<1>13. n = 2 => new = [replicas |-> replicas, service |-> TRUE]
  <2>1. n = 2 => n >= 1 /\ n >= 2
    OBVIOUS
  <2> QED BY <1>9, <2>1, Zenon
<1>14. status \in Statuses(k)
  <2>1. [phase |-> "Ready", seen |-> a.spec] \in [phase : Phases, seen : Specs(k) \cup {Absent}]
    BY <1>4, Zenon DEF Phases
  <2>2. [phase |-> "Ready", seen |-> a.spec] \in Statuses(k)
    BY <2>1, Zenon DEF Statuses
  <2> QED BY <1>1, <1>4, <2>2, Zenon
<1>15. PICK object : object = [cr[k] EXCEPT !.status = status]
  BY Zenon
<1>16. \A o : Done(k, o)'
  BY Zenon DEF Done
<1>17. ASSUME ~error, Current(k), cr'[k] = object
       PROVE  Converged(k)'
  <2>1. ~(n < 2)
    BY <1>1, <1>17, Zenon
  <2>2. n = 2
    BY <2>1
  <2>3. a.spec = cr[k].spec /\ cr[k] \in Objects(k)
    BY <1>1, <1>2, <1>3, <1>17, Zenon DEF KindInv, Current
  <2>4. object.spec = a.spec
    BY <1>15, <2>3, Zenon DEF Objects
  <2>5. agents'[cr'[k].spec.version] = [replicas |-> cr'[k].spec.replicas, service |-> TRUE]
    BY <1>5, <1>12, <1>13, <1>17, <2>2, <2>4, Zenon
  <2> QED BY <2>5, Zenon DEF Converged
<1>18. ASSUME ~Current(k) PROVE active[k] # Absent /\ (cr[k] # Absent \/ Converged(k)')
  <2>1. cr' = cr
    BY <1>2, <1>18, Zenon DEF Finish
  <2> QED BY <1>1, <1>2, <2>1, Zenon DEF Converged
<1>19. k # "NexusWorkspace" /\ k # "NexusModelPromotion" /\ \A j \in CRKinds \ {k} : SameChildren(j)
  BY <1>2, Zenon DEF SameChildren
<1> HIDE DEF k
<1> QED BY <1>2, <1>3, <1>12, <1>14, <1>15, <1>16, <1>17, <1>18, <1>19, FinishStep

\* The status says that the submission has begun, when it can.
LEMMA SubmitStarted ==
  ASSUME OperatorInv, StartSubmit
  PROVE  OperatorInv'
<1> DEFINE k == "NexusPipelineRun"
<1>1. k \in CRKinds /\ KindInv(k) /\ active[k] # Absent
  BY Zenon DEF OperatorInv, CRKinds, StartSubmit
<1>2. UNCHANGED <<cached, queue, active, workspace, agents, submitted, mlflow, inference>>
  BY Zenon DEF StartSubmit, childVars
<1>3. k # "NexusWorkspace" /\ k # "NexusAgent" /\ k # "NexusModelPromotion" /\ \A j \in CRKinds : SameChildren(j)
  BY <1>2, Zenon DEF SameChildren
<1>4. \A o : Done(k, o) => Done(k, o)'
  BY <1>2, Zenon DEF Done
<1>5. CASE Current(k)
  <2>1. PICK object, status : object = [cr[k] EXCEPT !.status = status] /\ status = [cr[k].status EXCEPT !.phase = "Submitting"]
    BY Zenon
  <2>2. cr[k] \in Objects(k) /\ cr[k].status \in Statuses(k) /\ cr[k].live /\ "reconcile" \in fresh[k]
    BY <1>1, <1>5, Zenon DEF KindInv, Current, Objects
  <2>3. cr' = [cr EXCEPT ![k] = object] /\ fresh' = [fresh EXCEPT ![k] = {"reconcile"}]
    BY <1>5, <2>1, Zenon DEF StartSubmit
  <2>4. Statuses(k) = [phase : Phases, ref : {"", "workflow"}]
    BY Zenon DEF Statuses
  <2>5. status \in Statuses(k) /\ status.ref = cr[k].status.ref
    <3>1. PICK refs, s, submitting : refs = {"", "workflow"} /\ s = cr[k].status /\ submitting = "Submitting"
      BY Zenon
    <3>2. submitting \in Phases
      BY <3>1, Zenon DEF Phases
    <3>3. s \in [phase : Phases, ref : refs] /\ status = [s EXCEPT !.phase = submitting]
      BY <2>1, <2>2, <2>4, <3>1, Zenon
    <3>4. status \in [phase : Phases, ref : refs] /\ status.ref = s.ref
      BY <3>2, <3>3, Zenon
    <3> QED BY <2>4, <3>1, <3>4, Zenon
  <2>6. object \in Objects(k) /\ object.live = cr[k].live /\ object.spec = cr[k].spec /\ object.status = status
    BY <2>1, <2>2, <2>5, Zenon DEF Objects
  <2>7. object # Absent
    BY <1>1, <2>6, DeliveryAssumption, Zenon
  <2>8. Done(k, object)'
    BY <1>1, <1>2, <1>5, <2>5, <2>6, Zenon DEF Done, KindInv, Current
  <2> HIDE DEF k
  <2>9. cr'[k] = object /\ fresh'[k] = {"reconcile"} /\ active'[k] = active[k] /\ cached'[k] = cached[k]
    BY <1>1, <1>2, <2>3, Zenon DEF OperatorInv
  <2>10. OnlyKind(k)
    BY <1>2, <1>3, <2>3, Zenon DEF OnlyKind, OperatorInv, Same
  <2>11. Done(k, cr[k])' /\ Done(k, cached[k])' /\ Done(k, active[k])'
    BY <1>1, <1>4, <2>8, <2>9, Zenon DEF Done, KindInv
  <2>12. ~Idle(k)'
    BY <1>1, <2>9, Zenon DEF Idle
  <2>13. cr'[k].live /\ active'[k].live /\ active'[k].spec = cr'[k].spec
    BY <1>1, <1>5, <2>2, <2>6, <2>9, Zenon DEF KindInv, Current
  <2>14. KindInv(k)'
    BY <1>1, <2>6, <2>7, <2>9, <2>11, <2>12, <2>13, DeliveryAssumption, Zenon DEF KindInv
  <2> QED BY <1>1, <1>2, <1>3, <2>10, <2>14, KindStep, Zenon DEF OperatorInv
<1>6. CASE ~Current(k)
  <2>1. UNCHANGED <<cr, fresh>>
    BY <1>6, Zenon DEF StartSubmit
  <2>2. Same(k) /\ OnlyKind(k)
    BY <1>2, <1>3, <2>1, Zenon DEF OnlyKind, OperatorInv, Same
  <2>3. KindInv(k)'
    BY <1>1, <1>3, <2>2, KindFrame, Zenon
  <2> QED BY <1>1, <1>2, <1>3, <2>2, <2>3, KindStep, Zenon
<1> QED BY <1>5, <1>6, Zenon

\* A run that has a reference is not submitted again.
LEMMA SubmittedBefore ==
  ASSUME OperatorInv, AlreadySubmitted
  PROVE  OperatorInv'
<1> DEFINE k == "NexusPipelineRun"
<1>1. PICK a, status : a = active[k] /\ status = a.status
  BY Zenon
<1>2. /\ a # Absent /\ status.ref # "" /\ Finish(k, status, FALSE)
      /\ UNCHANGED <<workspace, agents, submitted, mlflow, inference>>
  BY <1>1, Zenon DEF AlreadySubmitted, childVars
<1>3. k \in CRKinds /\ KindInv(k) /\ FALSE \in BOOLEAN
  BY Zenon DEF OperatorInv, CRKinds
<1>4. status \in Statuses(k)
  BY <1>1, <1>2, <1>3, Zenon DEF KindInv, Objects
<1>5. submitted /\ submitted'
  BY <1>1, <1>2, <1>3, Zenon DEF KindInv, Done
<1>6. PICK object : object = [cr[k] EXCEPT !.status = status]
  BY Zenon
<1>7. (\A o : Done(k, o)') /\ Converged(k)'
  BY <1>5, Zenon DEF Done, Converged
<1>8. k # "NexusWorkspace" /\ k # "NexusAgent" /\ k # "NexusModelPromotion" /\ \A j \in CRKinds : SameChildren(j)
  BY <1>2, Zenon DEF SameChildren
<1> HIDE DEF k
<1>9. Finish(k, status, FALSE) /\ active[k] # Absent
  BY <1>1, <1>2, Zenon
<1> QED BY <1>3, <1>4, <1>6, <1>7, <1>8, <1>9, FinishStep, Zenon

\* KFP answers, or the call fails; a failed call may have had its effect.
LEMMA Submitted ==
  ASSUME OperatorInv, NEW failed \in BOOLEAN, Submit(failed)
  PROVE  OperatorInv'
<1> DEFINE k == "NexusPipelineRun"
<1>1. PICK status, error : /\ status = IF failed THEN [phase |-> "Failed", ref |-> ""]
                                       ELSE [phase |-> "Running", ref |-> "workflow"]
                           /\ error = (failed \/ ~Current(k))
  BY Zenon
<1>2. Finish(k, status, error) /\ UNCHANGED <<workspace, agents, mlflow, inference>>
  BY <1>1, Zenon DEF Submit
<1>3. k \in CRKinds /\ KindInv(k) /\ error \in BOOLEAN
  BY <1>1, Zenon DEF OperatorInv, CRKinds
<1>4. (submitted => submitted') /\ (~failed => submitted')
  BY Zenon DEF Submit, KFPSubmit
<1>5. status \in Statuses(k) /\ (status.ref # "" => submitted')
  <2>1. [phase |-> "Failed", ref |-> ""] \in Statuses(k) /\ [phase |-> "Running", ref |-> "workflow"] \in Statuses(k)
    BY Zenon DEF Statuses, Phases
  <2>2. failed => status.ref = ""
    BY <1>1, Zenon
  <2> QED BY <1>1, <1>4, <2>1, <2>2, Zenon
<1>6. PICK object : object = [cr[k] EXCEPT !.status = status]
  BY Zenon
<1>7. Current(k) => Done(k, object)'
  <2>1. ASSUME Current(k) PROVE object.status = status
    BY <1>3, <1>6, <2>1, Zenon DEF Current, KindInv, Objects
  <2> QED BY <1>5, <2>1, Zenon DEF Done
<1>8. \A o : Done(k, o) => Done(k, o)'
  BY <1>4, Zenon DEF Done
<1>9. ~error => Current(k) /\ Converged(k)'
  <2>1. ~error => ~failed /\ Current(k)
    BY <1>1, Zenon
  <2> QED BY <1>4, <2>1, Zenon DEF Converged
<1>10. k # "NexusWorkspace" /\ k # "NexusAgent" /\ k # "NexusModelPromotion" /\ \A j \in CRKinds \ {k} : SameChildren(j)
  BY <1>2, Zenon DEF SameChildren
<1> HIDE DEF k
<1> QED BY <1>2, <1>3, <1>5, <1>6, <1>7, <1>8, <1>9, <1>10, FinishStep, Zenon

\* A promotion that succeeded is not repeated.
LEMMA PromotedBefore ==
  ASSUME OperatorInv, AlreadyPromoted
  PROVE  OperatorInv'
<1> DEFINE k == "NexusModelPromotion"
<1>1. PICK a, status : a = active[k] /\ status = a.status
  BY Zenon
<1>2. /\ a # Absent /\ status.phase = "Succeeded" /\ Finish(k, status, FALSE)
      /\ UNCHANGED <<workspace, agents, submitted, mlflow, inference>>
  BY <1>1, Zenon DEF AlreadyPromoted, childVars
<1>3. k \in CRKinds /\ KindInv(k) /\ FALSE \in BOOLEAN
  BY Zenon DEF OperatorInv, CRKinds
<1>4. status \in Statuses(k)
  BY <1>1, <1>2, <1>3, Zenon DEF KindInv, Objects
<1>5. \E v \in inference' : mlflow'[v] # "None"
  BY <1>1, <1>2, <1>3, Zenon DEF KindInv, Done
<1>6. PICK object : object = [cr[k] EXCEPT !.status = status]
  BY Zenon
<1>7. (\A o : Done(k, o)') /\ Converged(k)'
  BY <1>5, Zenon DEF Done, Converged
<1>8. k # "NexusWorkspace" /\ k # "NexusAgent" /\ \A j \in CRKinds : SameChildren(j)
  BY <1>2, Zenon DEF SameChildren
<1> HIDE DEF k
<1>9. Finish(k, status, FALSE) /\ active[k] # Absent /\ mlflow' = [v \in Versions |-> mlflow'[v]] /\ inference' \subseteq Versions
  BY <1>1, <1>2, Zenon DEF OperatorInv
<1> QED BY <1>3, <1>4, <1>6, <1>7, <1>8, <1>9, FinishStep, Zenon

\* A version with a stage keeps having one.
LEMMA StagesStay ==
  ASSUME OperatorInv, NEW version \in Versions, NEW stage, stage # "None", NEW failed \in BOOLEAN,
         TransitionStage(version, stage, failed)
  PROVE  /\ mlflow' = [v \in Versions |-> mlflow'[v]]
         /\ \A v \in Versions : mlflow[v] # "None" => mlflow'[v] # "None"
         /\ ~failed => mlflow'[version] # "None"
<1>1. PICK staged : staged = [v \in Versions |-> CASE v = version -> stage
                                                   [] v # version /\ stage = "Production" /\ mlflow[v] = stage -> "Archived"
                                                   [] OTHER -> mlflow[v]]
  BY Zenon
<1>2. mlflow' = staged \/ (failed /\ mlflow' = mlflow)
  BY <1>1, Zenon DEF TransitionStage
<1>3. staged = [v \in Versions |-> staged[v]]
  BY <1>1, Zenon
<1>4. \A v \in Versions : staged[v] = stage \/ staged[v] = "Archived" \/ staged[v] = mlflow[v]
  BY <1>1, Zenon
<1>5. staged[version] = stage
  BY <1>1, Zenon
<1> QED BY <1>2, <1>3, <1>4, <1>5, Zenon DEF OperatorInv

\* A promotion sets the stage in MLflow and creates the InferenceService.
LEMMA PromotionReconciled ==
  ASSUME OperatorInv, NEW n \in 0..2, ReconcilePromotion(n)
  PROVE  OperatorInv'
<1> DEFINE k == "NexusModelPromotion"
<1>1. PICK a, status, error, version, stage :
        /\ a = active[k] /\ error = (n < 2 \/ ~Current(k)) /\ version = a.spec.version /\ stage = stageName[a.spec.stage]
        /\ status = CASE n = 0 -> [phase |-> "Failed"] [] n = 1 -> a.status [] n = 2 -> [phase |-> "Succeeded"]
  BY Zenon
<1>2. /\ a # Absent /\ a.status.phase # "Succeeded" /\ Finish(k, status, error) /\ UNCHANGED <<workspace, agents, submitted>>
      /\ TransitionStage(version, stage, n = 0)
      /\ inference' = IF n = 2 THEN inference \cup {version} ELSE inference
  BY <1>1, Zenon DEF ReconcilePromotion
<1>3. k \in CRKinds /\ KindInv(k) /\ error \in BOOLEAN
  BY <1>1, Zenon DEF OperatorInv, CRKinds
<1>4. a \in Objects(k) /\ a.spec \in Specs(k) /\ a.status \in Statuses(k)
  BY <1>1, <1>2, <1>3, Zenon DEF KindInv, Objects
<1>5. version \in Versions /\ stage # "None"
  <2>1. version \in Versions /\ a.spec.stage \in DOMAIN stageName
    BY <1>1, <1>4, DeliveryAssumption, Zenon
  <2>2. \A s \in DOMAIN stageName : stageName[s] # "None"
    BY DEF stageName
  <2> QED BY <1>1, <2>1, <2>2, Zenon
<1>6. /\ mlflow' = [v \in Versions |-> mlflow'[v]]
      /\ \A v \in Versions : mlflow[v] # "None" => mlflow'[v] # "None"
      /\ n # 0 => mlflow'[version] # "None"
  <2>1. PICK failed \in BOOLEAN : failed = (n = 0)
    BY Zenon
  <2>2. TransitionStage(version, stage, failed)
    BY <1>2, <2>1, Zenon
  <2>3. ~failed <=> n # 0
    BY <2>1, Zenon
  <2> QED BY <1>5, <2>2, <2>3, StagesStay, Zenon
<1>7. inference' \subseteq Versions /\ inference \subseteq inference' /\ (n = 2 => version \in inference')
  BY <1>2, <1>5, Zenon DEF OperatorInv
<1>8. (\E v \in inference : mlflow[v] # "None") => \E v \in inference' : mlflow'[v] # "None"
  BY <1>6, <1>7, Zenon DEF OperatorInv
<1>9. n = 2 => \E v \in inference' : mlflow'[v] # "None"
  BY <1>6, <1>7
<1>10. status \in Statuses(k) /\ (status.phase = "Succeeded" => n = 2)
  <2>1. [phase |-> "Failed"] \in Statuses(k) /\ [phase |-> "Succeeded"] \in Statuses(k)
    BY Zenon DEF Statuses, Phases
  <2>2. CASE n = 0
    <3>1. status = [phase |-> "Failed"]
      BY <1>1, <2>2
    <3> QED BY <2>1, <3>1, Zenon
  <2>3. CASE n = 1
    <3>1. status = a.status
      BY <1>1, <2>3
    <3> QED BY <1>2, <1>4, <3>1, Zenon
  <2>4. CASE n = 2
    <3>1. status = [phase |-> "Succeeded"]
      BY <1>1, <2>4
    <3> QED BY <2>1, <2>4, <3>1, Zenon
  <2> QED BY <2>2, <2>3, <2>4
<1>11. PICK object : object = [cr[k] EXCEPT !.status = status]
  BY Zenon
<1>12. Current(k) => Done(k, object)'
  <2>1. ASSUME Current(k) PROVE object.status = status
    BY <1>3, <1>11, <2>1, Zenon DEF Current, KindInv, Objects
  <2> QED BY <1>9, <1>10, <2>1, Zenon DEF Done
<1>13. \A o : Done(k, o) => Done(k, o)'
  BY <1>8, Zenon DEF Done
<1>14. ~error => Current(k) /\ Converged(k)'
  <2>1. ~error => ~(n < 2) /\ Current(k)
    BY <1>1, Zenon
  <2>2. ~(n < 2) => n = 2
    OBVIOUS
  <2> QED BY <1>9, <2>1, <2>2, Zenon DEF Converged
<1>15. k # "NexusWorkspace" /\ k # "NexusAgent" /\ \A j \in CRKinds \ {k} : SameChildren(j)
  BY <1>2, Zenon DEF SameChildren
<1> HIDE DEF k
<1> QED BY <1>2, <1>3, <1>6, <1>7, <1>10, <1>11, <1>12, <1>13, <1>14, <1>15, FinishStep

-----------------------------------------------------------------------------
(* The integration workers *)

\* A sequence of rows is one of rows when there are more of them.
LEMMA SeqWider ==
  ASSUME NEW S, NEW T, S \subseteq T, NEW s \in Seq(S)
  PROVE  s \in Seq(T)
  OBVIOUS

\* A worker that has dispatched its first command has the others left.
LEMMA TailIsSeq ==
  ASSUME NEW S, NEW s \in Seq(S), s # <<>>
  PROVE  Tail(s) \in Seq(S)
  OBVIOUS

\* The kinds of object that a command is about.
LEMMA KindOfCommand ==
  ASSUME NEW m
  PROVE  ResourceKind(m) = "none" \/ ResourceKind(m) \in CRKinds
BY Zenon DEF ResourceKind, CRKinds

\* The command that a worker handles is one that was written.
LEMMA CommandWritten ==
  ASSUME IInv, WorkerInv, NEW p \in Partitions, todo[p] # <<>>
  PROVE  Head(todo[p]) \in 1..Len(rows) /\ Command(p) \in Mutations
<1>1. todo[p] \in Seq(1..Len(rows)) /\ rows \in Seq(Mutations)
  BY Zenon DEF IInv, WorkerInv
<1>2. Head(todo[p]) \in 1..Len(rows)
  BY <1>1
<1> QED BY <1>1, <1>2 DEF Command

\* A step of the gateway or of a relay adds a row, or records of rows.
LEMMA WorkersKept ==
  ASSUME IInv, WorkerInv, IInv', Len(rows) <= Len(rows'), \A i \in 1..Len(rows) : rows'[i] = rows[i],
         topic' = topic \/ \E p \in Partitions, i \in 1..Len(rows) : topic' = [topic EXCEPT ![p] = Append(topic[p], i)],
         UNCHANGED <<todo, read>>
  PROVE  WorkerInv'
<1>1. PICK few, more : few = 1..Len(rows) /\ more = 1..Len(rows')
  BY Zenon
<1>2. Len(rows) \in Nat /\ Len(rows') \in Nat
  BY DEF IInv
<1>3. few \subseteq more
  BY <1>1, <1>2
<1>4. \A s \in Seq(few) : s \in Seq(more)
  BY <1>3, SeqWider, Zenon
<1>5. topic \in [Partitions -> Seq(few)] /\ todo \in [Partitions -> Seq(few)]
  BY <1>1, Zenon DEF WorkerInv
<1>6. topic' \in [Partitions -> Seq(few)]
  <2>1. ASSUME NEW p \in Partitions, NEW i \in few, topic' = [topic EXCEPT ![p] = Append(topic[p], i)]
        PROVE  topic' \in [Partitions -> Seq(few)]
    <3>1. Append(topic[p], i) \in Seq(few)
      BY <1>5
    <3> QED BY <1>5, <2>1, <3>1, Zenon
  <2> QED BY <1>1, <1>5, <2>1, Zenon
<1>7. topic' \in [Partitions -> Seq(more)] /\ todo' \in [Partitions -> Seq(more)]
  BY <1>4, <1>5, <1>6, Zenon
<1>8. ASSUME NEW p \in Partitions, todo[p] # <<>>
      PROVE  Command(p)' = Command(p)
  BY <1>8, CommandWritten, Zenon DEF Command
<1> QED BY <1>1, <1>7, <1>8, Zenon DEF WorkerInv

\* A step of the worker of p, which may poll, handle or lose records.
LEMMA WorkerAt ==
  ASSUME IInv, WorkerInv, NEW p \in Partitions, rows' = rows,
         NEW records \in Seq(1..Len(rows)), NEW answer,
         topic' \in [Partitions -> Seq(1..Len(rows))],
         todo' = [todo EXCEPT ![p] = records], read' = [read EXCEPT ![p] = answer],
         answer = "nothing" \/ (/\ records = todo[p] /\ todo[p] # <<>>
                                /\ ResourceKind(Command(p)) # "none" /\ Command(p).verb # "deleted")
  PROVE  WorkerInv'
<1>1. todo \in [Partitions -> Seq(1..Len(rows))] /\ read = [q \in Partitions |-> read[q]]
  BY Zenon DEF WorkerInv
<1>2. todo' \in [Partitions -> Seq(1..Len(rows'))] /\ topic' \in [Partitions -> Seq(1..Len(rows'))]
  BY <1>1, Zenon
<1>3. read' = [q \in Partitions |-> read'[q]] /\ read'[p] = answer /\ todo'[p] = records
      /\ \A q \in Partitions \ {p} : read'[q] = read[q] /\ todo'[q] = todo[q]
  BY <1>1, Zenon
<1>4. ASSUME NEW q \in Partitions, read'[q] # "nothing"
      PROVE  todo'[q] # <<>> /\ ResourceKind(Command(q))' # "none" /\ Command(q)'.verb # "deleted"
  <2>1. todo'[q] = todo[q]
    BY <1>3, <1>4, Zenon
  <2>2. Command(q)' = Command(q)
    BY <2>1, Zenon DEF Command
  <2>3. todo[q] # <<>> /\ ResourceKind(Command(q)) # "none" /\ Command(q).verb # "deleted"
    BY <1>3, <1>4, Zenon DEF WorkerInv
  <2> QED BY <2>1, <2>2, <2>3, Zenon DEF ResourceKind
<1> QED BY <1>2, <1>3, <1>4, Zenon DEF WorkerInv

\* What the gateway and the relays do is nothing to the workers but more to read.
LEMMA RelayStep ==
  ASSUME IInv, WorkerInv, IInv', UNCHANGED read,
         (\E m \in Mutations : write(m)) \/ \E g \in Relays : Flush(g) \/ MarkFailed(g) \/ FlushStops(g)
  PROVE  WorkerInv'
<1>1. rows \in Seq(Mutations)
  BY Zenon DEF IInv
<1>2. ASSUME NEW m \in Mutations, write(m)
      PROVE  WorkerInv'
  <2>1. rows' = rows \/ rows' = Append(rows, m)
    BY <1>2, Zenon DEF write
  <2>2. Len(rows) <= Len(rows') /\ \A i \in 1..Len(rows) : rows'[i] = rows[i]
    BY <1>1, <2>1
  <2> QED BY <1>2, <2>2, WorkersKept, Zenon DEF write
<1>3. ASSUME NEW g \in Relays, PendingOutbox(g) \/ MarkPublished(g) \/ FlushStops(g)
      PROVE  WorkerInv'
  <2>1. UNCHANGED <<rows, topic, todo>>
    BY <1>3, Zenon DEF PendingOutbox, MarkPublished, FlushStops
  <2>2. Len(rows) <= Len(rows') /\ \A i \in 1..Len(rows) : rows'[i] = rows[i]
    BY <1>1, <2>1
  <2> QED BY <2>1, <2>2, WorkersKept, Zenon
<1>4. ASSUME NEW g \in Relays, Publish(g) \/ MarkFailed(g)
      PROVE  WorkerInv'
  <2>1. UNCHANGED <<rows, todo>> /\ batch[g] # {}
    BY <1>4, Zenon DEF Publish, MarkFailed
  <2>2. First(batch[g]) \in 1..Len(rows)
    BY <2>1, FirstInBatch, Zenon DEF IInv, RelayInv
  <2>3. topic' = topic \/ \E p \in Partitions : topic' = [topic EXCEPT ![p] = Append(topic[p], First(batch[g]))]
    BY <1>4, Zenon DEF Publish, MarkFailed, Produce
  <2>4. Len(rows) <= Len(rows') /\ \A i \in 1..Len(rows) : rows'[i] = rows[i]
    BY <1>1, <2>1
  <2> QED BY <2>1, <2>2, <2>3, <2>4, WorkersKept, Zenon
<1> QED BY <1>2, <1>3, <1>4, Zenon DEF Flush

\* A worker polls its partition, dispatches a command, fails to or stops.
LEMMA WorkerStep ==
  ASSUME IInv, WorkerInv, NEW p \in Partitions,
         \/ Dispatch(p) \/ DispatchFails(p)
         \/ Poll(p) /\ UNCHANGED read
         \/ WorkerStops(p) /\ read' = [read EXCEPT ![p] = "nothing"]
  PROVE  WorkerInv'
<1>1. /\ topic \in [Partitions -> Seq(1..Len(rows))] /\ todo \in [Partitions -> Seq(1..Len(rows))]
      /\ read = [q \in Partitions |-> read[q]]
  BY Zenon DEF WorkerInv
<1>2. topic[p] \in Seq(1..Len(rows)) /\ todo[p] \in Seq(1..Len(rows)) /\ <<>> \in Seq(1..Len(rows))
  BY <1>1
<1>3. rows' = rows
  BY Zenon DEF Dispatch, DispatchFails, Poll, WorkerStops, relayVars
<1>4. CASE todo[p] # <<>> /\ Return(p) /\ UNCHANGED topic
  <2>1. Tail(todo[p]) \in Seq(1..Len(rows))
    BY <1>2, <1>4, TailIsSeq, Zenon
  <2> QED BY <1>1, <1>3, <1>4, <2>1, WorkerAt, Zenon DEF Return
<1>5. CASE todo[p] # <<>> /\ DispatchGet(p) /\ UNCHANGED topic
  <2>1. PICK answer : read' = [read EXCEPT ![p] = answer]
    BY <1>5, Zenon DEF DispatchGet
  <2>2. todo' = [todo EXCEPT ![p] = todo[p]] /\ ResourceKind(Command(p)) # "none" /\ Command(p).verb # "deleted"
    BY <1>1, <1>5, Zenon DEF DispatchGet
  <2> QED BY <1>1, <1>2, <1>3, <1>5, <2>1, <2>2, WorkerAt, Zenon
<1>6. CASE Poll(p) /\ UNCHANGED read
  <2>1. read[p] = "nothing"
    BY <1>6, Zenon DEF Poll, WorkerInv
  <2>2. read' = [read EXCEPT ![p] = "nothing"]
    BY <1>1, <1>6, <2>1, Zenon
  <2>3. topic' \in [Partitions -> Seq(1..Len(rows))] /\ todo' = [todo EXCEPT ![p] = topic[p]]
    BY <1>1, <1>2, <1>6, Zenon DEF Poll
  <2> QED BY <1>2, <1>3, <2>2, <2>3, WorkerAt, Zenon
<1>7. CASE WorkerStops(p) /\ read' = [read EXCEPT ![p] = "nothing"]
  <2>1. todo[p] \o topic[p] \in Seq(1..Len(rows))
    BY <1>2
  <2>2. topic' = topic \/ topic' = [topic EXCEPT ![p] = todo[p] \o topic[p]]
    BY <1>7, Zenon DEF WorkerStops
  <2>3. topic' \in [Partitions -> Seq(1..Len(rows))] /\ todo' = [todo EXCEPT ![p] = <<>>]
    BY <1>1, <1>7, <2>1, <2>2, Zenon DEF WorkerStops
  <2> QED BY <1>2, <1>3, <1>7, <2>3, WorkerAt, Zenon
<1> QED BY <1>4, <1>5, <1>6, <1>7, Zenon
        DEF Dispatch, DispatchNothing, DispatchDelete, DispatchPut, DispatchFails

\* A step that does not touch the cluster keeps what is known of it.
LEMMA ClusterFrame ==
  ASSUME OperatorInv, UNCHANGED clusterVars
  PROVE  OperatorInv' /\ workspace' = workspace
<1>1. UNCHANGED <<cr, cached, fresh, queue, active, workspace, agents, submitted, mlflow, inference>>
  BY Zenon DEF clusterVars, apiVars, childVars
<1>2. \A k \in CRKinds : Same(k) /\ SameChildren(k)
  BY <1>1, Zenon DEF Same, SameChildren
<1>3. \A k \in CRKinds : KindInv(k)'
  BY <1>2, KindFrame, Zenon DEF OperatorInv
<1>4. OrphanInv'
  BY <1>1, Zenon DEF OperatorInv, OrphanInv
<1> QED BY <1>1, <1>3, <1>4, Zenon DEF OperatorInv

\* The Dispatcher reads an object.
LEMMA DispatcherReads ==
  ASSUME OperatorInv, NEW p \in Partitions, DispatchGet(p)
  PROVE  OperatorInv' /\ workspace' = workspace
<1>1. PICK k \in CRKinds : k = ResourceKind(Command(p))
  BY KindOfCommand, Zenon DEF DispatchGet
<1>2. /\ fresh' = [fresh EXCEPT ![k] = IF cr[k] = Absent THEN fresh[k] ELSE fresh[k] \cup {p}]
      /\ UNCHANGED <<cr, cached, queue, active, workspace, agents, submitted, mlflow, inference>>
  BY <1>1, Zenon DEF DispatchGet, childVars
<1>3. KindInv(k) /\ p # "cache" /\ p # "reconcile"
  BY DeliveryAssumption, Zenon DEF OperatorInv
<1>4. fresh'[k] = IF cr[k] = Absent THEN fresh[k] ELSE fresh[k] \cup {p}
  BY <1>2, Zenon DEF OperatorInv
<1>5. ("cache" \in fresh'[k] <=> "cache" \in fresh[k]) /\ ("reconcile" \in fresh'[k] <=> "reconcile" \in fresh[k])
  BY <1>3, <1>4, Zenon
<1>6. OnlyKind(k)
  <2>1. \A j \in CRKinds : SameChildren(j)
    BY <1>2, Zenon DEF SameChildren
  <2>2. \A j \in CRKinds \ {k} : Same(j)
    BY <1>2, Zenon DEF OperatorInv, Same
  <2> QED BY <1>2, <2>1, <2>2, Zenon DEF OnlyKind, OperatorInv
<1>7. Done(k, cr[k])' /\ Done(k, cached[k])' /\ Done(k, active[k])'
  BY <1>2, <1>3, Zenon DEF KindInv, Done
<1>8. Idle(k)' => Converged(k)'
  <2>1. Idle(k)' => Idle(k)
    BY <1>2, <1>5, Zenon DEF Idle
  <2>2. Converged(k) => Converged(k)'
    BY <1>2, Zenon DEF Converged, WorkspaceMatches
  <2> QED BY <1>3, <2>1, <2>2, Zenon DEF KindInv
<1>9. \A q \in Partitions : q \in fresh'[k] => cr'[k] # Absent
  BY <1>2, <1>3, <1>4, Zenon DEF KindInv
<1>10. KindInv(k)'
  BY <1>2, <1>3, <1>5, <1>7, <1>8, <1>9, Zenon DEF KindInv
<1>11. OrphanInv'
  BY <1>2, Zenon DEF OperatorInv, OrphanInv
<1> QED BY <1>2, <1>6, <1>10, <1>11, KindStep, Zenon DEF OperatorInv

\* The object that the Dispatcher writes: a new one, or another specification for
\* one whose status it leaves alone.
LEMMA WrittenObject ==
  ASSUME NEW k \in CRKinds, NEW spec \in Specs(k), NEW status, NEW object,
         status = NewStatus(k) \/ (cr[k] \in Objects(k) /\ cr[k] # Absent /\ Done(k, cr[k]) /\ status = cr[k].status),
         object = [spec |-> spec, finalizer |-> FALSE, live |-> TRUE, status |-> status],
         UNCHANGED childVars
  PROVE  object \in Objects(k) /\ object # Absent /\ object.live /\ Done(k, object)'
<1>1. NewStatus(k) \in Statuses(k) /\ NewStatus(k).phase # "Succeeded" /\ (k = "NexusPipelineRun" => NewStatus(k).ref = "")
  <2>1. CASE k = "NexusPipelineRun"
    BY <2>1, Zenon DEF NewStatus, Statuses, Phases
  <2>2. CASE k = "NexusModelPromotion"
    BY <2>2, Zenon DEF NewStatus, Statuses, Phases
  <2>3. CASE k \in {"NexusWorkspace", "NexusAgent"}
    BY <2>3, Zenon DEF NewStatus, Statuses, Phases
  <2> QED BY <2>1, <2>2, <2>3, Zenon DEF CRKinds
<1>2. status \in Statuses(k)
  BY <1>1, Zenon DEF Objects
<1>3. object \in Objects(k)
  BY <1>2, Zenon DEF Objects
<1>4. object.status = status /\ object.live = TRUE
  BY Zenon
<1>5. Done(k, object)'
  <2>1. CASE status = NewStatus(k)
    BY <1>1, <1>4, <2>1, Zenon DEF Done
  <2>2. CASE cr[k] # Absent /\ Done(k, cr[k]) /\ status = cr[k].status
    BY <1>4, <2>2, Zenon DEF Done, childVars
  <2> QED BY <2>1, <2>2, Zenon
<1>6. object # Absent
  BY <1>3, DeliveryAssumption, Zenon
<1> QED BY <1>3, <1>4, <1>5, <1>6, Zenon

\* The Dispatcher creates or updates an object, unless another one did since.
LEMMA DispatcherWrites ==
  ASSUME IInv, WorkerInv, OperatorInv, NEW p \in Partitions, todo[p] # <<>>, DispatchPut(p)
  PROVE  OperatorInv' /\ workspace' = workspace
<1>1. PICK k \in CRKinds : k = ResourceKind(Command(p))
  BY KindOfCommand, Zenon DEF DispatchPut, WorkerInv
<1>2. UNCHANGED <<cached, queue, active>> /\ UNCHANGED childVars
  BY Zenon DEF DispatchPut
<1>3. UNCHANGED <<workspace, agents, submitted, mlflow, inference>>
  BY <1>2, Zenon DEF childVars
<1>4. KindInv(k) /\ p # "cache" /\ p # "reconcile"
  BY DeliveryAssumption, Zenon DEF OperatorInv
<1>5. CASE UNCHANGED <<cr, fresh>>
  <2>1. \A j \in CRKinds : Same(j) /\ SameChildren(j)
    BY <1>2, <1>3, <1>5, Zenon DEF Same, SameChildren
  <2>2. \A j \in CRKinds : KindInv(j)'
    BY <2>1, KindFrame, Zenon DEF OperatorInv
  <2>3. OrphanInv'
    BY <1>2, <1>3, <1>5, Zenon DEF OperatorInv, OrphanInv
  <2> QED BY <1>2, <1>3, <1>5, <2>2, <2>3, Zenon DEF OperatorInv
<1>6. CASE ~ UNCHANGED <<cr, fresh>>
  <2>1. PICK spec, status, object :
          /\ spec = Command(p).payload /\ status = IF read[p] = Absent THEN NewStatus(k) ELSE cr[k].status
          /\ object = [spec |-> spec, finalizer |-> FALSE, live |-> TRUE, status |-> status]
    BY Zenon
  <2>2. Put(k, object, p) /\ (read[p] # Absent => p \in fresh[k])
    BY <1>1, <1>6, <2>1, Zenon DEF DispatchPut
  <2>3. spec \in Specs(k)
    <3>1. Command(p) \in Mutations /\ Command(p).verb # "deleted"
      BY CommandWritten, Zenon DEF WorkerInv, DispatchPut
    <3> QED BY <1>1, <2>1, <3>1, Zenon DEF Specs
  <2>4. status = NewStatus(k) \/ (cr[k] \in Objects(k) /\ cr[k] # Absent /\ Done(k, cr[k]) /\ status = cr[k].status)
    BY <1>4, <2>1, <2>2, Zenon DEF KindInv
  <2>5. object \in Objects(k) /\ object # Absent /\ object.live /\ Done(k, object)'
    BY <1>2, <2>1, <2>3, <2>4, WrittenObject, Zenon
  <2>6. /\ cr' = [cr EXCEPT ![k] = object]
        /\ fresh' = IF object = cr[k] THEN fresh ELSE [fresh EXCEPT ![k] = {p}]
    BY <2>2, Zenon DEF Put
  <2>7. object # cr[k]
    BY <1>6, <2>6, Zenon DEF OperatorInv
  <2>8. cr'[k] = object /\ fresh'[k] = {p} /\ cached'[k] = cached[k] /\ active'[k] = active[k]
    BY <1>2, <2>6, <2>7, Zenon DEF OperatorInv
  <2>9. OnlyKind(k)
    <3>1. \A j \in CRKinds : SameChildren(j)
      BY <1>3, Zenon DEF SameChildren
    <3>2. \A j \in CRKinds \ {k} : Same(j)
      BY <1>2, <2>6, <2>7, Zenon DEF OperatorInv, Same
    <3> QED BY <1>2, <2>6, <2>7, <3>1, <3>2, Zenon DEF OnlyKind, OperatorInv
  <2>10. Done(k, cr[k])' /\ Done(k, cached[k])' /\ Done(k, active[k])'
    BY <1>3, <1>4, <2>5, <2>8, Zenon DEF KindInv, Done
  <2>11. "cache" \notin fresh'[k] /\ "reconcile" \notin fresh'[k] /\ ~Idle(k)'
    BY <1>4, <2>8, Zenon DEF Idle
  <2>12. KindInv(k)'
    BY <1>4, <2>5, <2>8, <2>10, <2>11, Zenon DEF KindInv
  <2>13. OrphanInv'
    BY <1>2, <1>3, <2>5, <2>6, <2>7, <2>8, Zenon DEF OperatorInv, OrphanInv, CRKinds
  <2> QED BY <1>3, <2>9, <2>12, <2>13, KindStep, Zenon DEF OperatorInv
<1> QED BY <1>5, <1>6, Zenon

\* The claim of a workspace is not smaller than before, if there is one.
Grows == workspace # Absent /\ workspace' # Absent => workspace'.disk >= workspace.disk

\* Deleting the object, or collecting its children, changes no claim.
LEMMA Unshrunk ==
  ASSUME OperatorInv, workspace' = workspace \/ workspace' = Dead(workspace) \/ workspace' = Absent
  PROVE  Grows
<1>1. workspace # Absent => workspace \in Workspaces /\ workspace.disk \in Int
  BY Zenon DEF OperatorInv, Workspaces
<1>2. workspace # Absent => Dead(workspace).disk = workspace.disk
  BY <1>1, Zenon DEF Dead, Workspaces
<1> QED BY <1>1, <1>2 DEF Grows

\* What the operator does to the cluster.
LEMMA ControllerStep ==
  ASSUME OperatorInv,
         \/ \E k \in CRKinds : Get(k) \/ watchEvent(k)
         \/ collectGarbage \/ failWorkspace \/ (\E n \in 0..4 : ReconcileWorkspace(n))
         \/ AddFinalizer \/ (\E n \in 0..2 : ReconcileAgent(n))
         \/ StartSubmit \/ AlreadySubmitted \/ (\E error \in BOOLEAN : Submit(error))
         \/ AlreadyPromoted \/ (\E n \in 0..2 : ReconcilePromotion(n))
  PROVE  OperatorInv' /\ Grows
<1>1. ASSUME NEW n \in 0..4, ReconcileWorkspace(n)
      PROVE  OperatorInv' /\ Grows
  BY <1>1, WorkspaceReconciled, Zenon DEF Grows
<1>2. ASSUME NEW k \in CRKinds, Get(k) \/ watchEvent(k)
      PROVE  OperatorInv' /\ workspace' = workspace
  BY <1>2, Got, Watched, Zenon DEF Get, watchEvent, childVars
<1>3. CASE collectGarbage
  <2>1. workspace' = Absent
    BY <1>3, Zenon DEF collectGarbage
  <2> QED BY <1>3, <2>1, GarbageCollected, Unshrunk, Zenon
<1>4. ASSUME failWorkspace \/ AddFinalizer \/ StartSubmit \/ AlreadySubmitted \/ AlreadyPromoted
      PROVE  OperatorInv' /\ workspace' = workspace
  <2>1. workspace' = workspace
    BY <1>4, Zenon DEF failWorkspace, AddFinalizer, StartSubmit, AlreadySubmitted, AlreadyPromoted, childVars
  <2> QED BY <1>4, <2>1, WorkspaceFails, FinalizerAdded, SubmitStarted, SubmittedBefore, PromotedBefore, Zenon
<1>5. ASSUME NEW n \in 0..2, ReconcileAgent(n) \/ ReconcilePromotion(n)
      PROVE  OperatorInv' /\ workspace' = workspace
  <2>1. workspace' = workspace
    <3>1. ReconcileAgent(n) => workspace' = workspace
      BY Zenon DEF ReconcileAgent
    <3>2. ReconcilePromotion(n) => workspace' = workspace
      BY Zenon DEF ReconcilePromotion
    <3> QED BY <1>5, <3>1, <3>2, Zenon
  <2> QED BY <1>5, <2>1, AgentReconciled, PromotionReconciled, Zenon
<1>6. ASSUME NEW error \in BOOLEAN, Submit(error)
      PROVE  OperatorInv' /\ workspace' = workspace
  <2>1. workspace' = workspace
    BY <1>6, Zenon DEF Submit
  <2> QED BY <1>6, <2>1, Submitted, Zenon
<1> QED BY <1>1, <1>2, <1>3, <1>4, <1>5, <1>6, Unshrunk, Zenon

\* What a worker does to the cluster.
LEMMA DispatchStep ==
  ASSUME IInv, WorkerInv, OperatorInv, NEW p \in Partitions, Dispatch(p)
  PROVE  OperatorInv' /\ Grows
<1>1. CASE DispatchNothing(p)
  <2>1. UNCHANGED clusterVars
    BY <1>1, Zenon DEF DispatchNothing
  <2> QED BY <2>1, ClusterFrame, Unshrunk, Zenon
<1>2. CASE DispatchDelete(p)
  <2>1. UNCHANGED clusterVars \/ DeleteWorkspace
    BY <1>2, Zenon DEF DispatchDelete
  <2>2. CASE DeleteWorkspace
    <3>1. workspace' = Dead(workspace)
      BY <2>2, Zenon DEF DeleteWorkspace
    <3> QED BY <2>2, <3>1, WorkspaceDeleted, Unshrunk, Zenon
  <2> QED BY <2>1, <2>2, ClusterFrame, Unshrunk, Zenon
<1>3. CASE DispatchGet(p)
  BY <1>3, DispatcherReads, Unshrunk, Zenon
<1>4. CASE DispatchPut(p)
  <2>1. todo[p] # <<>>
    BY Zenon DEF Dispatch
  <2> QED BY <1>4, <2>1, DispatcherWrites, Unshrunk, Zenon
<1> QED BY <1>1, <1>2, <1>3, <1>4, Zenon DEF Dispatch

\* Every step of the gateway, a relay, a worker or the operator keeps what is
\* known of them, and shrinks no claim.
LEMMA StepOfCluster ==
  ASSUME IInv, IInv', WorkerInv, OperatorInv, [Next]_vars
  PROVE  WorkerInv' /\ OperatorInv' /\ Grows
<1>1. ASSUME UNCHANGED clusterVars PROVE OperatorInv' /\ Grows
  BY <1>1, ClusterFrame, Unshrunk, Zenon
<1>2. ASSUME UNCHANGED <<rows, topic, todo, read>> PROVE WorkerInv'
  BY <1>2, Zenon DEF WorkerInv, Command
<1>3. CASE Gateway
  <2>1. (\E m \in Mutations : write(m)) /\ UNCHANGED clusterVars /\ UNCHANGED read
    BY <1>3, Zenon DEF Gateway, UpsertUserAccess, DeleteUserAccess, OtherWrite
  <2> QED BY <1>1, <2>1, RelayStep, Zenon
<1>4. CASE \E g \in Relays : \/ Relay(g)
                             \/ (MarkFailed(g) \/ FlushStops(g)) /\ UNCHANGED <<clusterVars, grant, read>>
  <2>1. (\E g \in Relays : Flush(g) \/ MarkFailed(g) \/ FlushStops(g)) /\ UNCHANGED clusterVars /\ UNCHANGED read
    BY <1>4, Zenon DEF Relay
  <2> QED BY <1>1, <2>1, RelayStep, Zenon
<1>5. ASSUME NEW p \in Partitions, Worker(p)
      PROVE  WorkerInv' /\ OperatorInv' /\ Grows
  <2>1. CASE Dispatch(p)
    BY <2>1, WorkerStep, DispatchStep, Zenon
  <2>2. CASE Poll(p) /\ UNCHANGED clusterVars /\ UNCHANGED read
    BY <1>1, <2>2, WorkerStep, Zenon
  <2> QED BY <1>5, <2>1, <2>2, Zenon DEF Worker
<1>6. ASSUME NEW p \in Partitions,
             \/ DispatchFails(p)
             \/ WorkerStops(p) /\ read' = [read EXCEPT ![p] = "nothing"] /\ UNCHANGED <<clusterVars, grant>>
      PROVE  WorkerInv' /\ OperatorInv' /\ Grows
  <2>1. UNCHANGED clusterVars
    BY <1>6, Zenon DEF DispatchFails
  <2> QED BY <1>1, <1>6, <2>1, WorkerStep, Zenon
<1>7. CASE ReconcileFails
  <2>1. UNCHANGED <<rows, topic, todo, read>>
    BY <1>7, Zenon DEF ReconcileFails, relayVars
  <2>2. \/ \E n \in 0..4 : ReconcileWorkspace(n)
        \/ \E n \in 0..2 : ReconcileAgent(n)
        \/ \E n \in 0..2 : ReconcilePromotion(n)
        \/ \E error \in BOOLEAN : Submit(error)
    <3>1. (\A n \in 0..3 : n \in 0..4) /\ (\A n \in 0..1 : n \in 0..2)
      OBVIOUS
    <3>2. \/ \E n \in 0..3 : ReconcileWorkspace(n)
          \/ \E n \in 0..1 : ReconcileAgent(n) \/ ReconcilePromotion(n)
          \/ Submit(TRUE)
      BY <1>7, Zenon DEF ReconcileFails
    <3> QED BY <3>1, <3>2, Zenon
  <2> QED BY <1>2, <2>1, <2>2, ControllerStep, Zenon
<1>8. ASSUME NEW k \in CRKinds, Reconcile(k) \/ Informer(k)
      PROVE  WorkerInv' /\ OperatorInv' /\ Grows
  <2>1. UNCHANGED <<rows, topic, todo, read>>
    BY <1>8, Zenon DEF Reconcile, Informer, outboxVars, relayVars
  <2>2. \/ Get(k) \/ watchEvent(k) \/ failWorkspace \/ (\E n \in 0..4 : ReconcileWorkspace(n))
        \/ AddFinalizer \/ (\E n \in 0..2 : ReconcileAgent(n))
        \/ StartSubmit \/ AlreadySubmitted \/ (\E error \in BOOLEAN : Submit(error))
        \/ AlreadyPromoted \/ (\E n \in 0..2 : ReconcilePromotion(n))
    <3>1. 4 \in 0..4 /\ 2 \in 0..2
      OBVIOUS
    <3> QED BY <1>8, <3>1, Zenon DEF Reconcile, Informer
  <2> QED BY <1>2, <2>1, <2>2, ControllerStep, Zenon
<1>9. CASE Collector
  <2>1. UNCHANGED <<rows, topic, todo, read>> /\ collectGarbage
    BY <1>9, Zenon DEF Collector, outboxVars, relayVars
  <2> QED BY <1>2, <2>1, ControllerStep, Zenon
<1>10. CASE UNCHANGED vars
  <2>1. UNCHANGED clusterVars /\ UNCHANGED <<rows, topic, todo, read>>
    BY <1>10, Zenon DEF vars, outboxVars, relayVars
  <2> QED BY <1>1, <1>2, <2>1, Zenon
<1>11. Failures => \/ \E g \in Relays : (MarkFailed(g) \/ FlushStops(g)) /\ UNCHANGED <<clusterVars, grant, read>>
                   \/ \E p \in Partitions :
                        \/ DispatchFails(p)
                        \/ WorkerStops(p) /\ read' = [read EXCEPT ![p] = "nothing"] /\ UNCHANGED <<clusterVars, grant>>
                   \/ ReconcileFails
  BY Zenon DEF Failures
<1> QED BY <1>3, <1>4, <1>5, <1>6, <1>7, <1>8, <1>9, <1>10, <1>11, Zenon DEF Next

\* Nothing has been written, and there are no objects.
LEMMA ClusterInit == Init => WorkerInv /\ OperatorInv
<1> SUFFICES ASSUME Init PROVE WorkerInv /\ OperatorInv
  BY Zenon
<1>1. OutboxInit /\ OperatorInit /\ read = [p \in Partitions |-> "nothing"]
  BY Zenon DEF Init
<1>2. WorkerInv
  <2>1. <<>> \in Seq(1..Len(rows))
    OBVIOUS
  <2> QED BY <1>1, <2>1, Zenon DEF OutboxInit, WorkerInv
<1>3. /\ cr = [k \in CRKinds |-> Absent] /\ cached = [k \in CRKinds |-> Absent] /\ active = [k \in CRKinds |-> Absent]
      /\ fresh = [k \in CRKinds |-> {"cache"}] /\ queue = {} /\ workspace = Absent
      /\ agents = [v \in Versions |-> [replicas |-> 0, service |-> FALSE]]
      /\ mlflow = [v \in Versions |-> "None"] /\ inference = {}
  BY <1>1, Zenon DEF OperatorInit
<1>4. ASSUME NEW k \in CRKinds PROVE KindInv(k)
  <2>1. cr[k] = Absent /\ cached[k] = Absent /\ active[k] = Absent /\ fresh[k] = {"cache"}
    BY <1>3, Zenon
  <2>2. Converged(k)
    BY <1>3, <2>1, Zenon DEF Converged
  <2>3. \A p \in Partitions : p \notin fresh[k]
    BY <2>1, DeliveryAssumption, Zenon
  <2> QED BY <2>1, <2>2, <2>3, Zenon DEF KindInv, Done
<1>5. OrphanInv
  BY <1>3, Zenon DEF OrphanInv, CRKinds
<1>6. agents \in [Versions -> [replicas : Int, service : BOOLEAN]]
  BY <1>3
<1> QED BY <1>2, <1>3, <1>4, <1>5, <1>6, Zenon DEF OperatorInv

\* At any time, a Reconcile that holds the latest version of its object works on
\* the specification that is asked for, and one that does not is followed by
\* another: what the controllers of cmd/operator rely on.
THEOREM OperatorInvariance == Spec => [](IInv /\ WorkerInv /\ OperatorInv)
<1>1. Init => IInv /\ WorkerInv /\ OperatorInv
  BY InitEstablishes, ClusterInit, Zenon DEF Init
<1>2. (IInv /\ WorkerInv /\ OperatorInv) /\ [Next]_vars => (IInv /\ WorkerInv /\ OperatorInv)'
  BY StepOfOutbox, StepOfLog, StepOfCluster, Zenon
<1> QED BY <1>1, <1>2, PTL DEF Spec

\* An object that no controller has still to look at is in the state that its
\* specification asks for, in whatever order commands, events, stale reads,
\* conflicts and failed calls came (Dispatch and the Reconcilers).
THEOREM ChildrenFollow == Spec => []OperatorConverges
<1>1. OperatorInv => OperatorConverges
  <2> SUFFICES ASSUME OperatorInv PROVE OperatorConverges
    BY Zenon
  <2>1. \A k \in CRKinds : Idle(k) => Converged(k)
    BY Zenon DEF OperatorInv, KindInv
  <2> QED BY <2>1, Zenon DEF OperatorConverges, Converged, CRKinds
<1> QED BY <1>1, OperatorInvariance, PTL

\* No step makes the claim of a workspace smaller: ReconcileWorkspace takes the
\* larger of what is asked for and what there is.
THEOREM ClaimNeverShrinks == Spec => DiskNeverShrinks
<1>1. (IInv /\ WorkerInv /\ OperatorInv) /\ [Next]_vars =>
        [workspace # Absent /\ workspace' # Absent => workspace'.disk >= workspace.disk]_vars
  <2> SUFFICES ASSUME IInv, WorkerInv, OperatorInv, [Next]_vars PROVE Grows
    BY Zenon DEF Grows
  <2>1. IInv'
    BY StepOfOutbox, StepOfLog, Zenon
  <2> QED BY <2>1, StepOfCluster, Zenon
<1> QED BY <1>1, OperatorInvariance, PTL DEF Spec, DiskNeverShrinks
=============================================================================
