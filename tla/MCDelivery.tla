----------------------------- MODULE MCDelivery -----------------------------
(* Two grants and one with a custom profile below the operator's minimum.  *)
EXTENDS Delivery

CONSTANT g1

Granted   == [services |-> {"workbench", "ide", "catalog"}, disabled |-> FALSE, vcpus |-> 2, disk |-> 2]
Suspended == [services |-> {"ide"}, disabled |-> TRUE, vcpus |-> 1, disk |-> 1]
TooSmall  == [services |-> {"ide"}, disabled |-> FALSE, vcpus |-> 0, disk |-> 1]

MCMutations ==
  {[service |-> "access", verb |-> "upserted", kind |-> "user_access", payload |-> g] :
     g \in {Granted, Suspended, TooSmall}}
  \cup {[service |-> "access", verb |-> "deleted", kind |-> "user_access", payload |-> Absent],
        [service |-> "pipeline", verb |-> "submitted", kind |-> "pipeline_run", payload |-> "training"],
        [service |-> "agent", verb |-> "deployed", kind |-> "agent", payload |-> [version |-> "v1", replicas |-> 2]],
        [service |-> "model", verb |-> "promoted", kind |-> "model", payload |-> [version |-> "v1", stage |-> "production"]],
        [service |-> "model", verb |-> "promoted", kind |-> "model", payload |-> [version |-> "v2", stage |-> "production"]],
        [service |-> "model", verb |-> "deployed", kind |-> "model", payload |-> [version |-> "v1", stage |-> "production"]],
        [service |-> "project", verb |-> "created", kind |-> "project", payload |-> "churn"]}

\* The objects of different kinds are independent: one kind at a time is enough.
\* The second relay takes part while the commands are those of deployed models,
\* which the Dispatcher ignores.
OneKind ==
  /\ \A i, j \in DOMAIN rows : rows[i].kind = rows[j].kind
  /\ \A g \in Relays \ {g1} : batch[g] # {} =>
       /\ \A i \in DOMAIN rows : ResourceKind(rows[i]) = "none"
=============================================================================
