----------------------------- MODULE RowLifecycle ------------------------------
(***************************************************************************)
(* What a table of work promises its readers: a row appears as running and *)
(* is settled at most once, with a terminal status that never changes.     *)
(* Background jobs, deployments and pipeline runs are each shown to        *)
(* implement this specification.                                           *)
(***************************************************************************)
CONSTANTS
  Row,        \* the IDs
  Terminal    \* the statuses that say how it ended; not "none", not "running"

VARIABLE status   \* "none" where there is no row

Init == status = [r \in Row |-> "none"]

\* INSERT with the status running
Begin(r) ==
  /\ status[r] = "none"
  /\ status' = [status EXCEPT ![r] = "running"]

\* One outcome is recorded, or several at once (a reconciliation).
Settle ==
  \E R \in SUBSET {r \in Row : status[r] = "running"} :
    \E s \in [R -> Terminal] :
      status' = [r \in Row |-> IF r \in R THEN s[r] ELSE status[r]]

Next == Settle \/ \E r \in Row : Begin(r)

Spec == Init /\ [][Next]_status
=============================================================================
