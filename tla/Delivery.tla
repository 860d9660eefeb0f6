------------------------------ MODULE Delivery ------------------------------
(***************************************************************************)
(* What the relay promises, without channels, batches or retries: a line   *)
(* it accepted for a storage is owed to that storage until the one moment  *)
(* at which it is settled, together with some other lines of that storage, *)
(* as stored there or as lost.  It is never owed twice.                    *)
(***************************************************************************)
CONSTANTS Lines, Hosts

VARIABLES owed, stored, lost

vars == <<owed, stored, lost>>

Debt == [line : Lines, host : Hosts]

Init == owed = {} /\ stored = {} /\ lost = {}

Accept(d) ==
  /\ d \notin owed \cup stored \cup lost
  /\ owed' = owed \cup {d}
  /\ UNCHANGED <<stored, lost>>

Settle(batch) ==
  /\ \A d, e \in batch : d.host = e.host
  /\ owed' = owed \ batch
  /\ \/ stored' = stored \cup batch /\ UNCHANGED lost
     \/ lost' = lost \cup batch /\ UNCHANGED stored

Next ==
  \/ \E d \in Debt : Accept(d)
  \/ \E batch \in SUBSET owed : Settle(batch)

Spec == Init /\ [][Next]_vars
=============================================================================
