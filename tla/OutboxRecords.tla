---------------------------- MODULE OutboxRecords ---------------------------
(***************************************************************************)
(* What is on both ends of the action outbox: the delivery store, the      *)
(* requests the receiver saw, and what each may say of the other.          *)
(***************************************************************************)
EXTENDS Integers

CONSTANTS
  Revisions,     \* revisions of the event
  Versions,      \* versions of the permission
  MaxAttempts    \* max_attempts

VARIABLES
  records,    \* the delivery store
  sent,       \* the requests the receiver saw of each delivery
  accepted    \* the deliveries the receiver answered with success

\* delivery_key: what tells deliveries apart.
Deliveries == Revisions \X Versions

-----------------------------------------------------------------------------
\* outbox.py promises bounded delivery: no delivery is sent more often than it has
\* attempts, over failures, lost answers and cancelled workers (deliver).
BoundedSends == \A d \in Deliveries : sent[d] <= MaxAttempts

\* A delivery is called delivered only when the receiver accepted it.
DeliveredWasAccepted ==
  \A d \in Deliveries : records[d].state = "delivered" => d \in accepted

=============================================================================
