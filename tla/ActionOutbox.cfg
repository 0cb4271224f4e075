CONSTANTS
  Workers = {w1}
  Revisions = {1, 2}
  Versions = {1}
  NoDelivery = NoDelivery
  MaxAttempts = 2
  MaxRequests = 3
SPECIFICATION Spec
\* Deliveries end, and every delivery may have ended.
CHECK_DEADLOCK FALSE
INVARIANTS
  BoundedSends
  DeliveredWasAccepted
