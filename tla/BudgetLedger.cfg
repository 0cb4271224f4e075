CONSTANTS
  Clients = {c1, c2, c3}
  Reservations = {i1, i2, i3}
  NoReservation = NoReservation
  Limit = 5
  Estimate = 2
  Charges = {0, 1, 2}
  MaxTries = 2
SPECIFICATION Spec
SYMMETRY Symmetry
\* A run that is over does nothing more.
CHECK_DEADLOCK FALSE
PROPERTIES
  LedgerKeepsPromise
