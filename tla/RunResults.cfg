SPECIFICATION FairSpec
CHECK_DEADLOCK FALSE
CONSTANTS
  Events = {1, 3}
  Foreign = {2}
  Starts = {0, 1}
  Keys = {k1}
  Verdicts = {"present", "uncertain"}
  MaxQueue = 1
  MaxCalls = 1
  MaxRetries = 1
  PageSize = 2
  RepoLimit = 9
  MaxReviews = 2
INVARIANTS
  OnlySupportedIsDelivered
  PagesAreComplete
PROPERTIES
  DeliveriesAreConfirmed
  CancelStopsReviews
  RunIsFinalized
