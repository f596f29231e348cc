\* Three events over three windows, two batches to a flush, two faults of any kind.
CONSTANTS
  N = 3
  LastWindow = 2
  BatchSize = 2
  MaxRetries = 2
  Faults = {"kill", "db", "lost"}
  MaxFaults = 2
  Lenient = TRUE
SPECIFICATION Spec
CHECK_DEADLOCK FALSE
INVARIANTS CountedOnce UploadedIsDelivered
PROPERTIES FrontIsPosted InTimeIsBatched
