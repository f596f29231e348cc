\* Three events, two of them to a batch, and up to two faults of any kind.
CONSTANTS
  N = 3
  BatchLimit = 2
  HighWater = 2
  BackoffCap = 2
  Faults = {"kill", "db", "lost", "logout"}
  MaxFaults = 2
  Lenient = TRUE
SPECIFICATION Spec
CHECK_DEADLOCK FALSE
INVARIANTS TypeOK UploadedIsDelivered InFlightIsDrained DeliveredOnce
PROPERTY FrontIsOffered
