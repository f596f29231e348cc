\* Three events, a queue of two, overlapping handlers and two faults of any kind.
CONSTANTS
  N = 3
  MaxQueue = 2
  Adders = {a1, a2}
  Uploaders = {u1, u2}
  Faults = {"lost", "teardown", "pause", "flush"}
  MaxFaults = 2
  Lenient = TRUE
SPECIFICATION Spec
CHECK_DEADLOCK FALSE
INVARIANTS StoredIsKept QueueInOrder SerialIsExact
PROPERTY FailedIsRetried
