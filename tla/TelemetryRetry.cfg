\* Batches posted and posted again, two at a time, with failures anywhere.
CONSTANTS
  a = a
  b = b
  c = c
  Keys <- SomeKeys
  Announced <- Loud
  Requests = {q1, q2}
  Dtos <- AllDtos
  MaxRequests = 4
  Failures = TRUE
SPECIFICATION Spec
CHECK_DEADLOCK FALSE
INVARIANTS AckedIsStored AnnouncedOnce NoDuplicates
PROPERTY StoredIsAnnounced
