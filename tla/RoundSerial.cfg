\* One request at a time, every awaited call succeeds.
CONSTANTS
  Rounds = {r1, r2}
  Missions = {m1}
  MissionOf <- OneMission
  Requests = {q1}
  Ops <- Operations
  MaxRequests = 7
  Failures = FALSE
SPECIFICATION FairSpec
CHECK_DEADLOCK FALSE
INVARIANTS CountersExact
PROPERTIES FinishIsJournalled ImplementsPromise
