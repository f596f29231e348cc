\* Two requests in flight together, any awaited call may fail.
CONSTANTS
  Rounds = {r1}
  Missions = {m1}
  MissionOf <- OneMission
  Requests = {q1, q2}
  Ops <- LifecycleOps
  MaxRequests = 4
  Failures = TRUE
SPECIFICATION Spec
SYMMETRY Symmetry
CHECK_DEADLOCK FALSE
INVARIANTS TypeOK RowsCoupled StateIsJournalled
PROPERTY FinalRowsStick
