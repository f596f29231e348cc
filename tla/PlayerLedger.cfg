CONSTANTS
    Requests = {r1, r2}
    Severities = {"high"}
    Awards = {40}
    Difficulties = {100, 1000}
    MaxConsequences = 2
    MaxRounds = 1
    MaxRequests = 3
    MaxFailures = 1
SPECIFICATION Spec
INVARIANTS RowAccounted DifficultyInBounds
PROPERTY IssuedIsAnnounced
CHECK_DEADLOCK FALSE
