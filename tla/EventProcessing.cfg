CONSTANTS
    Workers = {w1, w2}
    Triggers = {"round.started", "round.violations_threshold"}
    SNAPSHOT_EVERY = 2
    MaxEvents = 3
    MaxCalls = 3
    MaxFailures = 1
SYMMETRY Symmetry
SPECIFICATION Spec
INVARIANTS EffectsAccounted SnapshotsFaithful
CHECK_DEADLOCK FALSE
