CONSTANTS
    Users = {u1, u2}
    MaxCalls = 2
    MaxFaults = 1
    Anns = {1, 2}
    Left = {1}
    Voiced = {2}
    Critical = {1}
    Ticks = {t1, t2}
    Rounds = {r1}
SYMMETRY Symmetry
SPECIFICATION Spec
INVARIANTS SessionIsWhole SocketIsSessions ShownOnce SoundsTracked RowFollowsCalls
CHECK_DEADLOCK FALSE
