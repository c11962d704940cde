SPECIFICATION MCSpec
CONSTANTS
    Users = {u1, u2}
    Calls = {q1, q2}
    Episodes = {1, 2}
    ShareKeys = {k1}
    MaxShares = 2
    Likers = {u2}
    MaxComments = 3
    Eps = {1}
    None = None
SYMMETRY Symmetry
CHECK_DEADLOCK FALSE
INVARIANTS CountersKept ThreadsSound
PROPERTY ImplementsThreads
