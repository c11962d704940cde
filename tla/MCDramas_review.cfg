SPECIFICATION Spec
CONSTANTS
    Slots = {q1, q2}
    Creators = {c1}
    Owners = {c1}
    Eps = {e1}
    Contracts = {k1, k2}
    None = None
SYMMETRY Symmetry
CHECK_DEADLOCK FALSE
INVARIANTS StatusFollowsVerdict  OneContract
PROPERTY TakedownHolds
