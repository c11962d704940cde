SPECIFICATION Spec
CONSTANTS
    Users = {u1}
    Numbers = {1, 2}
    Tickets = {t1, t2}
    Trans = {x1, x2}
    FreeCounts = {0, 1}
    Reports = {r1, r2}
    Calls = {a1}
    None = None
SYMMETRY Symmetry
INVARIANTS RewardKept 
PROPERTY ImplementsVouchers
