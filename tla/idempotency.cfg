\* Three requests on two workers, one of which may restart; the clock passes
\* the TTL.
SPECIFICATION Spec
CONSTANTS
    r1 = r1  r2 = r2  r3 = r3  w1 = w1  w2 = w2
    t1 = t1  t2 = t2  k1 = k1  b1 = b1  b2 = b2
    NoValue = NoValue
    Requests = {r1, r2, r3}
    Workers = {w1, w2}
    Tenants = {t1, t2}
    Keys = {k1}
    Bodies = {b1, b2}
    Inputs <- MCInputs
    Faulty = {r1}
    TTL = 1
    MaxTime = 2
    MaxRestarts = 1
    CommitFirst = TRUE
SYMMETRY WorkSymmetry
INVARIANTS
    TypeOK
    ConflictHasACause
    ReplayIsTheAnswer
    CachedIsCommitted
    RetryRunsOnce
