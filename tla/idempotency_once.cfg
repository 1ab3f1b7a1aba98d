\* One worker that never fails: a POST and its retry, sent before the answer.
SPECIFICATION Spec
CONSTANTS
    r1 = r1  r2 = r2  r3 = r3  w1 = w1  w2 = w2
    t1 = t1  t2 = t2  k1 = k1  b1 = b1  b2 = b2
    NoValue = NoValue
    Requests = {r1, r2}
    Workers = {w1}
    Tenants = {t1, t2}
    Keys = {k1}
    Bodies = {b1, b2}
    Inputs <- MCRetry
    Faulty = {}
    TTL = 1
    MaxTime = 2
    MaxRestarts = 0
    CommitFirst = TRUE
INVARIANT
    SameResponse
