\* Three concurrent requests, one of which may fail; the answer is sent before
\* the session exits.  No symmetry: a liveness property is checked.
SPECIFICATION FairSpec
CONSTANTS
    r1 = r1  r2 = r2  r3 = r3
    t1 = t1  t2 = t2  p1 = p1  e1 = e1  n1 = n1  n2 = n2  d1 = d1
    NoValue = NoValue
    Requests = {r1, r2, r3}
    Tenants = {t1, t2}
    Passports = {p1}
    EmiratesIds = {e1}
    Nationalities = {n1, n2}
    BirthDates = {d1}
    Inputs <- MCLateInputs
    Faulty = {r1}
    CommitFirst = FALSE
INVARIANTS
    UniqueActiveIdentifier
    CommittedWhole
PROPERTIES
    EveryRequestEnds
