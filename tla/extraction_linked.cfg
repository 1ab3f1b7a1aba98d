\* Does a stored extraction name the person it was resolved to?
SPECIFICATION Spec
CONSTANTS
    r1 = r1  r2 = r2  r3 = r3
    t1 = t1  t2 = t2  p1 = p1  e1 = e1  n1 = n1  n2 = n2  d1 = d1
    NoValue = NoValue
    Requests = {r1, r2}
    Tenants = {t1, t2}
    Passports = {p1}
    EmiratesIds = {e1}
    Nationalities = {n1, n2}
    BirthDates = {d1}
    Inputs <- MCPair
    Faulty = {}
    CommitFirst = TRUE
INVARIANTS
    ExtractionLinked
