\* Three requests of two tenants over a pool of one connection; one of them
\* may meet a fault.
SPECIFICATION FairSpec
CONSTANTS
    r1 = r1  r2 = r2  r3 = r3  c1 = c1  t1 = t1  t2 = t2
    NoValue = NoValue
    Malformed = Malformed
    KeyText = KeyText
    Requests = {r1, r2, r3}
    Tenants = {t1, t2}
    Connections = {c1}
    Inputs <- MCInputs
    Faulty = {r1}
INVARIANTS
    TypeOK
    OwnTenantOnly
    SettingFollowsHolder
    
    RouteErrorsNameTheRequest
PROPERTY
    EveryRequestEnds
