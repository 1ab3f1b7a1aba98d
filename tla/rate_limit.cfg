\* Two tenants over a little more than a minute, with limits of none to seven
\* requests a minute.
SPECIFICATION Spec
CONSTANTS
    t1 = t1  t2 = t2
    Tenants = {t1, t2}
    NoTenant = NoTenant
    Paths <- MCPaths
    Limits = {0, 1, 2, 7}
    Delays = {25, 40}
    MaxTime = 65
SYMMETRY TenantSymmetry
INVARIANTS
    TypeOK
    AdmissionBound
    RefusalIsEarned
    RetryAfterIsRight
