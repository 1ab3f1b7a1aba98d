\* Three runs, each to any revision, any of which may be killed.
SPECIFICATION Spec
CONSTANTS
    m1 = m1  m2 = m2  m3 = m3
    Runs = {m1, m2, m3}
    Targets = {0, 1, 2, 3}
    Killable = {m1, m2, m3}
SYMMETRY RunSymmetry
INVARIANTS
    TypeOK
    TenantDataProtected
    SchemaMatchesVersion
    AloneSucceeds
