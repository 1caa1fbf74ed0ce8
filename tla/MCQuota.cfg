SPECIFICATION Spec
CONSTANTS
    Requests = {r1, r2, r3}
    Tenants = {t1, t2}
    Resources = {"projectsCount"}
    Plans = {"basic", "pro"}
    Limits = {0, 1, 2}
SYMMETRY RequestSymmetry
INVARIANTS
    OverrunBounded
PROPERTIES
    OverQuotaOnlyDrains
