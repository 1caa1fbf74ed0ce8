SPECIFICATION Spec
CONSTANTS
    Requests = {r1, r2}
    Tenants = {t1}
    Resources = {"projectsCount"}
    Plans = {"basic", "pro"}
    Limits = {0, 1}
SYMMETRY RequestSymmetry
INVARIANTS

    QuotaEnforced


