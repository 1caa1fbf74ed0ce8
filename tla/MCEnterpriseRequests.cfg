SPECIFICATION Spec
CONSTANTS
    Handlers = {h1, h2}
    Tenants = {t1, t2}
    Requests = {q1, q2, q3}
    PlanNames = {n1, n2}
    Null = Null
    MaxReviews = 2
SYMMETRY EnterpriseSymmetry
INVARIANTS
    OpenRequestsBounded
    PlansAreApproved
PROPERTIES
    DecisionSettles
