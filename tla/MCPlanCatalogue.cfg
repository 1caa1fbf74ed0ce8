SPECIFICATION Spec
CONSTANTS
    Tenants = {t1, t2}
    Plans = {free, p1, p2}
    FreePlan = free
    Offers <- MCOffers
    Handlers = {h1, h2}
    Null = Null
SYMMETRY MCSymmetry
INVARIANTS
    ReferencesHold
    TermsWereOffered
    OnlyOwnPlans
PROPERTIES
    WaitingPlanIsNotLost
