SPECIFICATION FairSpec
CONSTANTS
    Users = {u1, u2}
    Names = {n1, n2}
    Codes = {c1, c2}
    Requests = {r1, r2}
    Null = Null
INVARIANTS
    TypeOK
    UnverifiedKeepsCode
PROPERTIES
    OrphansStay
    ImplementsLifecycle
    TrialUnlessLost
