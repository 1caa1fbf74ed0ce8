SPECIFICATION Spec
CONSTANTS
    t1 = t1
    c1 = c1
    c2 = c2
    c3 = c3
    Tenants = {t1}
    Null = Null
    Plans = {"free", "custom"}
    MonthlyPrice <- MCMonthlyPrice
    YearlyPrice <- MCYearlyPrice
    Owner <- MCOwner
    ActivePlans = {"free", "custom"}
    TrialPlan = "free"
    TrialDays = 1
    MonthDays = 2
    YearDays = 3
    PastDueDays = 1
    SuspendDays = 2
    ExpireDays = 1
    MaxRetries = 2
    Agreements = {"agreement"}
    Charges = {c1, c2, c3}
    MaxTime = 4
    MaxAborts = 0
SYMMETRY ChargeSymmetry
INVARIANTS
    TypeOK
    GraceHonoured
    PaidPeriodIsOneMonth
    StateHasEvidence
    GraceGivesNoAccess
    AccessIsCovered
PROPERTIES
    CancellationRevokedOnlyByPayment
    PlanChangesOnlyToPending
    ImplementsLedger
    AccessComesBackByReport
