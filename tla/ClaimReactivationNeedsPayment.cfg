SPECIFICATION BillingSpec
CONSTANTS
    t1 = t1
    c1 = c1
    c2 = c2
    Tenants = {t1}
    Null = Null
    Plans = {"free", "pro"}
    MonthlyPrice <- MCMonthlyPrice
    YearlyPrice <- MCYearlyPrice
    Owner <- MCOwner
    ActivePlans = {"free", "pro"}
    TrialPlan = "free"
    TrialDays = 1
    MonthDays = 1
    YearDays = 2
    PastDueDays = 1
    SuspendDays = 1
    ExpireDays = 1
    MaxRetries = 2
    Agreements = {"agreement"}
    Charges = {c1, c2}
    MaxTime = 2
    MaxAborts = 0
    Losable = {}
SYMMETRY ChargeSymmetry
PROPERTIES
    ReactivationNeedsPayment
