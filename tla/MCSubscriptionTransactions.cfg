SPECIFICATION Spec
CONSTANTS
    Tenants = {t1}
    Null = Null
    Plans = {"free", "pro"}
    MonthlyPrice <- MCMonthlyPrice
    YearlyPrice <- MCYearlyPrice
    Owner <- MCOwner
    ActivePlans = {"free", "pro"}
    TrialPlan = "free"
    TrialDays = 1
    MonthDays = 2
    YearDays = 3
    PastDueDays = 1
    SuspendDays = 1
    ExpireDays = 0
    MaxRetries = 1
    Agreements = {"agreement"}
    Charges = {c1, c2}
    Handlers = {h1, h2}
    MaxTime = 2
SYMMETRY MCSymmetry
INVARIANTS
    OverrunIsBounded
PROPERTIES
    ImplementsLedger
    OnlyStaleReadsDiffer
    UndoneOnlyByReports
