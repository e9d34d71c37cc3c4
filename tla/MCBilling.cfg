SPECIFICATION FairSpec
CONSTANTS
    Orders = {o1}
    Requests = {c1}
    Handlers = {h1, h2}
    Job = Job
    Uses = {u1}
    Paid = 2
    Granted = 3
    Monthly = 1
    Costs = {1, 2}
    Cumulative = FALSE
    MaxCycles = 1
    MaxFaults = 1
CHECK_DEADLOCK FALSE
INVARIANTS
    TypeOK
    LedgerExplainsBalances
    RefundTakesGrantBack
PROPERTIES
    SettledStaysSettled
    PaidOrderSettles
