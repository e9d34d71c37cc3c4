SPECIFICATION Spec
CONSTANTS
    Orders = {o1}
    Requests = {c1, c2}
    Handlers = {h1}
    Job = Job
    Uses = {}
    Paid = 2
    Granted = 3
    Monthly = 1
    Costs = {1}
    Cumulative = TRUE
    MaxCycles = 0
    MaxFaults = 0
CHECK_DEADLOCK FALSE
INVARIANTS
    RefundedOrderNetsToZero
