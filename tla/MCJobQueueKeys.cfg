SPECIFICATION Spec
CONSTANTS
    Jobs = {j1, j2}
    Workers = {}
    Requests = {r1, r2}
    Keys = {k1}
    NoKey = NoKey
    NoWorker = NoWorker
    NoJob = NoJob
    Budgets = {2}
    Lease = 0
    BackoffCap = 1
SYMMETRY Symmetry
INVARIANTS
    OneJobPerKey
