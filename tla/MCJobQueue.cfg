SPECIFICATION Spec
CONSTANTS
    Jobs = {j1}
    Workers = {w1, w2}
    Requests = {r1}
    Keys = {k1}
    NoKey = NoKey
    NoWorker = NoWorker
    NoJob = NoJob
    Budgets = {2}
    Lease = 1
    BackoffCap = 1
SYMMETRY Symmetry
INVARIANTS
    TypeOK
    HolderOwnsRow
    SoleExecutor
PROPERTIES
    StartsWithinBudget
    OutcomeRecorded
    ImplementsPromise
