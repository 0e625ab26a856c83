SPECIFICATION FairSpec
CONSTANTS
    Jobs = {j1, j2}
    Workers = {w1}
    Requests = {r1}
    Keys = {}
    NoKey = NoKey
    NoWorker = NoWorker
    NoJob = NoJob
    Budgets = {2}
    Lease = 0
    BackoffCap = 1
PROPERTIES
    PendingIsPickedUp
