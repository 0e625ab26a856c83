SPECIFICATION FairSpec
CONSTANTS
    Jobs = {j1}
    Workers = {w1}
    Requests = {r1}
    Keys = {}
    NoKey = NoKey
    NoWorker = NoWorker
    NoJob = NoJob
    Budgets = {1}
    Lease = 1
    BackoffCap = 1
PROPERTIES
    EveryJobSettles
