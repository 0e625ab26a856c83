SPECIFICATION Spec
CONSTANTS
    Deployments = {d1, d2}
    Environments = {production}
    Workers = {w1}
    Requests = {r1}
    NoWorker = NoWorker
    NoDeployment = NoDeployment
    Attempts = 1
SYMMETRY Symmetry
PROPERTIES
    PromotionTakesEffect
