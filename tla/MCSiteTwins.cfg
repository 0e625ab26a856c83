SPECIFICATION Spec
CONSTANTS
    Deployments = {d1}
    Environments = {production}
    Workers = {w1, w2}
    Requests = {r1}
    NoWorker = NoWorker
    NoDeployment = NoDeployment
    Attempts = 2
SYMMETRY Symmetry
PROPERTIES
    ActivationTakesEffect
