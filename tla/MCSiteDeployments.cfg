SPECIFICATION Spec
CONSTANTS
    Deployments = {d1, d2}
    Environments = {production, preview}
    Workers = {w1}
    Requests = {r1}
    NoWorker = NoWorker
    NoDeployment = NoDeployment
    Attempts = 1
SYMMETRY Symmetry
INVARIANTS
    OneActive
    ServedHasArtifact
PROPERTIES
    ActivationTakesEffect
    EnvironmentsIndependent
