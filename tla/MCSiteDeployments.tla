-------------------------- MODULE MCSiteDeployments --------------------------
EXTENDS SiteDeployments, TLC

Symmetry == Permutations(Deployments) \cup Permutations(Environments)
              \cup Permutations(Workers) \cup Permutations(Requests)

=============================================================================
