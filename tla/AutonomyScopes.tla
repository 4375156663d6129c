--------------------------- MODULE AutonomyScopes ---------------------------
(* An agent's trust (TrustRegistry) and what its requests may then touch      *)
(* (ScopeAlgebra): the level one keeps is the ceiling of the other.           *)
EXTENDS TrustRegistry, ScopeAlgebra

CONSTANTS
    Grants,    \* sets of scopes a user may hold
    Needs      \* the scopes an intent asks for

\* The ceilings of the levels are nested lists: an event that lowers an agent's
\* level never gives a request a scope it did not have, one that raises it takes
\* none away, a violation leaves the agent without any, and the two functions
\* that compute the scopes never disagree in the wider direction.
ScopesFollowTrust ==
    [][\A user \in Grants :
          LET before == EffectiveScopes(user, Needs, autonomy)
              after == EffectiveScopes(user, Needs, autonomy')
          IN  /\ autonomy' <= autonomy => after \subseteq before
              /\ autonomy' >= autonomy => before \subseteq after
              /\ violations' > 0 => after = {}
              /\ ComputeEffectiveScopes(user, Needs, autonomy') \subseteq after]_trustVars
=============================================================================
