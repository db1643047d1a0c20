-------------------------- MODULE MCAgentLifecycle --------------------------
EXTENDS AgentLifecycle, TLC

CONSTANTS a1, s1, s2

\* Two sessions of one agent's user.
OneAgent == s1 :> a1 @@ s2 :> a1

=============================================================================
