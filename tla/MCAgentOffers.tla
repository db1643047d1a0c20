---------------------------- MODULE MCAgentOffers ----------------------------
EXTENDS AgentOffers, TLC

CONSTANTS n1, n2

NewOffer == {[price |-> n1, status |-> "available"]}

\* The price changes, or the offer is paused.
SomePatches == {[price |-> n2, status |-> None], [price |-> None, status |-> "unavailable"]}

Symmetry == Permutations(Procs)
=============================================================================
