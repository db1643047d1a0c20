------------------------ MODULE MCAgentApplications ------------------------
EXTENDS AgentApplicationsInv, TLC

CONSTANTS u1, u2, c1, c2, n1, n2, a1, a2, a3

\* u1 applies at two campuses, and u2 with the phone number of u1.
RivalApplicant == a1 :> u1 @@ a2 :> u1 @@ a3 :> u2
RivalCampus    == a1 :> c1 @@ a2 :> c2 @@ a3 :> c1
RivalPhone     == a1 :> n1 @@ a2 :> n1 @@ a3 :> n1
RivalRoles     == {<<u1, Global>>}

\* u1 applies twice at a campus whose applications u1 reviews too, and u2 at
\* a campus that is not active.
RepeatApplicant == a1 :> u1 @@ a2 :> u1 @@ a3 :> u2
RepeatCampus    == a1 :> c1 @@ a2 :> c1 @@ a3 :> c2
RepeatPhone     == a1 :> n1 @@ a2 :> n2 @@ a3 :> n2
RepeatRoles     == {<<u1, c1>>}

Symmetry == Permutations(Procs) \cup Permutations(Agents)
=============================================================================
