------------------------------ MODULE MCSignIn ------------------------------
EXTENDS SignIn, TLC

CONSTANTS g1, g2, e1, e2, u1, u2, t1, t2

MCEmail == g1 :> e1 @@ g2 :> e2
MCUser == g1 :> u1 @@ g2 :> u2

\* Nobody has signed in, or both accounts have, so that they can exchange their
\* addresses, one of them in this browser, where its session is live.
MCPasts == {[known |-> {}, here |-> None], [known |-> {g1, g2}, here |-> g1]}

=============================================================================
