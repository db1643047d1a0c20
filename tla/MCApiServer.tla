---------------------------- MODULE MCApiServer ----------------------------
EXTENDS ApiServer, TLC

CONSTANTS k1, k2, k3

\* A complete production environment, and those that differ from it, or from
\* a development environment without sign-in, in a few settings.
Complete == [stage |-> "production", db |-> TRUE, numbers |-> "ok",
             origins |-> "http", origin |-> "https", secure |-> "true", google |-> "true",
             clientID |-> TRUE, clientSecret |-> TRUE, redirect |-> "https", stateKey |-> "ok",
             media |-> "true", storage |-> TRUE]
Bare == [stage |-> "unset", db |-> TRUE, numbers |-> "unset",
         origins |-> "http", origin |-> "unset", secure |-> "unset", google |-> "unset",
         clientID |-> FALSE, clientSecret |-> FALSE, redirect |-> "unset", stateKey |-> "unset",
         media |-> "unset", storage |-> FALSE]
OneOff(e) ==
  UNION {{[e EXCEPT !.stage = v] : v \in Stages \cup {"other"}},
         {[e EXCEPT !.db = v] : v \in BOOLEAN},
         {[e EXCEPT !.numbers = v] : v \in Parsed},
         {[e EXCEPT !.origins = v] : v \in Origins},
         {[e EXCEPT !.origin = v] : v \in URLs},
         {[e EXCEPT !.secure = v] : v \in Flags},
         {[e EXCEPT !.google = v] : v \in Flags},
         {[e EXCEPT !.clientID = v] : v \in BOOLEAN},
         {[e EXCEPT !.clientSecret = v] : v \in BOOLEAN},
         {[e EXCEPT !.redirect = v] : v \in URLs},
         {[e EXCEPT !.stateKey = v] : v \in {"unset", "short", "ok"}},
         {[e EXCEPT !.media = v] : v \in Flags},
         {[e EXCEPT !.storage = v] : v \in BOOLEAN}}
\* The web origin can also be the default, the first allowed one.
SomeEnvironments ==
  OneOff(Complete) \cup OneOff(Bare)
  \cup {[Complete EXCEPT !.origins = "https", !.origin = "unset"]}

\* The limiter does not depend on the environment, and fills its table in one.
SpecOfOneLimiter ==
  ServerInit /\ [][/\ ServerNext
                   /\ clients' # clients => env = Complete]_serverVars

Symmetry == Permutations(Clients)
=============================================================================
