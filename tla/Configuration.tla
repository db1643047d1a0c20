--------------------------- MODULE Configuration ---------------------------
(***************************************************************************)
(* config/config.go: what Load makes of the environment and what Validate  *)
(* accepts.  A setting is described by what the checks tell apart: a text  *)
(* is given or not, a number, duration or boolean is unset (and takes its  *)
(* default), well-formed, out of range or malformed, an origin has a       *)
(* scheme.  Settings that one check treats alike are one field.            *)
(***************************************************************************)
Stages == {"development", "test", "production"}
Parsed == {"unset", "ok", "outOfRange", "malformed"}
Flags  == {"unset", "true", "false", "malformed"}
URLs   == {"unset", "http", "https", "malformed"}

\* The first of the allowed origins, which is checked only as the web origin.
Origins == {"none", "http", "https", "malformed"}

\* The environment of the process.  stage is LAIVAN_ENV; numbers stands for
\* the port, the connections, the timeouts and durations, the rate limit and
\* the upload size; the others for the LAIVAN_* variables they are named after.
\* With media on, storage says whether every S3 and imgproxy setting is given.
Environment == [stage : Stages \cup {"unset", "other"}, db : BOOLEAN,
                numbers : Parsed, origins : Origins, origin : URLs, secure : Flags,
                google : Flags, clientID : BOOLEAN, clientSecret : BOOLEAN,
                redirect : URLs,
                stateKey : {"unset", "short", "ok"},
                media : Flags, storage : BOOLEAN]

Config == [stage : Stages \cup {"other"}, db : BOOLEAN, inRange : BOOLEAN,
           origins : Origins, origin : URLs, secure : BOOLEAN,
           google : BOOLEAN, clientID : BOOLEAN, clientSecret : BOOLEAN,
           redirect : URLs, stateKey : {"unset", "short", "ok"},
           media : BOOLEAN, storage : BOOLEAN]

\* intEnv, int32Env, int64Env, durationEnv and boolEnv fail on these.
Malformed(env) == "malformed" \in {env.numbers, env.secure, env.google, env.media}

\* The defaults: development, and the first allowed origin for the web.
Read(env) ==
  [stage   |-> IF env.stage = "unset" THEN "development" ELSE env.stage,
   db      |-> env.db,
   inRange |-> env.numbers # "outOfRange",
   origins |-> env.origins,
   origin  |-> IF env.origin # "unset" THEN env.origin
               ELSE IF env.origins = "none" THEN "unset" ELSE env.origins,
   secure  |-> env.secure = "true",
   google  |-> env.google = "true",
   clientID |-> env.clientID, clientSecret |-> env.clientSecret,
   redirect |-> env.redirect, stateKey |-> env.stateKey,
   media   |-> env.media = "true", storage |-> env.storage]

IsProduction(c) == c.stage = "production"

ValidOrigin(value, requireHTTPS) ==
  value = "https" \/ (value = "http" /\ ~requireHTTPS)

ValidRedirectURL(value, requireHTTPS) ==
  value = "https" \/ (value = "http" /\ ~requireHTTPS)

GoogleValuesProvided(c) ==
  c.clientID \/ c.clientSecret \/ c.redirect # "unset" \/ c.stateKey # "unset"

\* (fault) Sign-in may be off in production.
ValidateWithoutProduction(c) ==
  /\ c.stage \in Stages /\ c.db /\ c.inRange /\ c.origins # "none"
  /\ ValidOrigin(c.origin, IsProduction(c))
  /\ GoogleValuesProvided(c) => c.google
  /\ c.google => /\ c.clientID /\ c.clientSecret /\ c.stateKey = "ok"
                 /\ ValidRedirectURL(c.redirect, IsProduction(c))
  /\ c.media => c.storage

Validate(c) ==
  /\ c.stage \in Stages /\ c.db /\ c.inRange /\ c.origins # "none"
  /\ ValidOrigin(c.origin, IsProduction(c))
  /\ GoogleValuesProvided(c) => c.google
  /\ IsProduction(c) => c.google /\ c.secure
  /\ c.google => /\ c.clientID /\ c.clientSecret /\ c.stateKey = "ok"
                 /\ ValidRedirectURL(c.redirect, IsProduction(c))
  /\ c.media => c.storage

\* Load succeeds on these environments, and returns Read(env).
Loads(env) == ~Malformed(env) /\ Validate(Read(env))
=============================================================================
