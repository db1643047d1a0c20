----------------------------- MODULE ApiServer -----------------------------
(***************************************************************************)
(* The process of cmd/api/main.go, from its configuration to its exit, and *)
(* the rate limiter, which it keeps in memory: main loads the              *)
(* configuration, opens what it names, starts ListenAndServe in a          *)
(* goroutine and waits for its error or for a signal; Shutdown lets the    *)
(* handlers finish for a while.  Something else starts it again.           *)
(***************************************************************************)
EXTENDS Configuration, RateLimiter

CONSTANTS Environments,  \* the environments the process may be started in
          MaxTime, MaxHandlers,   \* bounds
          Absent

ASSUME ApiServerAssumption ==
  /\ Environments \subseteq Environment
  /\ {MaxTime, MaxHandlers} \subseteq Nat
  /\ Absent \notin Nat

VARIABLES env,       \* of this process
          main,      \* where main is
          auth, media,   \* newAuthService and NewS3Uploader returned one
          serve,     \* the goroutine: nothing, or what serverErrors receives
          handlers,  \* the requests that are being handled
          code,      \* of the last exit
          clock, clients,   \* the time, and the rate limiter's table
          cut,       \* history: this process left requests without an answer
          least,     \* history: client |-> a bucket of its own since it was last
                     \* forgotten, from which every request takes at once
          most,      \* history: another, to which every request gives back how
                     \* old the time was that it was counted at
          due        \* history: client |-> when it was told to return

process == <<env, main, auth, media, serve, handlers, code, cut>>
limiter == <<clients, least, most, due>>
serverVars == <<process, clock, limiter>>

Booting == {"load", "openDB", "newAuth", "newMedia", "listen"}

ServerInit ==
  /\ env \in Environments
  /\ main = "load" /\ serve = "none" /\ auth = FALSE /\ media = FALSE
  /\ handlers = 0 /\ code = Absent /\ cut = FALSE
  /\ clock = 0 /\ clients = [k \in {} |-> NewEntry(0)]
  /\ least = [k \in Clients |-> Capacity] /\ most = [k \in Clients |-> Capacity]
  /\ due = [k \in Clients |-> Absent]

\* newRateLimiter; times are relative to the process.
ResetLimiter ==
  /\ clock' = 0 /\ clients' = [k \in {} |-> NewEntry(0)]
  /\ least' = [k \in Clients |-> Capacity] /\ most' = [k \in Clients |-> Capacity]
  /\ due' = [k \in Clients |-> Absent]

Running == main # "exited"

\* os.Exit, or the end of main: handlers that are left never answer, and what
\* was in memory is gone.
Exit(status) ==
  /\ main' = "exited" /\ code' = status
  /\ handlers' = 0 /\ cut' = (handlers > 0)
  /\ auth' = FALSE /\ media' = FALSE /\ serve' = "none"
  /\ ResetLimiter /\ UNCHANGED env

Boot(stage, next) ==
  /\ main = stage /\ main' = next
  /\ UNCHANGED <<env, serve, handlers, code, cut, clock, limiter>>

LoadConfig ==
  IF Loads(env) THEN Boot("load", "openDB") /\ UNCHANGED <<auth, media>>
                ELSE main = "load" /\ Exit(1)

OpenDB == \/ Boot("openDB", "newAuth") /\ UNCHANGED <<auth, media>>
          \/ main = "openDB" /\ Exit(1)

\* newAuthService fetches Google's configuration if sign-in is enabled.
NewAuth ==
  \/ Boot("newAuth", "newMedia") /\ auth' = Read(env).google /\ UNCHANGED media
  \/ main = "newAuth" /\ Read(env).google /\ Exit(1)

\* NewS3Uploader and NewURLBuilder, which also wants the keys to be hexadecimal
NewMedia ==
  \/ Boot("newMedia", "listen") /\ media' = Read(env).media /\ UNCHANGED auth
  \/ main = "newMedia" /\ Read(env).media /\ Exit(1)

Listen ==
  /\ main = "listen"
  /\ main' = "select" /\ serve' = "serving"
  /\ UNCHANGED <<env, auth, media, handlers, code, cut, clock, limiter>>

\* The port is taken, or the listener fails later.
ServeFails ==
  /\ main = "select" /\ serve = "serving"
  /\ serve' = "failed"
  /\ UNCHANGED <<env, main, auth, media, handlers, code, cut, clock, limiter>>

SelectError == main = "select" /\ serve = "failed" /\ Exit(1)

\* The other branch of the select: Shutdown closes the listener, and
\* ListenAndServe returns ErrServerClosed unless it has failed before.
SelectSignal ==
  /\ main = "select"
  /\ main' = "shutdown"
  /\ serve' = IF serve = "serving" THEN "closed" ELSE serve
  /\ UNCHANGED <<env, auth, media, handlers, code, cut, clock, limiter>>

\* (fault) main goes on when ListenAndServe returns.
ShutdownEarly ==
  /\ main = "shutdown" /\ serve # "serving"
  /\ main' = "wait"
  /\ UNCHANGED <<env, auth, media, serve, handlers, code, cut, clock, limiter>>

\* Shutdown returns when no handler is left; at its timeout, main gives up.
Shutdown ==
  /\ main = "shutdown" /\ handlers = 0
  /\ main' = "wait"
  /\ UNCHANGED <<env, auth, media, serve, handlers, code, cut, clock, limiter>>

ShutdownTimeout == main = "shutdown" /\ handlers > 0 /\ Exit(1)

\* <-serverErrors
AwaitServe == main = "wait" /\ Exit(IF serve = "closed" THEN 0 ELSE 1)

\* The process is killed, by a signal main is not notified of or a panic.
Kill == Running /\ Exit(Absent)

Restart ==
  /\ ~Running
  /\ main' = "load" /\ code' = Absent /\ cut' = FALSE
  /\ UNCHANGED <<env, auth, media, serve, handlers, clock, limiter>>
-----------------------------------------------------------------------------
\* A connection that was accepted is handled, also while the server shuts down.
Accepting == serve = "serving" /\ Running /\ handlers < MaxHandlers

\* A request on a path that is not limited.
UnlimitedRequest ==
  /\ Accepting
  /\ handlers' = handlers + 1
  /\ UNCHANGED <<env, main, auth, media, serve, code, cut, clock, limiter>>

Drained(units) == IF units < 0 THEN 0 ELSE units
Forgotten(k, table) == k \in DOMAIN clients \ DOMAIN table

\* rateLimitOIDC: the time is read before the lock is taken, so that it may be
\* older than the one another request has left.
LimitedRequest(k, now) ==
  /\ Accepting
  /\ \E table \in Rooms(clients, k) :
       /\ clients' = Charge(table, k, now)
       /\ IF Allowed(table, k, now)
          THEN /\ handlers' = handlers + 1
               /\ due' = [due EXCEPT ![k] = Absent]
          ELSE /\ due' = [due EXCEPT ![k] = now + RetryAfter(Wait(table, k, now))]
               /\ UNCHANGED handlers
       /\ least' = [q \in Clients |-> IF Forgotten(q, table) THEN Capacity
                      ELSE IF q = k THEN Drained(least[q] - Taken(table, k, now))
                      ELSE least[q]]
       /\ most' = [q \in Clients |-> IF Forgotten(q, table) THEN Capacity
                     ELSE IF q = k THEN Filled(most[q] - Taken(table, k, now) + (clock - now))
                     ELSE most[q]]
  /\ UNCHANGED <<env, main, auth, media, serve, code, cut, clock>>

Finish ==
  /\ handlers > 0 /\ handlers' = handlers - 1
  /\ UNCHANGED <<env, main, auth, media, serve, code, cut, clock, limiter>>

Tick ==
  /\ clock < MaxTime /\ clock' = clock + 1
  /\ least' = [k \in Clients |-> Filled(least[k] + 1)]
  /\ most' = [k \in Clients |-> Filled(most[k] + 1)]
  /\ UNCHANGED <<process, clients, due>>

ServerNext ==
  \/ LoadConfig  \/ OpenDB       \/ NewAuth  \/ NewMedia  \/ Listen
  \/ ServeFails  \/ SelectError  \/ SelectSignal  \/ Shutdown  \/ ShutdownTimeout
  \/ AwaitServe  \/ Kill  \/ Restart  \/ UnlimitedRequest  \/ Finish  \/ Tick
  \/ \E k \in Clients, now \in {clock, clock - 1} \cap Nat : LimitedRequest(k, now)

ServerSpec == ServerInit /\ [][ServerNext]_serverVars
-----------------------------------------------------------------------------
ServerTypeOK ==
  /\ env \in Environment /\ (Loads(env) => Read(env) \in Config)
  /\ main \in Booting \cup {"select", "shutdown", "wait", "exited"}
  /\ serve \in {"none", "serving", "closed", "failed"}
  /\ {auth, media, cut} \subseteq BOOLEAN
  /\ handlers \in 0..MaxHandlers /\ code \in {Absent, 0, 1}
  /\ clock \in 0..MaxTime
  /\ DOMAIN clients \subseteq Clients /\ \A k \in DOMAIN clients : clients[k] \in Entry
  /\ {least, most} \subseteq [Clients -> Int] /\ due \in [Clients -> Nat \cup {Absent}]

\* What is served in production has sign-in, secure cookies and a web origin,
\* be it the default, under https, and a sign-in that is offered has what it
\* needs.
ServesAsConfigured ==
  serve = "serving" =>
    /\ env.stage = "production" => auth /\ env.secure = "true" /\ Read(env).origin = "https"
    /\ auth => /\ env.clientID /\ env.clientSecret /\ env.stateKey = "ok"
               /\ env.redirect \in {"http", "https"}
    /\ media => env.storage

\* The stages of the boot come in order: what main has made of the environment
\* is what the environment says.
BootedInOrder ==
  /\ main \notin {"load", "exited"} => Loads(env)
  /\ main \in {"newMedia", "listen", "select", "shutdown", "wait"} => auth = Read(env).google
  /\ main \in {"listen", "select", "shutdown", "wait"} => media = Read(env).media

\* The goroutine exists from the last stage of the boot to the exit, and
\* accepts until main is told to stop; main waits for it last, when no handler
\* is left, and its exit is the only thing that leaves a code.
StopsInOrder ==
  /\ serve # "none" <=> main \in {"select", "shutdown", "wait"}
  /\ serve = "serving" => main = "select"
  /\ handlers > 0 => main \in {"select", "shutdown"}
  /\ code # Absent => main = "exited"

ServerInv ==
  /\ ServerTypeOK
  /\ ServesAsConfigured
  /\ BootedInOrder
  /\ StopsInOrder

\* A process that exits with 0 has answered every request it had begun with.
CleanExit == code = 0 => ~cut

\* Whatever other clients do, a client gets no more than a bucket of its own and
\* what old times give back to it, and is not refused what that bucket holds; once
\* it is forgotten, and only then, it begins again with a full one.
LimitKept ==
  \A k \in Clients :
    /\ most[k] >= 0
    /\ least[k] >= UnitsPerRequest =>
         \A table \in Rooms(clients, k) : Allowed(table, k, clock)

\* A client that returns when Retry-After told it to is not refused again,
\* whatever other clients, attempts and evictions came between.
RetryHonoured ==
  \A k \in Clients : due[k] # Absent /\ due[k] =< clock =>
    \A table \in Rooms(clients, k) : Allowed(table, k, clock)

\* No bucket is ahead of the clock, and each holds what it would hold if its
\* client were alone: exactly, if none of the client's requests was counted at an
\* old time, because then the two histories are one.
BucketsExact ==
  /\ \A k \in DOMAIN clients : clients[k].last =< clock
  /\ \A k \in Clients :
       /\ least[k] =< Available(EntryOf(clients, k, clock), clock)
       /\ Available(EntryOf(clients, k, clock), clock) =< most[k]

\* What a bucket holds, and what is added until its client may return, is
\* enough for a request.
RetryCovers ==
  \A k \in DOMAIN clients : due[k] # Absent =>
    /\ clients[k].last =< due[k]
    /\ clients[k].units + (due[k] - clients[k].last) >= UnitsPerRequest

LimiterInv ==
  /\ IsFiniteSet(DOMAIN clients) /\ Cardinality(DOMAIN clients) =< MaxClients
  /\ LimitKept
  /\ RetryHonoured
  /\ BucketsExact
  /\ RetryCovers
=============================================================================
