---------------------------- MODULE AccessProofs ----------------------------
(***************************************************************************)
(* Proofs about what lets a visitor in: ApiServer, with Configuration and  *)
(* RateLimiter, for every set of environments and clients, every size of   *)
(* the limiter's table, of its buckets and of a request, and every bound   *)
(* on the time and on the handlers; and SignIn, for every set of accounts, *)
(* addresses, users and tabs, and every number of requests.                *)
(***************************************************************************)
EXTENDS ApiServer, SignIn, FiniteSetTheorems, TLAPS

(***************************************************************************)
(* The process, and the rate limiter in front of the sign-in               *)
(***************************************************************************)

USE RateLimiterAssumption, ApiServerAssumption

(* The operators of RateLimiter *)

\* A bucket that is full has units for a request.
LEMMA CapacityType == Capacity \in Nat /\ Capacity >= UnitsPerRequest
<1>1. Burst \in Nat /\ Burst >= 1 /\ UnitsPerRequest \in Nat /\ UnitsPerRequest >= 1
  OBVIOUS
<1>2. \A b, u \in Nat : b >= 1 => b * u \in Nat /\ b * u >= u
  OBVIOUS
<1> QED
  BY <1>1, <1>2 DEF Capacity

\* What fills a bucket, and what drains one, keeps to its bounds.
LEMMA FilledType ==
  ASSUME NEW units \in Int
  PROVE  Filled(units) \in Int /\ (units >= 0 => Filled(units) \in 0..Capacity)
BY CapacityType DEF Filled

\* A bucket never holds more than its capacity, nor less than nothing.
LEMMA AvailableType ==
  ASSUME NEW entry \in Entry, NEW now \in Nat
  PROVE  Available(entry, now) \in 0..Capacity
BY CapacityType DEF Available, Filled, Entry

\* A client that is not in the table begins with a full bucket.
LEMMA NewEntryType ==
  ASSUME NEW now \in Nat
  PROVE  /\ NewEntry(now) \in Entry
         /\ Available(NewEntry(now), now) = Capacity
BY CapacityType DEF NewEntry, Entry, Available, Filled

\* Waiting as long as RetryAfter says is waiting long enough.
LEMMA RetryAfterCovers ==
  ASSUME NEW wait \in Nat
  PROVE  RetryAfter(wait) \in Nat /\ RetryAfter(wait) >= wait
<1> DEFINE n == TicksPerSecond
           q == (wait + n - 1) \div n
<1>1. n \in Nat /\ n >= 1
  OBVIOUS
<1>2. \A a \in Nat, m \in Nat : m >= 1 => /\ a \div m \in Nat
                                          /\ m * (a \div m) + m > a
  OBVIOUS
<1>3. q \in Nat /\ n * q + n > wait + n - 1
  BY <1>1, <1>2
<1> HIDE DEF n, q
<1>4. \A m, x \in Nat : m * x \in Nat
  OBVIOUS
<1>5. CASE q < 1
  <2>1. q = 0 /\ n * q = 0 /\ n * 1 = n
    BY <1>1, <1>3, <1>5
  <2> QED
    BY <1>1, <1>3, <1>5, <2>1 DEF RetryAfter, n, q
<1>6. CASE q >= 1
  <2>1. n * q \in Nat /\ n * q >= wait
    BY <1>1, <1>3, <1>4
  <2> QED
    BY <1>6, <1>3, <2>1 DEF RetryAfter, n, q
<1> QED
  BY <1>3, <1>5, <1>6

\* The tables with room for k are the table, or the table without one of the
\* others; what is left in them is as it was.
LEMMA RoomsKeep ==
  ASSUME NEW table, NEW k, NEW room \in Rooms(table, k)
  PROVE  /\ DOMAIN room \subseteq DOMAIN table
         /\ \A q \in DOMAIN room : room[q] = table[q]
         /\ k \in DOMAIN table <=> k \in DOMAIN room
         /\ k \in DOMAIN table => room = table
<1>1. CASE room = table
  BY <1>1
<1>2. CASE room # table
  <2>1. k \notin DOMAIN table /\ \E o \in Oldest(table) : room = [q \in DOMAIN table \ {o} |-> table[q]]
    BY <1>2 DEF Rooms
  <2> QED
    BY <2>1
<1> QED
  BY <1>1, <1>2

\* There is room for k in them.
LEMMA RoomsBound ==
  ASSUME NEW table, IsFiniteSet(DOMAIN table), Cardinality(DOMAIN table) =< MaxClients,
         NEW k, NEW room \in Rooms(table, k)
  PROVE  /\ IsFiniteSet(DOMAIN room \cup {k})
         /\ Cardinality(DOMAIN room \cup {k}) =< MaxClients
<1>1. Cardinality(DOMAIN table) \in Nat /\ MaxClients \in Nat
  BY FS_CardinalityType
<1>2. CASE k \in DOMAIN table
  <2>1. room = table /\ DOMAIN room \cup {k} = DOMAIN table
    BY <1>2 DEF Rooms
  <2> QED
    BY <2>1
<1>3. CASE k \notin DOMAIN table /\ Cardinality(DOMAIN table) < MaxClients
  <2>1. room = table
    BY <1>3 DEF Rooms
  <2>2. /\ IsFiniteSet(DOMAIN table \cup {k})
        /\ Cardinality(DOMAIN table \cup {k}) = Cardinality(DOMAIN table) + 1
    BY <1>3, FS_AddElement
  <2> QED
    BY <1>1, <1>3, <2>1, <2>2
<1>4. CASE k \notin DOMAIN table /\ ~(Cardinality(DOMAIN table) < MaxClients)
  <2>1. PICK o \in Oldest(table) : room = [q \in DOMAIN table \ {o} |-> table[q]]
    BY <1>4 DEF Rooms
  <2>2. o \in DOMAIN table /\ DOMAIN room = DOMAIN table \ {o}
    BY <2>1 DEF Oldest
  <2>3. /\ IsFiniteSet(DOMAIN room)
        /\ Cardinality(DOMAIN room) = Cardinality(DOMAIN table) - 1
    BY <2>2, FS_RemoveElement
  <2>4. /\ IsFiniteSet(DOMAIN room \cup {k})
        /\ Cardinality(DOMAIN room \cup {k}) = Cardinality(DOMAIN room) + 1
    BY <1>4, <2>2, <2>3, FS_AddElement
  <2> QED
    BY <1>1, <2>3, <2>4
<1> QED
  BY <1>2, <1>3, <1>4

IsTable(table) == DOMAIN table \subseteq Clients /\ \A k \in DOMAIN table : table[k] \in Entry

\* The bucket of a client, also of one that is not in the table.
LEMMA EntryOfType ==
  ASSUME NEW table, IsTable(table), NEW k \in Clients, NEW now \in Nat
  PROVE  EntryOf(table, k, now) \in Entry
BY NewEntryType DEF IsTable, EntryOf

\* What a request leaves in the table: its own bucket, as of now, and the others.
LEMMA ChargeType ==
  ASSUME NEW table, IsTable(table), NEW k \in Clients, NEW now \in Nat
  PROVE  /\ IsTable(Charge(table, k, now))
         /\ DOMAIN Charge(table, k, now) = DOMAIN table \cup {k}
         /\ \A q \in DOMAIN table \ {k} : Charge(table, k, now)[q] = table[q]
         /\ Charge(table, k, now)[k].last = now
         /\ Charge(table, k, now)[k].units =
              Available(EntryOf(table, k, now), now) - Taken(table, k, now)
<1> DEFINE units == Available(EntryOf(table, k, now), now)
           left  == units - Taken(table, k, now)
           entry == [units |-> left, last |-> now, lastSeen |-> now]
<1>1. units \in 0..Capacity
  BY EntryOfType, AvailableType
<1>2. left \in 0..Capacity
  BY <1>1, CapacityType DEF Allowed, Taken
<1>3. entry \in Entry
  BY <1>2 DEF Entry
<1>4. Charge(table, k, now) = [q \in DOMAIN table \cup {k} |-> IF q = k THEN entry ELSE table[q]]
  BY DEF Charge
<1> HIDE DEF units, left
<1> QED
  BY <1>3, <1>4 DEF IsTable, left, units

-----------------------------------------------------------------------------
(* The boot, the service and the exit *)

\* What Validate has accepted.
LEMMA LoadedConfig ==
  ASSUME NEW e \in Environment, Loads(e)
  PROVE  /\ Read(e) \in Config
         /\ e.stage = "production" =>
              Read(e).google /\ e.secure = "true" /\ Read(e).origin = "https"
         /\ Read(e).google =>
              /\ e.clientID /\ e.clientSecret /\ e.stateKey = "ok"
              /\ e.redirect \in {"http", "https"}
         /\ Read(e).media => e.storage
<1> USE DEF Environment, Stages, Parsed, Flags, URLs, Origins
<1>1. Validate(Read(e)) /\ Read(e).stage \in Stages
  BY DEF Loads, Validate
<1>2. e.stage # "other"
  BY <1>1 DEF Read
<1>3. Read(e) \in Config
  BY <1>2 DEF Read, Config
<1>4. e.stage = "production" => IsProduction(Read(e))
  BY DEF Read, IsProduction
<1>5. e.stage = "production" => Read(e).google /\ Read(e).secure /\ Read(e).origin = "https"
  BY <1>1, <1>4 DEF Validate, ValidOrigin
<1>6. Read(e).google =>
        /\ Read(e).clientID /\ Read(e).clientSecret /\ Read(e).stateKey = "ok"
        /\ Read(e).redirect \in {"http", "https"}
  BY <1>1 DEF Validate, ValidRedirectURL
<1>7. Read(e).media => Read(e).storage
  BY <1>1 DEF Validate
<1>8. /\ Read(e).secure => e.secure = "true"
      /\ Read(e).clientID = e.clientID /\ Read(e).clientSecret = e.clientSecret
      /\ Read(e).stateKey = e.stateKey
      /\ Read(e).redirect = e.redirect /\ Read(e).storage = e.storage
  BY DEF Read
<1> QED
  BY <1>3, <1>5, <1>6, <1>7, <1>8

\* The limiter's part of the type.
LimiterType ==
  /\ clock \in 0..MaxTime
  /\ IsTable(clients)
  /\ {least, most} \subseteq [Clients -> Int] /\ due \in [Clients -> Nat \cup {Absent}]

\* The process's part.
ProcessType ==
  /\ env \in Environment /\ (Loads(env) => Read(env) \in Config)
  /\ main \in Booting \cup {"select", "shutdown", "wait", "exited"}
  /\ serve \in {"none", "serving", "closed", "failed"}
  /\ {auth, media, cut} \subseteq BOOLEAN
  /\ handlers \in 0..MaxHandlers /\ code \in {Absent, 0, 1}

LEMMA TypeParts ==
  /\ ServerTypeOK <=> ProcessType /\ LimiterType
  /\ ServerTypeOK' <=> ProcessType' /\ LimiterType'
BY DEF ServerTypeOK, ProcessType, LimiterType, IsTable

\* A table with no client.
LEMMA EmptyTable ==
  ASSUME NEW table, table = [k \in {} |-> NewEntry(0)]
  PROVE  IsTable(table) /\ DOMAIN table = {}
BY DEF IsTable

\* A new process begins with a limiter that has seen nobody.
LEMMA ResetType ==
  ASSUME ResetLimiter
  PROVE  LimiterType'
<1>1. Capacity \in Int /\ 0 \in 0..MaxTime
  BY CapacityType
<1>2. IsTable(clients)'
  BY EmptyTable DEF ResetLimiter, IsTable
<1>3. {least', most'} \subseteq [Clients -> Int] /\ due' \in [Clients -> Nat \cup {Absent}]
  BY <1>1 DEF ResetLimiter
<1> QED
  BY <1>1, <1>2, <1>3 DEF ResetLimiter, LimiterType

LEMMA ServerStarts == ServerInit => ServerInv
<1> SUFFICES ASSUME ServerInit PROVE ServerInv
  OBVIOUS
<1>1. env \in Environment
  BY DEF ServerInit
<1>2. ProcessType
  <2>1. 0 \in 0..MaxHandlers
    OBVIOUS
  <2>2. Loads(env) => Read(env) \in Config
    BY <1>1, LoadedConfig
  <2> QED
    BY <1>1, <2>1, <2>2 DEF ServerInit, ProcessType, Booting
<1>3. LimiterType
  <2>1. Capacity \in Int /\ 0 \in 0..MaxTime
    BY CapacityType
  <2>2. IsTable(clients)
    BY EmptyTable DEF ServerInit
  <2>3. {least, most} \subseteq [Clients -> Int] /\ due \in [Clients -> Nat \cup {Absent}]
    BY <2>1 DEF ServerInit
  <2> QED
    BY <2>1, <2>2, <2>3 DEF ServerInit, LimiterType
<1> QED
  BY <1>2, <1>3, TypeParts DEF ServerInit, ServerInv, ServesAsConfigured, BootedInOrder, StopsInOrder

\* An exit is in order, whenever it comes.
LEMMA ExitServer ==
  ASSUME ServerInv, Running, NEW status \in {Absent, 0, 1}, Exit(status)
  PROVE  ServerInv'
<1>1. ProcessType'
  <2>1. cut' \in BOOLEAN
    BY DEF Exit
  <2>2. handlers' \in 0..MaxHandlers
    BY DEF Exit
  <2>3. {auth', media', cut'} \subseteq BOOLEAN
    BY <2>1 DEF Exit
  <2> QED
    BY <2>2, <2>3, TypeParts DEF ServerInv, ProcessType, Exit
<1>2. LimiterType'
  BY ResetType DEF Exit
<1> QED
  BY <1>1, <1>2, TypeParts
  DEF ServerInv, ServesAsConfigured, BootedInOrder, StopsInOrder, Exit

\* A step of the boot that succeeds does one more thing the environment asks for.
LEMMA BootServer ==
  ASSUME ServerInv,
         \/ main = "load" /\ main' = "openDB" /\ Loads(env) /\ UNCHANGED <<auth, media>>
         \/ main = "openDB" /\ main' = "newAuth" /\ UNCHANGED <<auth, media>>
         \/ main = "newAuth" /\ main' = "newMedia" /\ auth' = Read(env).google /\ UNCHANGED media
         \/ main = "newMedia" /\ main' = "listen" /\ media' = Read(env).media /\ UNCHANGED auth,
         UNCHANGED <<env, serve, handlers, code, cut, clock, limiter>>
  PROVE  ServerInv'
<1>1. LimiterType'
  BY TypeParts DEF ServerInv, LimiterType, IsTable, limiter
<1>2. Loads(env) => Read(env).google \in BOOLEAN /\ Read(env).media \in BOOLEAN
  BY LoadedConfig DEF ServerInv, ServerTypeOK, Config
<1>3. ProcessType'
  BY <1>2, TypeParts DEF ServerInv, ProcessType, Booting, BootedInOrder
<1>4. BootedInOrder'
  BY DEF ServerInv, BootedInOrder
<1>5. StopsInOrder' /\ ServesAsConfigured'
  BY DEF ServerInv, StopsInOrder, ServesAsConfigured
<1> QED
  BY <1>1, <1>3, <1>4, <1>5, TypeParts DEF ServerInv

\* The listener is opened, fails or is closed, and main waits.
LEMMA ListenerServer ==
  ASSUME ServerInv, Listen \/ ServeFails \/ SelectSignal \/ Shutdown
  PROVE  ServerInv'
<1> USE DEF Listen, ServeFails, SelectSignal, Shutdown
<1>1. LimiterType'
  BY TypeParts DEF ServerInv, LimiterType, IsTable, limiter
<1>2. ProcessType'
  BY TypeParts DEF ServerInv, ProcessType
<1>3. BootedInOrder'
  BY DEF ServerInv, BootedInOrder
<1>4. StopsInOrder'
  BY TypeParts DEF ServerInv, StopsInOrder, ProcessType
<1>5. ServesAsConfigured'
  <2> SUFFICES ASSUME serve' = "serving" PROVE ServesAsConfigured'
    BY DEF ServesAsConfigured
  <2>1. /\ Loads(env') /\ env' \in Environment
        /\ auth' = Read(env').google /\ media' = Read(env').media
    BY <1>2, <1>3, <1>4 DEF BootedInOrder, StopsInOrder, ProcessType
  <2> QED
    BY <2>1, LoadedConfig DEF ServesAsConfigured
<1> QED
  BY <1>1, <1>2, <1>3, <1>4, <1>5, TypeParts DEF ServerInv

\* A step that leaves main and what it has made alone, and that starts no
\* handler unless requests are accepted.
LEMMA HandlersServer ==
  ASSUME ServerInv, UNCHANGED <<env, main, auth, media, serve, code, cut>>,
         handlers' \in 0..MaxHandlers,
         handlers' > 0 => handlers > 0 \/ serve = "serving",
         LimiterType'
  PROVE  ServerInv'
<1>1. ProcessType'
  BY TypeParts DEF ServerInv, ProcessType
<1>2. BootedInOrder' /\ ServesAsConfigured'
  BY DEF ServerInv, BootedInOrder, ServesAsConfigured
<1>3. StopsInOrder'
  BY TypeParts DEF ServerInv, StopsInOrder, ProcessType
<1> QED
  BY <1>1, <1>2, <1>3, TypeParts DEF ServerInv

\* A limited request leaves the types of the limiter as they are.
LEMMA LimitedType ==
  ASSUME LimiterType, NEW k \in Clients, NEW now \in {clock, clock - 1} \cap Nat,
         LimitedRequest(k, now)
  PROVE  LimiterType'
<1>1. PICK table \in Rooms(clients, k) :
        /\ clients' = Charge(table, k, now)
        /\ due' = [due EXCEPT ![k] = IF Allowed(table, k, now) THEN Absent
                                     ELSE now + RetryAfter(Wait(table, k, now))]
        /\ least' = [q \in Clients |-> IF Forgotten(q, table) THEN Capacity
                       ELSE IF q = k THEN Drained(least[q] - Taken(table, k, now))
                       ELSE least[q]]
        /\ most' = [q \in Clients |-> IF Forgotten(q, table) THEN Capacity
                      ELSE IF q = k THEN Filled(most[q] - Taken(table, k, now) + (clock - now))
                      ELSE most[q]]
  BY DEF LimitedRequest
<1>2. now \in Nat /\ UnitsPerRequest \in Nat
  OBVIOUS
<1>3. IsTable(table)
  BY <1>1, RoomsKeep DEF LimiterType, IsTable
<1>4. IsTable(clients')
  BY <1>1, <1>2, <1>3, ChargeType
<1>5. ~Allowed(table, k, now) => now + RetryAfter(Wait(table, k, now)) \in Nat
  <2>1. Available(EntryOf(table, k, now), now) \in 0..Capacity
    BY <1>2, <1>3, EntryOfType, AvailableType
  <2>2. ~Allowed(table, k, now) => Wait(table, k, now) \in Nat
    BY <1>2, <2>1, CapacityType DEF Allowed, Wait
  <2> QED
    BY <1>2, <2>2, RetryAfterCovers
<1>6. due' \in [Clients -> Nat \cup {Absent}]
  BY <1>1, <1>5 DEF LimiterType
<1>7. least' \in [Clients -> Int]
  BY <1>1, <1>2, CapacityType DEF LimiterType, Drained, Taken
<1>8. most' \in [Clients -> Int]
  <2>1. ASSUME NEW q \in Clients
        PROVE  Filled(most[q] - Taken(table, k, now) + (clock - now)) \in Int
    BY <1>2, FilledType DEF LimiterType, Taken
  <2> QED
    BY <1>1, <2>1, CapacityType DEF LimiterType
<1>9. clock' = clock
  BY DEF LimitedRequest
<1> QED
  BY <1>4, <1>6, <1>7, <1>8, <1>9 DEF LimiterType, IsTable

\* The time goes on, and the buckets fill.
LEMMA TickType ==
  ASSUME LimiterType, Tick
  PROVE  LimiterType'
<1>1. clock' \in 0..MaxTime
  BY DEF Tick, LimiterType
<1>2. {least', most'} \subseteq [Clients -> Int]
  BY FilledType DEF Tick, LimiterType
<1> QED
  BY <1>1, <1>2 DEF Tick, LimiterType, IsTable

LEMMA ServerStays == ServerInv /\ [ServerNext]_serverVars => ServerInv'
<1> SUFFICES ASSUME ServerInv, [ServerNext]_serverVars PROVE ServerInv'
  OBVIOUS
<1>1. ProcessType /\ LimiterType
  BY TypeParts DEF ServerInv
<1>2. UNCHANGED limiter /\ UNCHANGED clock => LimiterType'
  BY <1>1 DEF limiter, LimiterType, IsTable
<1>3. ASSUME UNCHANGED serverVars PROVE ServerInv'
  BY <1>2, <1>3, <1>1, HandlersServer DEF serverVars, process, ProcessType
<1>4. ASSUME LoadConfig PROVE ServerInv'
  BY <1>4, ExitServer, BootServer DEF LoadConfig, Boot, Running
<1>5. ASSUME OpenDB PROVE ServerInv'
  BY <1>5, ExitServer, BootServer DEF OpenDB, Boot, Running
<1>6. ASSUME NewAuth PROVE ServerInv'
  BY <1>6, ExitServer, BootServer DEF NewAuth, Boot, Running
<1>7. ASSUME NewMedia PROVE ServerInv'
  BY <1>7, ExitServer, BootServer DEF NewMedia, Boot, Running
<1>8. ASSUME Listen \/ ServeFails \/ SelectSignal \/ Shutdown PROVE ServerInv'
  BY <1>8, ListenerServer
<1>9. ASSUME SelectError \/ ShutdownTimeout \/ AwaitServe \/ Kill PROVE ServerInv'
  BY <1>9, ExitServer DEF SelectError, ShutdownTimeout, AwaitServe, Kill, Running
<1>10. ASSUME Restart PROVE ServerInv'
  <2>1. ProcessType'
    BY <1>10, <1>1 DEF Restart, ProcessType, Booting
  <2>2. LimiterType'
    BY <1>10, <1>2 DEF Restart
  <2> QED
    BY <1>10, <2>1, <2>2, TypeParts
    DEF Restart, Running, ServerInv, ServesAsConfigured, BootedInOrder, StopsInOrder
<1>11. ASSUME UnlimitedRequest PROVE ServerInv'
  BY <1>11, <1>1, <1>2, HandlersServer DEF UnlimitedRequest, Accepting, ProcessType
<1>12. ASSUME Finish PROVE ServerInv'
  BY <1>12, <1>1, <1>2, HandlersServer DEF Finish, ProcessType
<1>13. ASSUME Tick PROVE ServerInv'
  BY <1>13, <1>1, TickType, HandlersServer DEF Tick, process, ProcessType
<1>14. ASSUME NEW k \in Clients, NEW now \in {clock, clock - 1} \cap Nat, LimitedRequest(k, now)
       PROVE  ServerInv'
  <2>1. handlers' \in {handlers, handlers + 1} /\ Accepting
    BY <1>14 DEF LimitedRequest
  <2> QED
    BY <1>14, <1>1, <2>1, LimitedType, HandlersServer DEF LimitedRequest, Accepting, ProcessType
<1> QED
  BY <1>3, <1>4, <1>5, <1>6, <1>7, <1>8, <1>9, <1>10, <1>11, <1>12, <1>13, <1>14 DEF ServerNext

\* In every reachable state the stages of the process come in order, and what
\* it serves is what its environment asks for and Validate demands: whatever
\* fails, and whenever it is stopped, killed or started again (main and run in
\* src/api/cmd/api/main.go, src/api/internal/config/config.go).
THEOREM ServerInductive == ServerSpec => []ServerInv
BY ServerStarts, ServerStays, PTL DEF ServerSpec

\* main returns nil only after Shutdown has seen the last handler end.
THEOREM ExitsClean == ServerSpec => []CleanExit
<1>1. ServerInit => CleanExit
  BY DEF ServerInit, CleanExit
<1>2. ServerInv /\ CleanExit /\ [ServerNext]_serverVars => CleanExit'
  <2> SUFFICES ASSUME ServerInv, CleanExit, [ServerNext]_serverVars PROVE CleanExit'
    OBVIOUS
  <2>1. ASSUME NEW status \in {Absent, 1}, Exit(status) PROVE CleanExit'
    BY <2>1 DEF Exit, CleanExit
  <2>2. ASSUME AwaitServe PROVE CleanExit'
    <3>1. ~(handlers > 0)
      BY <2>2 DEF AwaitServe, ServerInv, StopsInOrder
    <3>2. ~cut'
      BY <2>2, <3>1 DEF AwaitServe, Exit
    <3> QED
      BY <3>2 DEF CleanExit
  <2>3. ASSUME Restart PROVE CleanExit'
    BY <2>3 DEF Restart, CleanExit
  <2>4. ASSUME UNCHANGED <<code, cut>> PROVE CleanExit'
    BY <2>4 DEF CleanExit
  <2> QED
    BY <2>1, <2>2, <2>3, <2>4
    DEF ServerNext, serverVars, process, LoadConfig, OpenDB, NewAuth, NewMedia, Listen, ServeFails,
        SelectError, SelectSignal, Shutdown, ShutdownTimeout, Kill, UnlimitedRequest, Finish, Tick,
        LimitedRequest, Boot
<1> QED
  BY <1>1, <1>2, ServerInductive, PTL DEF ServerSpec

-----------------------------------------------------------------------------
(* The rate limiter *)

\* A client whose bucket, if it has one, has enough at the time d is allowed
\* from then on, whatever table has room for it.
LEMMA CoveredIsAllowed ==
  ASSUME NEW table, IsTable(table), NEW k \in Clients, NEW d \in Nat, NEW t \in Nat, d =< t,
         k \in DOMAIN table =>
           table[k].last =< d /\ table[k].units + (d - table[k].last) >= UnitsPerRequest,
         NEW room \in Rooms(table, k)
  PROVE  Allowed(room, k, t)
<1>1. CASE k \in DOMAIN table
  <2>1. room = table /\ EntryOf(room, k, t) = table[k]
    BY <1>1, RoomsKeep DEF EntryOf
  <2>2. table[k].units \in Nat /\ table[k].last \in Nat
    BY <1>1 DEF IsTable, Entry
  <2>3. Available(table[k], t) >= UnitsPerRequest
    BY <1>1, <2>2, CapacityType DEF Available, Filled
  <2> QED
    BY <2>1, <2>3 DEF Allowed
<1>2. CASE k \notin DOMAIN table
  <2>1. EntryOf(room, k, t) = NewEntry(t)
    BY <1>2, RoomsKeep DEF EntryOf
  <2> QED
    BY <2>1, NewEntryType, CapacityType DEF Allowed
<1> QED
  BY <1>1, <1>2

\* What the buckets hold keeps the limits and the promises.
LEMMA BucketsKeepLimits ==
  ASSUME LimiterType, BucketsExact, RetryCovers
  PROVE  LimitKept /\ RetryHonoured
<1>1. clock \in Nat
  BY DEF LimiterType
<1>2. LimitKept
  <2>1. \A k \in Clients : Available(EntryOf(clients, k, clock), clock) \in 0..Capacity
    BY <1>1, EntryOfType, AvailableType DEF LimiterType
  <2>2. ASSUME NEW k \in Clients PROVE most[k] >= 0
    BY <2>1, CapacityType DEF BucketsExact, LimiterType
  <2>3. ASSUME NEW k \in Clients, least[k] >= UnitsPerRequest,
               NEW table \in Rooms(clients, k)
        PROVE  Allowed(table, k, clock)
    <3>1. EntryOf(table, k, clock) = EntryOf(clients, k, clock)
      BY RoomsKeep DEF EntryOf
    <3>2. Available(EntryOf(clients, k, clock), clock) >= UnitsPerRequest
      BY <2>1, <2>3, CapacityType DEF BucketsExact, LimiterType
    <3> QED
      BY <3>1, <3>2 DEF Allowed
  <2> QED
    BY <2>2, <2>3 DEF LimitKept
<1>3. RetryHonoured
  <2> SUFFICES ASSUME NEW k \in Clients, due[k] # Absent, due[k] =< clock,
                      NEW table \in Rooms(clients, k)
               PROVE  Allowed(table, k, clock)
    BY DEF RetryHonoured
  <2>1. due[k] \in Nat
    BY DEF LimiterType
  <2> QED
    BY <1>1, <2>1, CoveredIsAllowed DEF LimiterType, RetryCovers
<1> QED
  BY <1>2, <1>3

\* The part of the invariant that has to be kept, the rest follows.
Buckets ==
  /\ IsFiniteSet(DOMAIN clients) /\ Cardinality(DOMAIN clients) =< MaxClients
  /\ BucketsExact
  /\ RetryCovers

\* A limiter that has seen nobody.
LEMMA ResetBuckets ==
  ASSUME ResetLimiter
  PROVE  Buckets'
<1>1. clock' = 0 /\ DOMAIN clients' = {}
      /\ least' = [k \in Clients |-> Capacity] /\ most' = [k \in Clients |-> Capacity]
  BY EmptyTable DEF ResetLimiter
<1>2. IsFiniteSet({}) /\ Cardinality({}) = 0
  BY FS_EmptySet
<1>3. \A k \in Clients : EntryOf(clients', k, clock') = NewEntry(0)
  BY <1>1 DEF EntryOf
<1>4. BucketsExact'
  BY <1>1, <1>3, NewEntryType, CapacityType DEF BucketsExact
<1>5. RetryCovers'
  BY <1>1 DEF RetryCovers
<1> QED
  BY <1>1, <1>2, <1>4, <1>5 DEF Buckets

LEMMA InitBuckets == ServerInit => Buckets
<1> SUFFICES ASSUME ServerInit PROVE Buckets
  OBVIOUS
<1>1. clock = 0 /\ DOMAIN clients = {}
      /\ least = [k \in Clients |-> Capacity] /\ most = [k \in Clients |-> Capacity]
  BY EmptyTable DEF ServerInit
<1>2. IsFiniteSet({}) /\ Cardinality({}) = 0
  BY FS_EmptySet
<1>3. \A k \in Clients : EntryOf(clients, k, clock) = NewEntry(0)
  BY <1>1 DEF EntryOf
<1>4. BucketsExact
  BY <1>1, <1>3, NewEntryType, CapacityType DEF BucketsExact
<1>5. RetryCovers
  BY <1>1 DEF RetryCovers
<1> QED
  BY <1>1, <1>2, <1>4, <1>5 DEF Buckets

\* A bucket fills as the one it stands for does.
LEMMA TickBuckets ==
  ASSUME LimiterType, Buckets, Tick
  PROVE  Buckets'
<1>1. clock \in Nat /\ clock' = clock + 1 /\ clients' = clients /\ due' = due
  BY DEF Tick, LimiterType
<1>2. ASSUME NEW k \in Clients
      PROVE  LET units == Available(EntryOf(clients, k, clock), clock)
             IN units \in 0..Capacity
                /\ Available(EntryOf(clients, k, clock'), clock') = Filled(units + 1)
  <2>1. CASE k \in DOMAIN clients
    <3>1. /\ EntryOf(clients, k, clock) = clients[k] /\ EntryOf(clients, k, clock') = clients[k]
          /\ clients[k].units \in 0..Capacity /\ clients[k].last \in Nat
          /\ clients[k].last =< clock
      BY <2>1 DEF EntryOf, Buckets, BucketsExact, LimiterType, IsTable, Entry
    <3> QED
      BY <1>1, <3>1, CapacityType DEF Available, Filled
  <2>2. CASE k \notin DOMAIN clients
    <3>1. /\ EntryOf(clients, k, clock) = NewEntry(clock)
          /\ EntryOf(clients, k, clock') = NewEntry(clock')
      BY <2>2 DEF EntryOf
    <3> QED
      BY <1>1, <3>1, NewEntryType, CapacityType DEF Filled
  <2> QED
    BY <2>1, <2>2
<1>3. BucketsExact'
  <2>1. \A k \in DOMAIN clients : clients[k].last =< clock'
    BY <1>1 DEF Buckets, BucketsExact, LimiterType, IsTable, Entry
  <2>2. ASSUME NEW k \in Clients
        PROVE  /\ least'[k] =< Available(EntryOf(clients, k, clock'), clock')
               /\ Available(EntryOf(clients, k, clock'), clock') =< most'[k]
    <3> DEFINE units == Available(EntryOf(clients, k, clock), clock)
               next  == Available(EntryOf(clients, k, clock'), clock')
    <3>1. units \in 0..Capacity /\ next = Filled(units + 1)
      BY <1>2
    <3>2. least'[k] = Filled(least[k] + 1) /\ most'[k] = Filled(most[k] + 1)
      BY DEF Tick
    <3>3. /\ least[k] \in Int /\ most[k] \in Int
          /\ least[k] =< units /\ units =< most[k]
      BY DEF Buckets, BucketsExact, LimiterType
    <3> HIDE DEF units, next
    <3>4. least'[k] =< next /\ next =< most'[k]
      BY <3>1, <3>2, <3>3, CapacityType DEF Filled
    <3> QED
      BY <3>4 DEF next
  <2> QED
    BY <1>1, <2>1, <2>2 DEF BucketsExact
<1>4. RetryCovers'
  BY <1>1 DEF Buckets, RetryCovers
<1> QED
  BY <1>1, <1>3, <1>4 DEF Buckets

\* The units of a refused client that stays away for as long as it was told.
LEMMA RefusalCovered ==
  ASSUME NEW table, IsTable(table), NEW k \in Clients, NEW now \in Nat,
         ~Allowed(table, k, now)
  PROVE  LET wait == RetryAfter(Wait(table, k, now))
         IN /\ wait \in Nat
            /\ Available(EntryOf(table, k, now), now) + wait >= UnitsPerRequest
<1> DEFINE units == Available(EntryOf(table, k, now), now)
<1>1. units \in 0..Capacity
  BY EntryOfType, AvailableType
<1>2. Wait(table, k, now) = UnitsPerRequest - units /\ ~(units >= UnitsPerRequest)
  BY DEF Wait, Allowed
<1> HIDE DEF units
<1>3. Wait(table, k, now) \in Nat
  BY <1>1, <1>2, CapacityType
<1>4. /\ RetryAfter(Wait(table, k, now)) \in Nat
      /\ RetryAfter(Wait(table, k, now)) >= Wait(table, k, now)
  BY <1>3, RetryAfterCovers
<1>5. units + RetryAfter(Wait(table, k, now)) >= UnitsPerRequest
  BY <1>1, <1>2, <1>4, CapacityType
<1> QED
  BY <1>4, <1>5 DEF units

\* A limited request keeps what the buckets stand for: its client's is charged,
\* another's is as it was or forgotten.
LEMMA LimitedBuckets ==
  ASSUME LimiterType, Buckets, NEW k \in Clients, NEW now \in {clock, clock - 1} \cap Nat,
         LimitedRequest(k, now)
  PROVE  Buckets'
<1>1. PICK table \in Rooms(clients, k) :
        /\ clients' = Charge(table, k, now)
        /\ due' = [due EXCEPT ![k] = IF Allowed(table, k, now) THEN Absent
                                     ELSE now + RetryAfter(Wait(table, k, now))]
        /\ least' = [q \in Clients |-> IF Forgotten(q, table) THEN Capacity
                       ELSE IF q = k THEN Drained(least[q] - Taken(table, k, now))
                       ELSE least[q]]
        /\ most' = [q \in Clients |-> IF Forgotten(q, table) THEN Capacity
                      ELSE IF q = k THEN Filled(most[q] - Taken(table, k, now) + (clock - now))
                      ELSE most[q]]
  BY DEF LimitedRequest
<1>2. clock' = clock /\ clock \in Nat /\ now \in Nat /\ now =< clock
  BY DEF LimitedRequest, LimiterType
<1>3. /\ IsTable(table) /\ DOMAIN table \subseteq DOMAIN clients
      /\ \A q \in DOMAIN table : table[q] = clients[q]
  BY <1>1, RoomsKeep DEF LimiterType, IsTable
<1>4. /\ DOMAIN clients' = DOMAIN table \cup {k} /\ IsTable(clients')
      /\ \A q \in DOMAIN table \ {k} : clients'[q] = clients[q]
      /\ clients'[k].last = now
      /\ clients'[k].units = Available(EntryOf(table, k, now), now) - Taken(table, k, now)
  <2> DEFINE charged == Charge(table, k, now)
  <2>1. /\ DOMAIN charged = DOMAIN table \cup {k} /\ IsTable(charged)
        /\ \A q \in DOMAIN table \ {k} : charged[q] = table[q]
        /\ charged[k].last = now
        /\ charged[k].units = Available(EntryOf(table, k, now), now) - Taken(table, k, now)
    BY ONLY k \in Clients, <1>2, <1>3, ChargeType
  <2>2. clients' = charged
    BY <1>1
  <2> HIDE DEF charged
  <2> QED
    BY <1>3, <2>1, <2>2 DEF IsTable
<1>5. IsFiniteSet(DOMAIN clients') /\ Cardinality(DOMAIN clients') =< MaxClients
  BY <1>1, <1>4, RoomsBound DEF Buckets
<1>6. \A q \in DOMAIN clients' : clients'[q].last =< clock'
  BY <1>2, <1>3, <1>4 DEF Buckets, BucketsExact
<1>7. ASSUME NEW q \in Clients
      PROVE  /\ least'[q] =< Available(EntryOf(clients', q, clock'), clock')
             /\ Available(EntryOf(clients', q, clock'), clock') =< most'[q]
  <2> DEFINE held == Available(EntryOf(clients, q, clock), clock)
             next == Available(EntryOf(clients', q, clock'), clock')
  <2>1. /\ held \in 0..Capacity /\ least[q] \in Int /\ most[q] \in Int
        /\ least[q] =< held /\ held =< most[q]
    BY <1>2, EntryOfType, AvailableType DEF Buckets, BucketsExact, LimiterType
  <2>2. CASE Forgotten(q, table)
    <3>1. q # k /\ q \notin DOMAIN clients'
      BY <1>1, <1>4, <2>2, RoomsKeep DEF Forgotten
    <3>2. next = Capacity
      BY <1>2, <3>1, NewEntryType DEF EntryOf
    <3>3. least'[q] = Capacity /\ most'[q] = Capacity
      BY <1>1, <2>2
    <3> QED
      BY <3>2, <3>3, CapacityType
  <2>3. CASE ~Forgotten(q, table) /\ q # k
    <3>1. EntryOf(clients', q, clock') = EntryOf(clients, q, clock)
      BY <1>2, <1>3, <1>4, <2>3 DEF EntryOf, Forgotten
    <3>2. least'[q] = least[q] /\ most'[q] = most[q]
      BY <1>1, <2>3
    <3> QED
      BY <1>2, <2>1, <3>1, <3>2
  <2>4. CASE ~Forgotten(q, table) /\ q = k
    <3> DEFINE units == Available(EntryOf(table, k, now), now)
               taken == Taken(table, k, now)
    <3>1. EntryOf(clients', k, clock') = clients'[k]
      BY <1>4 DEF EntryOf
    <3>2. /\ units \in 0..Capacity /\ taken \in {0, UnitsPerRequest} /\ taken =< units
          /\ clients'[k].units = units - taken /\ clients'[k].last = now
      BY <1>2, <1>3, <1>4, EntryOfType, AvailableType, CapacityType DEF Taken, Allowed
    <3>3. next = Filled(units - taken + (clock - now))
      BY <1>2, <2>4, <3>1, <3>2 DEF Available
    <3>4. units =< held /\ held =< units + (clock - now)
      <4>1. CASE k \in DOMAIN clients
        <5>1. /\ EntryOf(table, k, now) = clients[k] /\ EntryOf(clients, k, clock) = clients[k]
              /\ clients[k].units \in 0..Capacity /\ clients[k].last \in Nat
              /\ clients[k].last =< clock
          BY <1>1, <4>1, RoomsKeep DEF EntryOf, Buckets, BucketsExact, LimiterType, IsTable, Entry
        <5>2. held = Filled(clients[k].units + (clock - clients[k].last))
          BY <1>2, <2>4, <5>1 DEF Available
        <5>3. units = Filled(clients[k].units + (IF now < clients[k].last THEN 0
                                                 ELSE now - clients[k].last))
          BY <5>1 DEF Available
        <5> HIDE DEF units, held
        <5> QED
          BY <1>2, <5>1, <5>2, <5>3, CapacityType DEF Filled
      <4>2. CASE k \notin DOMAIN clients
        <5>1. units = Capacity
          BY <1>1, <1>2, <4>2, RoomsKeep, NewEntryType DEF EntryOf
        <5>2. held = Capacity
          BY <1>2, <2>4, <4>2, NewEntryType DEF EntryOf
        <5> HIDE DEF units, held
        <5> QED
          BY <1>2, <5>1, <5>2, CapacityType
      <4> QED
        BY <4>1, <4>2
    <3>5. /\ least'[k] = Drained(least[k] - taken)
          /\ most'[k] = Filled(most[k] - taken + (clock - now))
      BY <1>1, <2>4
    <3> HIDE DEF units, taken, held, next
    <3>6. least'[k] =< next /\ next =< most'[k]
      BY <1>2, <2>1, <2>4, <3>2, <3>3, <3>4, <3>5, CapacityType DEF Filled, Drained
    <3> QED
      BY <2>4, <3>6 DEF next
  <2> QED
    BY <2>2, <2>3, <2>4
<1>8. ASSUME NEW q \in DOMAIN clients', due'[q] # Absent
      PROVE  /\ clients'[q].last =< due'[q]
             /\ clients'[q].units + (due'[q] - clients'[q].last) >= UnitsPerRequest
  <2>1. q \in Clients
    BY <1>4 DEF IsTable
  <2>2. CASE q # k
    <3>1. q \in DOMAIN clients /\ clients'[q] = clients[q] /\ due'[q] = due[q]
      BY <1>1, <1>3, <1>4, <2>1, <2>2 DEF LimiterType
    <3> QED
      BY <1>8, <3>1 DEF Buckets, RetryCovers
  <2>3. CASE q = k
    <3>1. ~Allowed(table, k, now) /\ due'[k] = now + RetryAfter(Wait(table, k, now))
      BY <1>1, <1>8, <2>1, <2>3 DEF LimiterType
    <3>2. clients'[k].units = Available(EntryOf(table, k, now), now)
      BY <1>2, <1>3, <1>4, <3>1, EntryOfType, AvailableType DEF Taken
    <3>3. /\ RetryAfter(Wait(table, k, now)) \in Nat
          /\ clients'[k].units + RetryAfter(Wait(table, k, now)) >= UnitsPerRequest
      BY <1>2, <1>3, <3>1, <3>2, RefusalCovered
    <3> QED
      BY <1>2, <1>4, <2>3, <3>1, <3>3
  <2> QED
    BY <2>2, <2>3
<1>9. BucketsExact' /\ RetryCovers'
  BY <1>6, <1>7, <1>8 DEF BucketsExact, RetryCovers
<1> QED
  BY <1>5, <1>9 DEF Buckets

LEMMA NextBuckets == LimiterType /\ Buckets /\ [ServerNext]_serverVars => Buckets'
<1> SUFFICES ASSUME LimiterType, Buckets, [ServerNext]_serverVars PROVE Buckets'
  OBVIOUS
<1>1. ASSUME UNCHANGED <<clock, limiter>> PROVE Buckets'
  BY <1>1 DEF limiter, Buckets, BucketsExact, RetryCovers
<1>2. ASSUME NEW status \in {Absent, 0, 1}, Exit(status) PROVE Buckets'
  BY <1>2, ResetBuckets DEF Exit
<1>3. ASSUME \/ LoadConfig \/ OpenDB \/ NewAuth \/ NewMedia \/ SelectError
             \/ ShutdownTimeout \/ AwaitServe \/ Kill
      PROVE  Buckets'
  BY <1>1, <1>2, <1>3 DEF LoadConfig, OpenDB, NewAuth, NewMedia, SelectError,
                          ShutdownTimeout, AwaitServe, Kill, Boot
<1>4. ASSUME \/ Listen \/ ServeFails \/ SelectSignal \/ Shutdown \/ Restart \/ UnlimitedRequest
             \/ Finish \/ UNCHANGED serverVars
      PROVE  Buckets'
  BY <1>1, <1>4 DEF Listen, ServeFails, SelectSignal, Shutdown, Restart, UnlimitedRequest, Finish, serverVars
<1> QED
  BY <1>3, <1>4, TickBuckets, LimitedBuckets DEF ServerNext

\* Whatever the clients do, and whichever of them are forgotten, the table keeps
\* its bound; from the moment it was last forgotten a client gets no more than a
\* bucket of its own and what old times give back to it, and is refused nothing
\* that its bucket holds; and a client that returns when Retry-After told it to is
\* let in (src/api/internal/server/rate_limit.go).
THEOREM LimiterInductive == ServerSpec => []LimiterInv
<1>1. ServerInv => LimiterType
  BY TypeParts DEF ServerInv
<1>2. LimiterType /\ Buckets => LimiterInv
  BY BucketsKeepLimits DEF Buckets, LimiterInv
<1> QED
  BY InitBuckets, NextBuckets, ServerInductive, <1>1, <1>2, PTL DEF ServerSpec

(***************************************************************************)
(* Signing in                                                              *)
(***************************************************************************)

USE SignInAssumption

\* What the server keeps: the tables, and the transactions that write them ...
ServerOK ==
  /\ TypeOK /\ TablesOK /\ SignedInAsConsented
  /\ \A t \in Tabs : RequestOK(t) /\ WorkOK(t)
  /\ \A t \in Tabs : \A q \in Tabs \ {t} : ApartOK(t, q)

\* ... and what a page that is alone can count on, which rests on it.
TokenOK(t) ==
  sole = t /\ req[t].op # "session" =>
    /\ jar.csrf = page[t] /\ Live(jar.session) /\ sessions[jar.session].csrf = page[t]
    /\ req[t].status \notin {"401", "403"}

PagesOK == \A t \in Tabs : SoleOK(t) /\ TokenOK(t)

LEMMA NoWorkType ==
  /\ NoWork \in Work /\ NoWork.user = None /\ NoWork.old = None /\ NoWork.new = None
  /\ NoWork.subject = None
BY DEF NoWork, Work, Maybe

LEMMA NoCookiesType ==
  NoCookies \in Jar /\ NoCookies.session = None /\ NoCookies.csrf = None
BY DEF NoCookies, Jar, Maybe

LEMMA ValuesType == Values \subseteq Nat /\ 0 \in Values /\ None \notin Values
BY DEF Values

LEMMA IdleType ==
  /\ Idle \in Request /\ Idle.pc = "idle" /\ Idle.op = "none" /\ Idle.status = "none"
  /\ Idle.token = None /\ Idle.cookies = NoCookies
BY NoCookiesType, ValuesType DEF Idle, Request, Ops, Asking, Statuses, Maybe

BrowserOK ==
  /\ redeemed \subseteq Values /\ jar \in Jar /\ page \in [Tabs -> Maybe(Values)]
  /\ issued \in Values /\ sole \in Maybe(Tabs)

LEMMA SameBrowser ==
  ASSUME ServerOK, UNCHANGED <<redeemed, browser>>
  PROVE  BrowserOK'
BY DEF ServerOK, TypeOK, browser, BrowserOK

SessionOK(s) ==
  sessions[s].status # "none" =>
    /\ sessions[s].user \in UserIDs /\ sessions[s].subject \in Subjects
    /\ sessions[s].csrf \in Values
    /\ identities[sessions[s].subject] = sessions[s].user

\* No session is forgotten.
SessionsKept ==
  \A s \in Values : sessions[s].status # "none" => sessions'[s].status # "none"

LEMMA SessionsType ==
  ASSUME ServerOK
  PROVE  sessions \in [Values -> Session] /\ \A s \in Values : SessionOK(s)
BY DEF ServerOK, TypeOK, TablesOK, SignedInAsConsented, SessionOK

\* What is left to show of a step of t that writes neither users nor identities.
LEMMA RequestFrame ==
  ASSUME ServerOK, NEW t \in Tabs, NEW r \in Request, NEW w \in Work,
         req' = [req EXCEPT ![t] = r], work' = [work EXCEPT ![t] = w],
         UNCHANGED <<users, identities>>, BrowserOK',
         sessions' \in [Values -> Session], \A s \in Values : SessionOK(s)', SessionsKept,
         RequestOK(t)', WorkOK(t)',
         \A q \in Tabs \ {t} : ApartOK(t, q)' /\ ApartOK(q, t)'
  PROVE  ServerOK'
<1>1. TypeOK /\ \A q \in Tabs \ {t} : req'[q] = req[q] /\ work'[q] = work[q]
  BY DEF ServerOK, TypeOK
<1>2. TypeOK'
  BY <1>1 DEF TypeOK, BrowserOK
<1>3. TablesOK'
  BY DEF ServerOK, TablesOK, SessionOK
<1>4. SignedInAsConsented'
  BY DEF SignedInAsConsented, SessionOK
<1>5. ASSUME NEW q \in Tabs PROVE RequestOK(q)' /\ WorkOK(q)'
  <2>1. CASE q = t
    BY <2>1
  <2>2. CASE q # t
    <3>1. RequestOK(q) /\ WorkOK(q) /\ req'[q] = req[q] /\ work'[q] = work[q]
      BY <1>1, <2>2 DEF ServerOK
    <3>2. RequestOK(q)'
      BY <3>1 DEF RequestOK, SessionsKept
    <3>3. WorkOK(q)'
      BY <3>1 DEF WorkOK
    <3> QED
      BY <3>2, <3>3
  <2> QED
    BY <2>1, <2>2
<1>6. ASSUME NEW p \in Tabs, NEW q \in Tabs \ {p} PROVE ApartOK(p, q)'
  <2>1. CASE p # t /\ q # t
    BY <1>1, <2>1 DEF ServerOK, ApartOK
  <2>2. CASE p = t
    BY <2>2
  <2>3. CASE q = t
    BY <2>3
  <2> QED
    BY <2>1, <2>2, <2>3
<1> QED
  BY <1>2, <1>3, <1>4, <1>5, <1>6 DEF ServerOK

\* The same of a step outside a transaction.
LEMMA QuietFrame ==
  ASSUME ServerOK, NEW t \in Tabs, NEW r \in Request,
         req' = [req EXCEPT ![t] = r], work[t] = NoWork, UNCHANGED work,
         UNCHANGED <<users, identities>>, BrowserOK',
         sessions' \in [Values -> Session], \A s \in Values : SessionOK(s)', SessionsKept,
         RequestOK(t)', WorkOK(t)'
  PROVE  ServerOK'
<1>1. TypeOK
  BY DEF ServerOK
<1>2. work' = [work EXCEPT ![t] = NoWork]
  BY <1>1 DEF TypeOK
<1>3. \A q \in Tabs \ {t} : ApartOK(t, q)' /\ ApartOK(q, t)'
  BY NoWorkType DEF ServerOK, ApartOK
<1> QED
  BY <1>2, <1>3, NoWorkType, RequestFrame

\* A response keeps what was asked, and the token for who asked for the session.
LEMMA AnswerType ==
  ASSUME ServerOK, NEW t \in Tabs, NEW status \in Statuses, Answer(t, status)
  PROVE  \E r \in Request :
           /\ req' = [req EXCEPT ![t] = r] /\ r.pc = "answered" /\ r.status = status
           /\ r.op = req[t].op /\ r.attempt = req[t].attempt
           /\ r.op # "session" \/ r.token = req[t].token
<1>1. req[t] \in Request /\ req[t].cookies \in Jar
  BY DEF ServerOK, TypeOK, Request
<1>2. PICK c : c = IF status = "anonymous" THEN req[t].cookies.session ELSE None
  OBVIOUS
<1>3. PICK n : n = IF status = "signed in" THEN req[t].id ELSE 0
  OBVIOUS
<1>4. PICK token : token = IF req[t].op = "session" THEN req[t].token ELSE None
  OBVIOUS
<1>5. c \in Maybe(Values) /\ n \in Values /\ token \in Maybe(Values)
  BY <1>1, <1>2, <1>3, <1>4, ValuesType DEF Request, Jar, Maybe
<1>6. PICK jarred \in Jar : jarred = [NoCookies EXCEPT !.session = c]
  BY <1>5, NoCookiesType DEF Jar
<1> DEFINE r == [Idle EXCEPT !.pc = "answered", !.op = req[t].op, !.attempt = req[t].attempt,
                   !.status = status, !.cookies = jarred, !.id = n, !.token = token]
<1>7. req' = [req EXCEPT ![t] = r]
  <2>1. req' = [req EXCEPT ![t] = [Idle EXCEPT !.pc = "answered", !.op = req[t].op,
                  !.attempt = req[t].attempt, !.status = status, !.cookies.session = c,
                  !.id = n, !.token = token]]
    BY <1>2, <1>3, <1>4, Zenon DEF Answer
  <2>2. [Idle EXCEPT !.pc = "answered", !.op = req[t].op, !.attempt = req[t].attempt,
           !.status = status, !.cookies.session = c, !.id = n, !.token = token] = r
    BY <1>6, IdleType DEF Idle
  <2> QED
    BY <2>1, <2>2
<1>8. /\ r \in Request /\ r.pc = "answered" /\ r.status = status /\ r.op = req[t].op
      /\ r.token = token /\ r.attempt = req[t].attempt
  BY <1>1, <1>5, <1>6, IdleType DEF Request
<1> QED
  BY <1>4, <1>7, <1>8

-----------------------------------------------------------------------------
\* The server's steps keep ServerOK.

\* A response, which is the end of the transaction if there was one.
LEMMA AnswerInv ==
  ASSUME ServerOK, NEW t \in Tabs, NEW status \in Statuses, Answer(t, status),
         req[t].op # "none",
         status = "signed in" => req[t].op = "callback",
         status = "signed out" => req[t].op = "logout",
         status \in {"session", "anonymous"} => req[t].op = "session",
         status = "session" => req[t].token \in Values,
         work' = [work EXCEPT ![t] = NoWork], UNCHANGED <<users, identities>>, BrowserOK',
         sessions' \in [Values -> Session], \A s \in Values : SessionOK(s)', SessionsKept
  PROVE  ServerOK'
<1>1. PICK r \in Request :
        /\ req' = [req EXCEPT ![t] = r] /\ r.pc = "answered" /\ r.status = status
        /\ r.op = req[t].op /\ r.attempt = req[t].attempt
        /\ r.op # "session" \/ r.token = req[t].token
  BY ONLY ServerOK, t \in Tabs, status \in Statuses, Answer(t, status), AnswerType
<1>2. TypeOK /\ RequestOK(t) /\ req'[t] = r /\ work'[t] = NoWork
  BY <1>1 DEF ServerOK, TypeOK
<1>3. RequestOK(t)'
  BY <1>1, <1>2 DEF RequestOK
<1>4. WorkOK(t)'
  BY <1>1, <1>2, NoWorkType DEF WorkOK, Upserting
<1>5. \A q \in Tabs \ {t} : ApartOK(t, q)' /\ ApartOK(q, t)'
  BY <1>2, NoWorkType DEF ServerOK, ApartOK, TypeOK
<1> QED
  BY <1>1, <1>3, <1>4, <1>5, NoWorkType, RequestFrame

\* An error, outside a transaction or with the roll-back of it.
LEMMA FailInv ==
  ASSUME ServerOK, NEW t \in Tabs, NEW status \in {"400", "401", "403", "500", "served"},
         Answer(t, status), req[t].op # "none",
         \/ work' = [work EXCEPT ![t] = NoWork]
         \/ work[t] = NoWork /\ UNCHANGED work,
         UNCHANGED tables, BrowserOK'
  PROVE  ServerOK'
<1>1. TypeOK /\ sessions \in [Values -> Session] /\ \A s \in Values : SessionOK(s)
  BY SessionsType DEF ServerOK
<1>2. work' = [work EXCEPT ![t] = NoWork]
  BY <1>1 DEF TypeOK
<1>3. sessions' \in [Values -> Session] /\ SessionsKept /\ \A s \in Values : SessionOK(s)'
  BY <1>1 DEF tables, SessionOK, SessionsKept
<1>4. status \in Statuses /\ status \notin {"signed in", "signed out", "session", "anonymous"}
  BY DEF Statuses
<1> QED
  BY <1>2, <1>3, <1>4, AnswerInv DEF tables

LEMMA RollbackInv ==
  ASSUME ServerOK, NEW t \in Tabs, req[t].op # "none", Rollback(t)
  PROVE  ServerOK'
<1>1. BrowserOK'
  BY SameBrowser DEF Rollback
<1> QED
  BY <1>1, FailInv DEF Rollback

\* Which request a statement belongs to, and what it has written.
LEMMA OpOf ==
  ASSUME ServerOK, NEW t \in Tabs
  PROVE  /\ req[t].pc \in Serving => req[t].op # "none"
         /\ req[t].pc \in Upserting \cup {"authenticate", "findIdentity", "createSession"} =>
              req[t].op = "callback"
         /\ req[t].pc \in {"rotate", "access"} => req[t].op \in {"session", "mutate"}
         /\ req[t].pc = "revoke" => req[t].op = "logout"
         /\ req[t].pc \notin {"createIdentity", "writeEmail", "commitUser"} => work[t] = NoWork
<1>1. RequestOK(t) /\ WorkOK(t) /\ req[t].op \in Ops
  BY DEF ServerOK, TypeOK, Request
<1> QED
  BY <1>1 DEF RequestOK, WorkOK, Ops, Asking, Serving, Upserting

LEMMA AuthenticateInv ==
  ASSUME ServerOK, NEW t \in Tabs, Authenticate(t)
  PROVE  ServerOK'
<1>1. /\ req[t].pc = "authenticate" /\ req[t].op = "callback" /\ work[t] = NoWork
      /\ UNCHANGED <<tables, browser, work>> /\ TypeOK
      /\ req[t].attempt \in Values
  BY OpOf DEF Authenticate, At, ServerOK, TypeOK, RequestOK
<1>2. BrowserOK'
  <2>1. redeemed' \in {redeemed, redeemed \cup {req[t].attempt}}
    BY DEF Authenticate
  <2> QED
    BY <1>1, <2>1 DEF BrowserOK, TypeOK, browser
<1>3. CASE Answer(t, "400")
  BY <1>1, <1>2, <1>3, FailInv
<1>4. ASSUME NEW claims \in [subject : Subjects, email : Emails],
             req' = [req EXCEPT ![t].pc = "findIdentity",
                       ![t].subject = claims.subject, ![t].email = claims.email]
      PROVE  ServerOK'
  <2> DEFINE r == [req[t] EXCEPT !.pc = "findIdentity", !.subject = claims.subject,
                                 !.email = claims.email]
  <2>1. req[t] \in Request /\ RequestOK(t)
    BY DEF ServerOK, TypeOK
  <2>2. /\ r \in Request /\ r.pc = "findIdentity" /\ r.op = req[t].op
        /\ r.status = req[t].status /\ r.subject \in Subjects /\ r.email \in Emails
        /\ r.attempt = req[t].attempt
    BY <2>1 DEF Request, Maybe, Serving
  <2>3. req' = [req EXCEPT ![t] = r]
    BY <1>1, <1>4 DEF TypeOK
  <2> HIDE DEF r
  <2>4. req'[t] = r
    BY <1>1, <2>3 DEF TypeOK
  <2>5. RequestOK(t)'
    BY <1>1, <2>1, <2>2, <2>4 DEF RequestOK
  <2>6. WorkOK(t)'
    BY <1>1, <2>2, <2>4, NoWorkType DEF WorkOK, Upserting
  <2>7. /\ sessions' \in [Values -> Session] /\ \A s \in Values : SessionOK(s)'
        /\ SessionsKept
    BY <1>1, SessionsType DEF SessionOK, SessionsKept, tables
  <2> QED
    BY <1>1, <1>2, <2>2, <2>3, <2>5, <2>6, <2>7, QuietFrame DEF tables
<1> QED
  BY <1>3, <1>4 DEF Authenticate, Claims

\* A statement of the sign-in that goes on, and writes neither table.
LEMMA StatementInv ==
  ASSUME ServerOK, NEW t \in Tabs, req[t].pc \in Upserting \cup {"findIdentity"},
         NEW r \in Request, r.op = req[t].op, r.status = req[t].status,
         r.attempt = req[t].attempt, r.pc \in Upserting,
         NEW w \in Work, req' = [req EXCEPT ![t] = r], work' = [work EXCEPT ![t] = w],
         UNCHANGED <<tables, redeemed, browser>>, WorkOK(t)',
         \A q \in Tabs \ {t} : ApartOK(t, q)' /\ ApartOK(q, t)'
  PROVE  ServerOK'
<1>1. TypeOK /\ RequestOK(t) /\ req'[t] = r /\ req[t].op = "callback"
  BY OpOf DEF ServerOK, TypeOK
<1>2. RequestOK(t)'
  BY <1>1 DEF RequestOK, Upserting
<1>3. BrowserOK'
  BY SameBrowser
<1>4. sessions' \in [Values -> Session] /\ SessionsKept /\ \A s \in Values : SessionOK(s)'
  BY SessionsType DEF SessionOK, SessionsKept, tables
<1> QED
  BY <1>2, <1>3, <1>4, RequestFrame DEF tables

\* What is known of t and of its transaction, and of the others.
LEMMA Known ==
  ASSUME ServerOK, NEW t \in Tabs
  PROVE  /\ TypeOK /\ TablesOK /\ RequestOK(t) /\ WorkOK(t)
         /\ req[t] \in Request /\ work[t] \in Work
         /\ \A q \in Tabs \ {t} : WorkOK(q) /\ ApartOK(t, q) /\ ApartOK(q, t)
BY DEF ServerOK, TypeOK

LEMMA FindIdentityInv ==
  ASSUME ServerOK, NEW t \in Tabs, FindIdentity(t)
  PROVE  ServerOK'
<1>1. /\ req[t].pc = "findIdentity" /\ work[t] = NoWork
      /\ UNCHANGED <<tables, redeemed, browser, work>>
  BY OpOf DEF FindIdentity, At
<1>2. PICK u : u = identities[req[t].subject]
  OBVIOUS
<1>3. PICK pc : pc = IF u = None THEN "createUser" ELSE "lockUser"
  OBVIOUS
<1> DEFINE r == [req[t] EXCEPT !.pc = pc, !.user = u]
<1>4. /\ TypeOK /\ WorkOK(t) /\ req[t] \in Request
      /\ req[t].subject \in Subjects /\ req[t].email \in Emails
  BY <1>1, Known DEF WorkOK
<1>5. u \in Maybe(UserIDs) /\ (u # None => u \in UserIDs)
  BY <1>2, <1>4 DEF TypeOK, Maybe
<1>6. pc \in Upserting
  BY <1>3 DEF Upserting
<1>7. /\ r \in Request /\ r.pc = pc /\ r.user = u /\ r.op = req[t].op
      /\ r.status = req[t].status /\ r.attempt = req[t].attempt
      /\ r.subject = req[t].subject /\ r.email = req[t].email
  BY <1>4, <1>5, <1>6 DEF Request, Serving
<1>8. req' = [req EXCEPT ![t] = r]
  BY <1>2, <1>3, <1>4 DEF FindIdentity, TypeOK
<1> HIDE DEF r
<1>9. req'[t] = r
  BY <1>4, <1>8 DEF TypeOK
<1>10. WorkOK(t)'
  BY <1>1, <1>2, <1>3, <1>4, <1>5, <1>7, <1>9, NoWorkType DEF WorkOK, tables, Upserting
<1>11. work' = [work EXCEPT ![t] = NoWork]
  BY <1>1, <1>4 DEF TypeOK
<1>12. \A q \in Tabs \ {t} : ApartOK(t, q)' /\ ApartOK(q, t)'
  BY <1>1, Known DEF ApartOK
<1> QED
  BY <1>1, <1>6, <1>7, <1>8, <1>10, <1>11, <1>12, NoWorkType, StatementInv

\* The address is nobody's, and nobody else is about to write it.
LEMMA CreateUserInv ==
  ASSUME ServerOK, NEW t \in Tabs, CreateUser(t)
  PROVE  ServerOK'
<1>1. req[t].pc = "createUser" /\ req[t].op # "none" /\ work[t] = NoWork
  BY OpOf DEF CreateUser, At, Serving, Upserting
<1>2. CASE Rollback(t)
  BY <1>1, <1>2, RollbackInv
<1>3. ASSUME ~ \E u \in UserIDs : users[u] = req[t].email,
             NEW u \in UserIDs \ {work[q].user : q \in Tabs}, users[u] = None,
             req' = [req EXCEPT ![t].pc = "createIdentity", ![t].user = u],
             work' = [work EXCEPT ![t].user = u, ![t].new = req[t].email],
             UNCHANGED <<tables, redeemed, browser>>
      PROVE  ServerOK'
  <2> DEFINE r == [req[t] EXCEPT !.pc = "createIdentity", !.user = u]
             w == [NoWork EXCEPT !.user = u, !.new = req[t].email]
  <2>1. /\ TypeOK /\ WorkOK(t) /\ req[t] \in Request
        /\ req[t].subject \in Subjects /\ req[t].email \in Emails
    BY <1>1, Known DEF WorkOK, Upserting
  <2>2. /\ r \in Request /\ r.pc = "createIdentity" /\ r.user = u /\ r.op = req[t].op
        /\ r.status = req[t].status /\ r.attempt = req[t].attempt
        /\ r.subject = req[t].subject /\ r.email = req[t].email
    BY <2>1 DEF Request, Serving, Upserting, Maybe
  <2>3. /\ w \in Work /\ w.user = u /\ w.new = req[t].email /\ w.old = None
        /\ w.subject = None
    BY <2>1, NoWorkType DEF Work, Maybe
  <2>4. req' = [req EXCEPT ![t] = r] /\ work' = [work EXCEPT ![t] = w]
    BY <1>1, <1>3, <2>1 DEF TypeOK
  <2> HIDE DEF r, w
  <2>5. req'[t] = r /\ work'[t] = w /\ \A q \in Tabs \ {t} : work'[q] = work[q]
    BY <2>1, <2>4 DEF TypeOK
  <2>6. u # None /\ req[t].email # None
    BY <2>1
  <2>7. /\ u \in UserIDs /\ users[u] = None /\ users' = users /\ identities' = identities
        /\ \A v \in UserIDs : users[v] # req[t].email
        /\ \A q \in Tabs : work[q].user # u
    BY <1>3 DEF tables
  <2>8. WorkOK(t)'
    BY <2>1, <2>2, <2>3, <2>5, <2>7 DEF WorkOK, Upserting
  <2>9. \A q \in Tabs \ {t} : req[t].email \notin {work[q].old, work[q].new}
    BY DEF CreateUser, EmailWriters
  <2>10. \A q \in Tabs \ {t} : ApartOK(t, q)' /\ ApartOK(q, t)'
    BY <2>3, <2>5, <2>6, <2>7, <2>9 DEF ApartOK
  <2> QED
    BY <1>1, <1>3, <2>2, <2>3, <2>4, <2>8, <2>10, StatementInv DEF Upserting
<1> QED
  BY <1>2, <1>3 DEF CreateUser

LEMMA CreateIdentityInv ==
  ASSUME ServerOK, NEW t \in Tabs, CreateIdentity(t)
  PROVE  ServerOK'
<1>1. req[t].pc = "createIdentity" /\ req[t].op # "none"
  BY OpOf DEF CreateIdentity, At, Serving, Upserting
<1>2. CASE Rollback(t)
  BY <1>1, <1>2, RollbackInv
<1>3. ASSUME identities[req[t].subject] = None, Advance(t, "commitUser"),
             work' = [work EXCEPT ![t].subject = req[t].subject],
             UNCHANGED <<tables, redeemed, browser>>
      PROVE  ServerOK'
  <2> DEFINE r == [req[t] EXCEPT !.pc = "commitUser"]
             w == [work[t] EXCEPT !.subject = req[t].subject]
  <2>1. /\ TypeOK /\ WorkOK(t) /\ req[t] \in Request /\ work[t] \in Work
        /\ req[t].subject \in Subjects /\ req[t].email \in Emails
    BY <1>1, Known DEF WorkOK, Upserting
  <2>2. /\ r \in Request /\ r.pc = "commitUser" /\ r.user = req[t].user /\ r.op = req[t].op
        /\ r.status = req[t].status /\ r.attempt = req[t].attempt
        /\ r.subject = req[t].subject /\ r.email = req[t].email
    BY <2>1 DEF Request, Serving, Upserting
  <2>3. /\ w \in Work /\ w.user = work[t].user /\ w.new = work[t].new
        /\ w.old = work[t].old /\ w.subject = req[t].subject
    BY <2>1 DEF Work, Maybe
  <2>4. req' = [req EXCEPT ![t] = r] /\ work' = [work EXCEPT ![t] = w]
    BY <1>3 DEF Advance
  <2> HIDE DEF r, w
  <2>5. req'[t] = r /\ work'[t] = w /\ \A q \in Tabs \ {t} : work'[q] = work[q]
    BY <2>1, <2>4 DEF TypeOK
  <2>6. WorkOK(t)'
    BY <1>1, <1>3, <2>1, <2>2, <2>3, <2>5 DEF WorkOK, tables, Upserting
  <2>7. \A q \in Tabs \ {t} : work[q].subject # req[t].subject
    BY DEF CreateIdentity, IdentityWriters
  <2>8. \A q \in Tabs \ {t} : ApartOK(t, q)' /\ ApartOK(q, t)'
    BY <2>3, <2>5, <2>7, Known DEF ApartOK
  <2> QED
    BY <1>1, <1>3, <2>2, <2>3, <2>4, <2>6, <2>8, StatementInv DEF Upserting
<1> QED
  BY <1>2, <1>3 DEF CreateIdentity

\* The address of the row that is locked now is not about to be anyone else's.
LEMMA LockUserInv ==
  ASSUME ServerOK, NEW t \in Tabs, LockUser(t)
  PROVE  ServerOK'
<1>1. /\ req[t].pc = "lockUser" /\ req[t].op # "none" /\ work[t] = NoWork
      /\ UNCHANGED <<tables, redeemed, browser>>
  BY OpOf DEF LockUser, At, Serving, Upserting
<1> DEFINE r == [req[t] EXCEPT !.pc = "writeEmail"]
           w == [NoWork EXCEPT !.user = req[t].user, !.old = users[req[t].user]]
<1>2. /\ TypeOK /\ TablesOK /\ WorkOK(t) /\ req[t] \in Request
      /\ req[t].subject \in Subjects /\ req[t].email \in Emails
      /\ req[t].user \in UserIDs /\ identities[req[t].subject] = req[t].user
  BY <1>1, Known DEF WorkOK, Upserting
<1>3. req[t].user # None /\ users[req[t].user] \in Maybe(Emails) /\ users[req[t].user] # None
  BY <1>2 DEF TypeOK, TablesOK
<1>4. /\ r \in Request /\ r.pc = "writeEmail" /\ r.user = req[t].user /\ r.op = req[t].op
      /\ r.status = req[t].status /\ r.attempt = req[t].attempt
      /\ r.subject = req[t].subject /\ r.email = req[t].email
  BY <1>2 DEF Request, Serving, Upserting
<1>5. /\ w \in Work /\ w.user = req[t].user /\ w.old = users[req[t].user] /\ w.new = None
      /\ w.subject = None
  BY <1>2, <1>3, NoWorkType DEF Work, Maybe
<1>6. req' = [req EXCEPT ![t] = r] /\ work' = [work EXCEPT ![t] = w]
  BY <1>1, <1>2 DEF LockUser, Advance, TypeOK
<1> HIDE DEF r, w
<1>7. req'[t] = r /\ work'[t] = w /\ \A q \in Tabs \ {t} : work'[q] = work[q]
  BY <1>2, <1>6 DEF TypeOK
<1>8. WorkOK(t)'
  BY <1>1, <1>2, <1>3, <1>4, <1>5, <1>7 DEF WorkOK, tables, Upserting
<1>9. ASSUME NEW q \in Tabs \ {t} PROVE ApartOK(t, q)' /\ ApartOK(q, t)'
  <2>1. work[q].user # req[t].user
    BY DEF LockUser, RowWriters
  <2>2. work[q].new # None => work[q].new # users[req[t].user]
    BY <1>2, <2>1, Known DEF WorkOK
  <2> QED
    BY <1>5, <1>7, <2>1, <2>2, Known DEF ApartOK
<1> QED
  BY <1>1, <1>4, <1>5, <1>6, <1>8, <1>9, StatementInv DEF Upserting

LEMMA WriteEmailInv ==
  ASSUME ServerOK, NEW t \in Tabs, WriteEmail(t)
  PROVE  ServerOK'
<1>1. req[t].pc = "writeEmail" /\ req[t].op # "none"
  BY OpOf DEF WriteEmail, At, Serving, Upserting
<1>2. CASE Rollback(t)
  BY <1>1, <1>2, RollbackInv
<1>3. ASSUME ~ \E u \in UserIDs \ {req[t].user} : users[u] = req[t].email,
             Advance(t, "commitUser"), work' = [work EXCEPT ![t].new = req[t].email],
             UNCHANGED <<tables, redeemed, browser>>
      PROVE  ServerOK'
  <2> DEFINE r == [req[t] EXCEPT !.pc = "commitUser"]
             w == [work[t] EXCEPT !.new = req[t].email]
  <2>1. /\ TypeOK /\ TablesOK /\ WorkOK(t) /\ req[t] \in Request /\ work[t] \in Work
        /\ req[t].subject \in Subjects /\ req[t].email \in Emails
        /\ req[t].user \in UserIDs /\ identities[req[t].subject] = req[t].user
        /\ work[t].user = req[t].user /\ work[t].old = users[req[t].user]
        /\ work[t].subject = None
    BY <1>1, Known DEF WorkOK, Upserting
  <2>2. /\ r \in Request /\ r.pc = "commitUser" /\ r.user = req[t].user /\ r.op = req[t].op
        /\ r.status = req[t].status /\ r.attempt = req[t].attempt
        /\ r.subject = req[t].subject /\ r.email = req[t].email
    BY <2>1 DEF Request, Serving, Upserting
  <2>3. /\ w \in Work /\ w.user = work[t].user /\ w.new = req[t].email
        /\ w.old = work[t].old /\ w.subject = work[t].subject
    BY <2>1 DEF Work, Maybe
  <2>4. req' = [req EXCEPT ![t] = r] /\ work' = [work EXCEPT ![t] = w]
    BY <1>3 DEF Advance
  <2> HIDE DEF r, w
  <2>5. req'[t] = r /\ work'[t] = w /\ \A q \in Tabs \ {t} : work'[q] = work[q]
    BY <2>1, <2>4 DEF TypeOK
  <2>6. users[req[t].user] # None /\ req[t].email # None /\ req[t].user # None
    BY <2>1 DEF TablesOK
  <2>7. WorkOK(t)'
    BY <1>1, <1>3, <2>1, <2>2, <2>3, <2>5, <2>6 DEF WorkOK, tables, Upserting
  <2>8. ASSUME NEW q \in Tabs \ {t} PROVE req[t].email \notin {work[q].old, work[q].new}
    <3>1. CASE EmailWriters(t) = {}
      BY <3>1 DEF EmailWriters
    <3>2. CASE work[t].old = req[t].email
      <4>1. users[req[t].user] = req[t].email /\ work[q].user # req[t].user
        BY <2>1, <2>6, <3>2, Known DEF ApartOK
      <4>2. work[q].new # req[t].email
        BY <2>1, <2>6, <4>1, Known DEF WorkOK
      <4>3. ASSUME work[q].old = req[t].email PROVE FALSE
        <5>1. work[q].old # None
          BY <2>6, <4>3
        <5>2. work[q].user \in UserIDs /\ work[q].old = users[work[q].user]
          BY <5>1, Known, NoWorkType DEF WorkOK
        <5> QED
          BY <2>1, <2>6, <4>1, <4>3, <5>2 DEF TablesOK
      <4> QED
        BY <4>2, <4>3
    <3> QED
      BY <3>1, <3>2 DEF WriteEmail
  <2>9. \A q \in Tabs \ {t} : ApartOK(t, q)' /\ ApartOK(q, t)'
    BY <2>3, <2>5, <2>8, Known DEF ApartOK
  <2> QED
    BY <1>1, <1>3, <2>2, <2>3, <2>4, <2>7, <2>9, StatementInv DEF Upserting
<1> QED
  BY <1>2, <1>3 DEF WriteEmail

\* What a COMMIT does to the tables.
LEMMA CommitEffect ==
  ASSUME ServerOK, NEW t \in Tabs, CommitUser(t)
  PROVE  /\ users' \in [UserIDs -> Maybe(Emails)] /\ identities' \in [Subjects -> Maybe(UserIDs)]
         /\ work[t].user \in UserIDs /\ work[t].user = req[t].user
         /\ work[t].new \in Emails /\ req[t].subject \in Subjects
         /\ users'[work[t].user] = work[t].new
         /\ \A v \in UserIDs \ {work[t].user} : users'[v] = users[v] /\ users[v] # work[t].new
         /\ \A g \in Subjects : identities[g] # None => identities'[g] = identities[g]
         /\ identities'[req[t].subject] = work[t].user
         /\ \A g \in Subjects : identities'[g] # identities[g] =>
              /\ g = req[t].subject /\ g = work[t].subject /\ identities[g] = None
              /\ users[work[t].user] = None
<1>1. req[t].pc = "commitUser"
  BY DEF CommitUser, At
<1>2. /\ TypeOK /\ work[t] \in Work
      /\ req[t].subject \in Subjects /\ req[t].email \in Emails
      /\ work[t].user = req[t].user /\ req[t].user \in UserIDs
      /\ work[t].new = req[t].email /\ work[t].old = users[work[t].user]
      /\ \/ work[t].old = None /\ work[t].subject = req[t].subject
              /\ identities[req[t].subject] = None
         \/ work[t].subject = None /\ identities[req[t].subject] = work[t].user
  BY <1>1, Known DEF WorkOK, Upserting
<1>3. work[t].new # None /\ None \notin Subjects
  BY <1>2
<1>4. \A v \in UserIDs \ {work[t].user} : users[v] # work[t].new
  BY <1>2, <1>3, Known DEF WorkOK
<1>5. /\ users' = [users EXCEPT ![work[t].user] = work[t].new]
      /\ identities' = [g \in Subjects |-> IF g = work[t].subject THEN work[t].user
                                           ELSE identities[g]]
  BY DEF CommitUser
<1>6. /\ users' \in [UserIDs -> Maybe(Emails)] /\ users'[work[t].user] = work[t].new
      /\ \A v \in UserIDs \ {work[t].user} : users'[v] = users[v]
  BY <1>2, <1>5 DEF TypeOK, Maybe
<1>7. identities' \in [Subjects -> Maybe(UserIDs)]
  BY <1>2, <1>5 DEF TypeOK, Maybe
<1>8. CASE /\ work[t].old = None /\ work[t].subject = req[t].subject
           /\ identities[req[t].subject] = None
  <2>1. \A g \in Subjects : g # req[t].subject => identities'[g] = identities[g]
    BY <1>5, <1>8
  <2>2. identities'[req[t].subject] = work[t].user
    BY <1>2, <1>5, <1>8
  <2> QED
    BY <1>2, <1>4, <1>6, <1>7, <1>8, <2>1, <2>2
<1>9. CASE work[t].subject = None /\ identities[req[t].subject] = work[t].user
  <2>1. \A g \in Subjects : identities'[g] = identities[g]
    BY <1>3, <1>5, <1>9
  <2> QED
    BY <1>2, <1>4, <1>6, <1>7, <1>9, <2>1
<1> QED
  BY <1>2, <1>8, <1>9

LEMMA CommitTables ==
  ASSUME ServerOK, NEW t \in Tabs, CommitUser(t)
  PROVE  TablesOK' /\ SignedInAsConsented'
<1>1. TypeOK /\ TablesOK /\ sessions' = sessions /\ \A s \in Values : SessionOK(s)
  BY SessionsType DEF ServerOK, CommitUser
<1>2. PICK u \in UserIDs : u = work[t].user
  BY CommitEffect
<1>3. PICK e \in Emails : e = work[t].new
  BY CommitEffect
<1>4. PICK k \in Subjects : k = req[t].subject
  BY CommitEffect
<1>5. /\ users'[u] = e /\ e # None /\ u # None
      /\ \A v \in UserIDs \ {u} : users'[v] = users[v] /\ users[v] # e
      /\ \A g \in Subjects : identities[g] # None => identities'[g] = identities[g]
      /\ identities'[k] = u
      /\ \A g \in Subjects : identities'[g] # identities[g] =>
           g = k /\ identities[g] = None /\ users[u] = None
  BY <1>2, <1>3, <1>4, CommitEffect
<1>6. ASSUME NEW v \in UserIDs, users'[v] # None
      PROVE  /\ \E g \in Subjects : identities'[g] = v
             /\ \A x \in UserIDs \ {v} : users'[x] # users'[v]
  <2>1. CASE v = u
    BY <1>5, <2>1
  <2>2. CASE v # u
    <3>1. users[v] # None /\ users'[v] = users[v]
      BY <1>5, <1>6, <2>2
    <3>2. PICK g \in Subjects : identities[g] = v
      BY <1>1, <3>1 DEF TablesOK
    <3>3. identities'[g] = v
      BY <1>5, <3>2
    <3>4. \A x \in UserIDs \ {v} : users[x] # users[v]
      BY <1>1, <3>1 DEF TablesOK
    <3> QED
      BY <1>5, <2>2, <3>1, <3>3, <3>4
  <2> QED
    BY <2>1, <2>2
<1>7. ASSUME NEW g \in Subjects, identities'[g] # None
      PROVE  /\ users'[identities'[g]] # None
             /\ \A h \in Subjects \ {g} : identities'[h] # identities'[g]
  <2>1. identities'[g] \in UserIDs
    BY <1>7, CommitEffect DEF Maybe
  <2>2. \A h \in Subjects : identities[h] # None => users[identities[h]] # None
    BY <1>1 DEF TablesOK
  <2>3. CASE identities'[g] = identities[g]
    <3>1. users'[identities'[g]] # None
      BY <1>5, <1>7, <2>1, <2>2, <2>3
    <3>2. ASSUME NEW h \in Subjects \ {g}, identities'[h] = identities'[g] PROVE FALSE
      <4>1. CASE identities'[h] = identities[h]
        BY <1>1, <1>7, <2>3, <3>2, <4>1 DEF TablesOK
      <4>2. CASE identities'[h] # identities[h]
        BY <1>5, <1>7, <2>2, <2>3, <3>2, <4>2
      <4> QED
        BY <4>1, <4>2
    <3> QED
      BY <3>1, <3>2
  <2>4. CASE identities'[g] # identities[g]
    BY <1>5, <2>2, <2>4
  <2> QED
    BY <2>3, <2>4
<1>8. TablesOK'
  BY <1>1, <1>6, <1>7 DEF TablesOK, SessionOK
<1>9. SignedInAsConsented'
  BY <1>1, <1>5 DEF SignedInAsConsented, SessionOK
<1> QED
  BY <1>8, <1>9

\* What the other transactions rely on.
LEMMA CommitOthers ==
  ASSUME ServerOK, NEW t \in Tabs, CommitUser(t), NEW q \in Tabs \ {t},
         req'[q] = req[q], work'[q] = work[q]
  PROVE  RequestOK(q)' /\ WorkOK(q)'
<1>1. RequestOK(q)'
  BY Known DEF RequestOK, CommitUser
<1>2. WorkOK(q) /\ ApartOK(t, q) /\ ApartOK(q, t) /\ work[t].new # None
  BY Known, CommitEffect
<1>3. req[q].pc \in {"createIdentity", "writeEmail", "commitUser"} =>
        req[q].user # work[t].user /\ users'[req[q].user] = users[req[q].user]
  <2> SUFFICES ASSUME req[q].pc \in {"createIdentity", "writeEmail", "commitUser"}
               PROVE  req[q].user # work[t].user /\ users'[req[q].user] = users[req[q].user]
    OBVIOUS
  <2>1. work[q].user = req[q].user /\ req[q].user \in UserIDs /\ req[q].user # None
    BY <1>2 DEF WorkOK
  <2> QED
    BY <1>2, <2>1, CommitEffect DEF ApartOK
<1>4. work[q].new # None => \A v \in UserIDs \ {work[q].user} : users'[v] # work[q].new
  BY <1>2, CommitEffect DEF WorkOK, ApartOK
<1>5. \A u \in UserIDs, g \in Subjects : identities[g] = u => identities'[g] = u
  BY CommitEffect
<1>6. work[q].subject # None => \A g \in Subjects : g = work[q].subject =>
        identities'[g] = identities[g]
  BY <1>2, CommitEffect DEF ApartOK
<1>7. req[q].pc \in Upserting \cup {"createSession"} => req[q].subject \in Subjects
  BY <1>2 DEF WorkOK
<1>8. req[q].pc = "commitUser" => req[q].pc \in Upserting
  BY DEF Upserting
<1>9. req[q].pc = "commitUser" /\ work[q].subject # None =>
        identities'[req[q].subject] = identities[req[q].subject]
  BY <1>2, <1>6, <1>7, <1>8 DEF WorkOK
<1>10. WorkOK(q)'
  <2>1. /\ req[q].pc \in Upserting \cup {"findIdentity", "createSession"} =>
             req[q].subject \in Subjects /\ req[q].email \in Emails
        /\ req[q].pc \notin {"createIdentity", "writeEmail", "commitUser"} =>
             work[q] = NoWork
    BY <1>2 DEF WorkOK
  <2>2. req[q].pc \in {"createIdentity", "writeEmail", "commitUser"} =>
          /\ work[q].user = req[q].user /\ req[q].user \in UserIDs
          /\ work[q].old = users'[req[q].user]
    BY <1>2, <1>3 DEF WorkOK
  <2>3. req[q].pc = "commitUser" =>
          \/ work[q].old = None /\ work[q].subject = req[q].subject
               /\ identities'[req[q].subject] = None
          \/ work[q].old # None /\ work[q].subject = None
    <3>1. req[q].pc = "commitUser" => req[q].subject # None
      BY <1>7, <1>8
    <3> QED
      BY <1>2, <1>9, <3>1 DEF WorkOK
  <2>4. req[q].pc \in {"lockUser", "writeEmail", "createSession"}
            \/ (req[q].pc = "commitUser" /\ work[q].old # None) =>
          req[q].user \in UserIDs /\ identities'[req[q].subject] = req[q].user
    <3>1. req[q].pc \in {"lockUser", "writeEmail", "createSession", "commitUser"} =>
            req[q].pc \in Upserting \cup {"createSession"}
      BY DEF Upserting
    <3> QED
      BY <1>2, <1>5, <1>7, <3>1 DEF WorkOK
  <2>5. /\ req[q].pc = "createIdentity" =>
             work[q].old = None /\ work[q].new = req[q].email /\ work[q].subject = None
        /\ req[q].pc = "writeEmail" => work[q].new = None /\ work[q].subject = None
        /\ req[q].pc = "commitUser" => work[q].new = req[q].email
    BY <1>2 DEF WorkOK
  <2> QED
    BY <1>4, <2>1, <2>2, <2>3, <2>4, <2>5 DEF WorkOK
<1> QED
  BY <1>1, <1>10

LEMMA CommitUserInv ==
  ASSUME ServerOK, NEW t \in Tabs, CommitUser(t)
  PROVE  ServerOK'
<1>1. /\ req[t].pc = "commitUser" /\ req[t].op = "callback"
      /\ work' = [work EXCEPT ![t] = NoWork]
      /\ UNCHANGED <<sessions, redeemed, browser>>
  BY OpOf DEF CommitUser, At, Upserting
<1>2. PICK r \in Request : /\ req' = [req EXCEPT ![t] = r]
                           /\ RequestOK(t)' /\ WorkOK(t)'
  <2>1. CASE Advance(t, "createSession")
    <3> DEFINE r == [req[t] EXCEPT !.pc = "createSession"]
    <3>1. /\ TypeOK /\ WorkOK(t) /\ RequestOK(t) /\ req[t] \in Request
          /\ req[t].subject \in Subjects /\ req[t].email \in Emails
      BY <1>1, Known DEF WorkOK, Upserting
    <3>2. /\ r \in Request /\ r.pc = "createSession" /\ r.user = req[t].user
          /\ r.op = req[t].op /\ r.status = req[t].status /\ r.attempt = req[t].attempt
          /\ r.subject = req[t].subject /\ r.email = req[t].email
      BY <3>1 DEF Request, Serving
    <3>3. req' = [req EXCEPT ![t] = r]
      BY <2>1 DEF Advance
    <3> HIDE DEF r
    <3>4. req'[t] = r /\ work'[t] = NoWork
      BY <1>1, <3>1, <3>3 DEF TypeOK
    <3>5. RequestOK(t)'
      BY <1>1, <3>1, <3>2, <3>4 DEF RequestOK
    <3>6. req[t].user \in UserIDs /\ identities'[req[t].subject] = req[t].user
      BY CommitEffect
    <3>7. WorkOK(t)'
      BY <3>1, <3>2, <3>4, <3>6, NoWorkType DEF WorkOK, Upserting
    <3> QED
      BY <3>2, <3>3, <3>5, <3>7
  <2>2. CASE Answer(t, "500")
    <3>1. "500" \in Statuses
      BY DEF Statuses
    <3>2. PICK r \in Request :
            /\ req' = [req EXCEPT ![t] = r] /\ r.pc = "answered" /\ r.status = "500"
            /\ r.op = req[t].op /\ r.attempt = req[t].attempt
            /\ r.op # "session" \/ r.token = req[t].token
      BY <2>2, <3>1, AnswerType
    <3>3. RequestOK(t) /\ req'[t] = r /\ work'[t] = NoWork
      BY <1>1, <3>2, Known DEF TypeOK
    <3>4. RequestOK(t)'
      BY <1>1, <3>2, <3>3 DEF RequestOK
    <3>5. WorkOK(t)'
      BY <3>2, <3>3, NoWorkType DEF WorkOK, Upserting
    <3> QED
      BY <3>2, <3>4, <3>5
  <2> QED
    BY <2>1, <2>2 DEF CommitUser
<1>3. TypeOK /\ \A q \in Tabs \ {t} : req'[q] = req[q] /\ work'[q] = work[q]
  BY <1>1, <1>2 DEF ServerOK, TypeOK
<1>4. TypeOK'
  BY <1>1, <1>2, <1>3, CommitEffect, NoWorkType DEF TypeOK, browser
<1>5. \A q \in Tabs : RequestOK(q)' /\ WorkOK(q)'
  BY <1>2, <1>3, CommitOthers
<1>6. work'[t] = NoWork
  BY <1>1, <1>3 DEF TypeOK
<1>7. \A p \in Tabs : \A q \in Tabs \ {p} : ApartOK(p, q)'
  BY <1>3, <1>6, NoWorkType DEF ServerOK, ApartOK
<1> QED
  BY <1>4, <1>5, <1>7, CommitTables DEF ServerOK

LEMMA CreateSessionInv ==
  ASSUME ServerOK, NEW t \in Tabs, CreateSession(t)
  PROVE  ServerOK'
<1>1. /\ req[t].pc = "createSession" /\ req[t].op = "callback" /\ work[t] = NoWork
      /\ UNCHANGED <<users, identities, redeemed, browser, work>>
  BY OpOf DEF CreateSession, At
<1>2. PICK status \in {"signed in", "500"} : Answer(t, status)
  BY DEF CreateSession
<1> DEFINE row == [user |-> req[t].user, subject |-> req[t].subject, csrf |-> req[t].id,
                   status |-> "live"]
<1>3. sessions' = [sessions EXCEPT ![req[t].id] = row]
  BY DEF CreateSession
<1>4. /\ TypeOK /\ req[t].user \in UserIDs /\ req[t].subject \in Subjects
      /\ req[t].id \in Values /\ identities[req[t].subject] = req[t].user
  BY <1>1, Known DEF WorkOK, Request
<1>5. row \in Session
  BY <1>4 DEF Session, Maybe
<1>6. /\ row.user = req[t].user /\ row.subject = req[t].subject /\ row.csrf = req[t].id
      /\ row.status = "live"
  OBVIOUS
<1> HIDE DEF row
<1>7. sessions' \in [Values -> Session]
  BY <1>3, <1>5, SessionsType
<1>8. SessionsKept /\ \A s \in Values : SessionOK(s)'
  BY <1>1, <1>3, <1>4, <1>6, SessionsType DEF SessionOK, SessionsKept
<1>9. BrowserOK'
  BY <1>1, SameBrowser
<1>10. work' = [work EXCEPT ![t] = NoWork]
  BY <1>1, <1>4 DEF TypeOK
<1>11. status \in Statuses
  BY DEF Statuses
<1> QED
  BY <1>1, <1>2, <1>7, <1>8, <1>9, <1>10, <1>11, AnswerInv

\* The steps of the other requests.

LiveType == \A s \in Maybe(Values) : Live(s) => s \in Values /\ sessions[s].csrf \in Values

LEMMA LiveSessions ==
  ASSUME ServerOK
  PROVE  LiveType
BY SessionsType DEF LiveType, Live, SessionOK, Maybe

\* One that goes on to pc, with a token.
LEMMA ProceedInv ==
  ASSUME ServerOK, NEW t \in Tabs, req[t].pc \in {"load", "rotate"},
         NEW r \in Request, req' = [req EXCEPT ![t] = r],
         r.op = req[t].op, r.status = req[t].status, r.attempt = req[t].attempt,
         \/ r.pc \in {"rotate", "access"} /\ req[t].op # "logout"
         \/ r.pc = "revoke" /\ req[t].op = "logout",
         r.pc = "access" => r.token \in Values,
         r.pc = "revoke" => /\ r.cookies.session \in Values
                            /\ sessions[r.cookies.session].status # "none",
         UNCHANGED <<users, identities, redeemed, browser, work>>,
         sessions' \in [Values -> Session], \A s \in Values : SessionOK(s)', SessionsKept
  PROVE  ServerOK'
<1>1. TypeOK /\ RequestOK(t) /\ req'[t] = r /\ work[t] = NoWork
  BY OpOf DEF ServerOK, TypeOK
<1>2. req[t].op \in {"session", "mutate", "logout"} /\ req[t].status = "none"
  <2>1. req[t].op \in Ops
    BY <1>1 DEF TypeOK, Request
  <2> QED
    BY <1>1, <2>1 DEF RequestOK, Ops, Asking, Upserting
<1>3. RequestOK(t)'
  BY <1>1, <1>2 DEF RequestOK, SessionsKept
<1>4. WorkOK(t)'
  BY <1>1, NoWorkType DEF WorkOK, Upserting
<1>5. BrowserOK'
  BY SameBrowser
<1> QED
  BY <1>1, <1>3, <1>4, <1>5, QuietFrame

LEMMA LoadInv ==
  ASSUME ServerOK, NEW t \in Tabs, Load(t)
  PROVE  ServerOK'
<1>1. /\ req[t].pc = "load" /\ req[t].op # "logout" /\ req[t].op # "none" /\ work[t] = NoWork
      /\ UNCHANGED <<tables, redeemed, browser, work>>
      /\ TypeOK /\ req[t] \in Request /\ req[t].cookies \in Jar
  BY OpOf, Known DEF Load, At, Serving, Request
<1>2. sessions' \in [Values -> Session] /\ SessionsKept /\ \A s \in Values : SessionOK(s)'
  BY <1>1, SessionsType DEF SessionOK, SessionsKept, tables
<1>3. BrowserOK'
  BY <1>1, SameBrowser
<1>4. CASE Answer(t, Unauthenticated(req[t].op))
  <2>1. CASE req[t].op = "session"
    <3>1. Answer(t, "anonymous")
      BY <1>4, <2>1 DEF Unauthenticated
    <3>2. "anonymous" \in Statuses /\ work' = [work EXCEPT ![t] = NoWork]
      BY <1>1 DEF Statuses, TypeOK
    <3> QED
      BY <1>1, <1>2, <1>3, <2>1, <3>1, <3>2, AnswerInv DEF tables
  <2>2. CASE req[t].op # "session"
    <3>1. Answer(t, "401")
      BY <1>4, <2>2 DEF Unauthenticated
    <3> QED
      BY <1>1, <1>3, <3>1, FailInv
  <2> QED
    BY <2>1, <2>2
<1>5. CASE Advance(t, "rotate")
  <2> DEFINE r == [req[t] EXCEPT !.pc = "rotate"]
  <2>1. /\ r \in Request /\ r.pc = "rotate" /\ r.op = req[t].op /\ r.status = req[t].status
        /\ r.attempt = req[t].attempt
    BY <1>1 DEF Request, Serving
  <2>2. req' = [req EXCEPT ![t] = r]
    BY <1>5 DEF Advance
  <2> HIDE DEF r
  <2> QED
    BY <1>1, <1>2, <2>1, <2>2, ProceedInv DEF tables
<1>6. ASSUME Live(req[t].cookies.session),
             req[t].cookies.csrf = sessions[req[t].cookies.session].csrf,
             req' = [req EXCEPT ![t].pc = "access", ![t].token = req[t].cookies.csrf]
      PROVE  ServerOK'
  <2> DEFINE r == [req[t] EXCEPT !.pc = "access", !.token = req[t].cookies.csrf]
  <2>1. req[t].cookies.csrf \in Values /\ req[t].cookies.csrf \in Maybe(Values)
    BY <1>1, <1>6, LiveSessions DEF LiveType, Jar, Maybe
  <2>2. /\ r \in Request /\ r.pc = "access" /\ r.op = req[t].op /\ r.status = req[t].status
        /\ r.attempt = req[t].attempt /\ r.token = req[t].cookies.csrf
    BY <1>1, <2>1 DEF Request, Serving
  <2>3. req' = [req EXCEPT ![t] = r]
    BY <1>1, <1>6 DEF TypeOK
  <2> HIDE DEF r
  <2> QED
    BY <1>1, <1>2, <2>1, <2>2, <2>3, ProceedInv DEF tables
<1> QED
  BY <1>4, <1>5, <1>6 DEF Load

LEMMA LoadForLogoutInv ==
  ASSUME ServerOK, NEW t \in Tabs, LoadForLogout(t)
  PROVE  ServerOK'
<1>1. /\ req[t].pc = "load" /\ req[t].op = "logout" /\ work[t] = NoWork
      /\ UNCHANGED <<tables, redeemed, browser, work>>
      /\ TypeOK /\ req[t] \in Request
  BY OpOf, Known DEF LoadForLogout, At
<1>2. BrowserOK'
  BY <1>1, SameBrowser
<1>3. CASE Answer(t, "401") \/ Answer(t, "403")
  BY <1>1, <1>2, <1>3, FailInv
<1>4. ASSUME Live(req[t].cookies.session), Advance(t, "revoke") PROVE ServerOK'
  <2> DEFINE r == [req[t] EXCEPT !.pc = "revoke"]
  <2>1. /\ r \in Request /\ r.pc = "revoke" /\ r.op = req[t].op /\ r.status = req[t].status
        /\ r.attempt = req[t].attempt /\ r.cookies = req[t].cookies
    BY <1>1 DEF Request, Serving
  <2>2. req' = [req EXCEPT ![t] = r]
    BY <1>4 DEF Advance
  <2>3. /\ sessions' \in [Values -> Session] /\ \A s \in Values : SessionOK(s)'
        /\ SessionsKept
    BY <1>1, SessionsType DEF SessionOK, SessionsKept, tables
  <2> HIDE DEF r
  <2>4. /\ r.cookies.session \in Values
        /\ sessions[r.cookies.session].status # "none"
    <3>1. req[t].cookies.session \in Maybe(Values)
      BY <1>1 DEF Request, Jar
    <3> QED
      BY <1>4, <2>1, <3>1, LiveSessions DEF LiveType, Live
  <2> QED
    BY <1>1, <2>1, <2>2, <2>3, <2>4, ProceedInv DEF tables
<1> QED
  BY <1>3, <1>4 DEF LoadForLogout

LEMMA RotateInv ==
  ASSUME ServerOK, NEW t \in Tabs, Rotate(t)
  PROVE  ServerOK'
<1>1. /\ req[t].pc = "rotate" /\ req[t].op \in {"session", "mutate"} /\ TypeOK
      /\ req[t] \in Request /\ req[t].cookies \in Jar /\ req[t].id \in Values
      /\ UNCHANGED <<users, identities, redeemed, browser, work>>
  BY OpOf, Known DEF Rotate, At, Request
<1> DEFINE r == [req[t] EXCEPT !.pc = "access", !.token = req[t].id]
<1>2. /\ r \in Request /\ r.pc = "access" /\ r.op = req[t].op /\ r.status = req[t].status
      /\ r.attempt = req[t].attempt /\ r.token = req[t].id
  BY <1>1 DEF Request, Serving, Maybe
<1>3. req' = [req EXCEPT ![t] = r]
  BY <1>1 DEF Rotate, TypeOK
<1> HIDE DEF r
<1>4. PICK s : s = req[t].cookies.session
  OBVIOUS
<1>5. sessions' = IF Live(s) THEN [sessions EXCEPT ![s].csrf = req[t].id] ELSE sessions
  BY <1>4 DEF Rotate
<1>6. Live(s) => s \in Values
  BY <1>1, <1>4, LiveSessions DEF LiveType, Jar
<1>7. sessions' \in [Values -> Session]
  BY <1>1, <1>5, <1>6, SessionsType DEF Session, Maybe
<1>8. SessionsKept /\ \A v \in Values : SessionOK(v)'
  BY <1>1, <1>5, <1>6, SessionsType DEF SessionOK, SessionsKept, Session
<1> QED
  BY <1>1, <1>2, <1>3, <1>7, <1>8, ProceedInv

LEMMA AccessInv ==
  ASSUME ServerOK, NEW t \in Tabs, Access(t)
  PROVE  ServerOK'
<1>1. /\ req[t].pc = "access" /\ req[t].op \in {"session", "mutate"} /\ work[t] = NoWork
      /\ req[t].token \in Values /\ TypeOK
      /\ UNCHANGED <<tables, redeemed, browser, work>>
  BY OpOf, Known DEF Access, At, RequestOK
<1>2. sessions' \in [Values -> Session] /\ SessionsKept /\ \A s \in Values : SessionOK(s)'
  BY <1>1, SessionsType DEF SessionOK, SessionsKept, tables
<1>3. BrowserOK'
  BY <1>1, SameBrowser
<1>4. CASE req[t].op = "session"
  <2>1. Answer(t, "session")
    BY <1>4 DEF Access
  <2>2. "session" \in Statuses /\ work' = [work EXCEPT ![t] = NoWork]
    BY <1>1 DEF Statuses, TypeOK
  <2> QED
    BY <1>1, <1>2, <1>3, <1>4, <2>1, <2>2, AnswerInv DEF tables
<1>5. CASE req[t].op # "session"
  <2>1. Answer(t, "served") \/ Answer(t, "403")
    <3>1. CASE ValidHeader(t)
      BY <1>5, <3>1 DEF Access
    <3>2. CASE ~ValidHeader(t)
      BY <1>5, <3>2 DEF Access
    <3> QED
      BY <3>1, <3>2
  <2> QED
    BY <1>1, <1>3, <2>1, FailInv
<1> QED
  BY <1>4, <1>5

LEMMA RevokeInv ==
  ASSUME ServerOK, NEW t \in Tabs, Revoke(t)
  PROVE  ServerOK'
<1>1. /\ req[t].pc = "revoke" /\ req[t].op = "logout" /\ work[t] = NoWork /\ TypeOK
      /\ Answer(t, "signed out")
      /\ UNCHANGED <<users, identities, redeemed, browser, work>>
  BY OpOf, Known DEF Revoke, At
<1>2. PICK s \in Values : s = req[t].cookies.session /\ sessions[s].status # "none"
  BY <1>1, Known DEF RequestOK
<1>3. sessions' = [sessions EXCEPT ![s].status = "ended"]
  BY <1>2 DEF Revoke
<1> DEFINE row == [sessions[s] EXCEPT !.status = "ended"]
<1>4. /\ row \in Session /\ row.status = "ended" /\ row.user = sessions[s].user
      /\ row.subject = sessions[s].subject /\ row.csrf = sessions[s].csrf
  BY SessionsType DEF Session
<1>5. sessions' = [sessions EXCEPT ![s] = row]
  BY <1>3
<1> HIDE DEF row
<1>6. sessions' \in [Values -> Session]
  BY <1>4, <1>5, SessionsType
<1>7. SessionsKept /\ \A v \in Values : SessionOK(v)'
  BY <1>1, <1>2, <1>4, <1>5, SessionsType DEF SessionOK, SessionsKept
<1>8. BrowserOK'
  BY <1>1, SameBrowser
<1>9. "signed out" \in Statuses /\ work' = [work EXCEPT ![t] = NoWork]
  BY <1>1 DEF Statuses, TypeOK
<1> QED
  BY <1>1, <1>6, <1>7, <1>8, <1>9, AnswerInv

-----------------------------------------------------------------------------
\* The steps of the browser, and the end of a session, keep ServerOK.

\* A tab that starts something else: r is as good as Idle.
LEMMA BrowserFrame ==
  ASSUME ServerOK, NEW t \in Tabs, NEW r \in Request, req' = [req EXCEPT ![t] = r],
         req[t].pc \in {"idle", "consent", "answered"},
         \/ r.op = "none" /\ r.pc = "idle"
         \/ r.op = "none" /\ r.pc = "consent" /\ r.attempt \in Values
         \/ r.op = "callback" /\ r.pc = "authenticate" /\ r.attempt \in Values
         \/ r.op \in Asking /\ r.pc = "load",
         r.status = "none", UNCHANGED <<tables, work>>, BrowserOK'
  PROVE  ServerOK'
<1>1. TypeOK /\ RequestOK(t) /\ req'[t] = r /\ work[t] = NoWork
  BY OpOf DEF ServerOK, TypeOK
<1>2. RequestOK(t)'
  BY <1>1 DEF RequestOK, Asking
<1>3. WorkOK(t)'
  BY <1>1, NoWorkType DEF WorkOK, Upserting
<1>4. sessions' \in [Values -> Session] /\ SessionsKept /\ \A s \in Values : SessionOK(s)'
  BY SessionsType DEF SessionOK, SessionsKept, tables
<1> QED
  BY <1>1, <1>2, <1>3, <1>4, QuietFrame DEF tables

\* The next number is one that was not used.
LEMMA NextNumber ==
  ASSUME ServerOK, issued < MaxRequests
  PROVE  issued + 1 \in Values
BY DEF ServerOK, TypeOK, Values

LEMMA StartInv ==
  ASSUME ServerOK, NEW t \in Tabs, Start(t)
  PROVE  ServerOK'
<1>1. PICK n \in Values : n = issued + 1
  BY NextNumber DEF Start
<1> DEFINE r == [Idle EXCEPT !.pc = "consent", !.attempt = n]
<1>2. /\ r \in Request /\ r.pc = "consent" /\ r.op = "none" /\ r.status = "none"
      /\ r.attempt = n
  BY IdleType DEF Request, Maybe
<1>3. /\ req' = [req EXCEPT ![t] = r] /\ req[t].pc \in {"idle", "consent", "answered"}
      /\ issued' = n /\ jar' = [jar EXCEPT !.attempt = n]
      /\ UNCHANGED <<tables, redeemed, page, work, sole>> /\ TypeOK
  BY <1>1 DEF Start, ServerOK
<1> HIDE DEF r
<1>4. BrowserOK'
  BY <1>3 DEF BrowserOK, TypeOK, Jar, Maybe
<1> QED
  BY <1>2, <1>3, <1>4, BrowserFrame

\* What is sent.
LEMMA SendType ==
  ASSUME ServerOK, NEW t \in Tabs, NEW op \in Ops, NEW pc \in {"load", "authenticate"},
         NEW cookies \in Jar, Send(t, op, pc, cookies)
  PROVE  /\ BrowserOK' /\ UNCHANGED <<tables, redeemed, jar, page, work>>
         /\ \E r \in Request :
              /\ req' = [req EXCEPT ![t] = r] /\ r.pc = pc /\ r.op = op
              /\ r.status = "none" /\ r.attempt = req[t].attempt /\ r.cookies = cookies
<1>1. PICK n \in Values : n = issued + 1
  BY NextNumber DEF Send
<1> DEFINE r == [Idle EXCEPT !.pc = pc, !.op = op, !.id = n, !.cookies = cookies,
                             !.attempt = req[t].attempt]
<1>2. TypeOK /\ req[t].attempt \in Maybe(Values)
  BY Known DEF Request
<1>3. pc \in Serving
  BY DEF Serving
<1>4. /\ r \in Request /\ r.pc = pc /\ r.op = op /\ r.status = "none"
      /\ r.attempt = req[t].attempt /\ r.cookies = cookies
  BY <1>2, <1>3, IdleType DEF Request
<1>5. /\ req' = [req EXCEPT ![t] = r] /\ issued' = n
      /\ UNCHANGED <<tables, redeemed, jar, page, work>>
  BY <1>1 DEF Send
<1> HIDE DEF r
<1>6. sole' \in Maybe(Tabs)
  BY DEF Send, Maybe
<1>7. BrowserOK'
  BY <1>2, <1>5, <1>6 DEF BrowserOK, TypeOK
<1> QED
  BY <1>4, <1>5, <1>7

LEMMA CallbackInv ==
  ASSUME ServerOK, NEW t \in Tabs, Callback(t)
  PROVE  ServerOK'
<1>1. req[t].pc = "consent" /\ req[t].attempt \in Values /\ jar \in Jar
  BY Known DEF Callback, At, RequestOK, TypeOK
<1>2. PICK c \in Jar : c = [NoCookies EXCEPT !.attempt = jar.attempt]
  BY <1>1, NoCookiesType DEF Jar
<1>3. "callback" \in Ops /\ Send(t, "callback", "authenticate", c)
  BY <1>2 DEF Ops, Callback
<1> QED
  BY <1>1, <1>3, SendType, BrowserFrame

LEMMA AskInv ==
  ASSUME ServerOK, NEW t \in Tabs, Ask(t)
  PROVE  ServerOK'
<1>1. req[t].pc = "idle" /\ jar \in Jar
  BY Known DEF Ask, At, TypeOK
<1>2. PICK c \in Jar : c = [jar EXCEPT !.attempt = None]
  BY <1>1 DEF Jar, Maybe
<1>3. PICK op \in Asking : Send(t, op, "load", c)
  BY <1>2 DEF Ask
<1>4. op \in Ops
  BY DEF Ops
<1> QED
  BY <1>1, <1>3, <1>4, SendType, BrowserFrame

LEMMA NewJarType ==
  ASSUME ServerOK, NEW t \in Tabs
  PROVE  NewJar(t) \in Jar
<1>1. /\ jar \in Jar /\ req[t] \in Request /\ req[t].token \in Maybe(Values)
      /\ req[t].id \in Values
  BY Known DEF TypeOK, Request
<1>2. /\ [attempt |-> None, session |-> req[t].id, csrf |-> req[t].id] \in Jar
      /\ [jar EXCEPT !.attempt = None] \in Jar
      /\ [jar EXCEPT !.csrf = req[t].token] \in Jar
      /\ [jar EXCEPT !.session = None, !.csrf = None] \in Jar
  BY <1>1 DEF Jar, Maybe
<1>3. \/ NewJar(t) = [attempt |-> None, session |-> req[t].id, csrf |-> req[t].id]
      \/ NewJar(t) = [jar EXCEPT !.attempt = None]
      \/ NewJar(t) = [jar EXCEPT !.csrf = req[t].token]
      \/ NewJar(t) = [jar EXCEPT !.session = None, !.csrf = None]
      \/ NewJar(t) = jar
  BY DEF NewJar
<1> QED
  BY <1>1, <1>2, <1>3

LEMMA ReceiveInv ==
  ASSUME ServerOK, NEW t \in Tabs, Receive(t)
  PROVE  ServerOK'
<1>1. /\ req[t].pc = "answered" /\ req' = [req EXCEPT ![t] = Idle]
      /\ UNCHANGED <<tables, redeemed, issued, work>> /\ jar' = NewJar(t) /\ TypeOK
      /\ req[t].token \in Maybe(Values)
  BY Known DEF Receive, At, Request
<1>2. /\ [page EXCEPT ![t] = None] \in [Tabs -> Maybe(Values)]
      /\ [page EXCEPT ![t] = req[t].token] \in [Tabs -> Maybe(Values)]
  BY <1>1 DEF TypeOK, Maybe
<1>3. page' \in {page, [page EXCEPT ![t] = None], [page EXCEPT ![t] = req[t].token]}
  BY DEF Receive
<1>4. page' \in [Tabs -> Maybe(Values)]
  BY <1>1, <1>2, <1>3 DEF TypeOK
<1>5. sole' \in Maybe(Tabs)
  BY <1>1 DEF Receive, TypeOK, Maybe
<1>6. BrowserOK'
  BY <1>1, <1>4, <1>5, NewJarType DEF BrowserOK, TypeOK
<1> QED
  BY <1>1, <1>6, IdleType, BrowserFrame

LEMMA LoseInv ==
  ASSUME ServerOK, NEW t \in Tabs, Lose(t)
  PROVE  ServerOK'
<1>1. /\ req[t].pc = "answered" /\ TypeOK /\ RequestOK(t)
      /\ UNCHANGED <<tables, redeemed, jar, page, issued, work>>
  BY Known DEF Lose, At
<1>2. sole' \in Maybe(Tabs)
  BY <1>1 DEF Lose, TypeOK, Maybe
<1>3. BrowserOK'
  BY <1>1, <1>2 DEF BrowserOK, TypeOK
<1>4. CASE req[t].op = "callback"
  <2>1. PICK n \in Values : n = req[t].attempt
    BY <1>1, <1>4 DEF RequestOK
  <2> DEFINE r == [Idle EXCEPT !.pc = "consent", !.attempt = n]
  <2>2. /\ r \in Request /\ r.pc = "consent" /\ r.op = "none" /\ r.status = "none"
        /\ r.attempt = n
    BY IdleType DEF Request, Maybe
  <2>3. req' = [req EXCEPT ![t] = r]
    BY <1>4, <2>1 DEF Lose
  <2> HIDE DEF r
  <2> QED
    BY <1>1, <1>3, <2>2, <2>3, BrowserFrame
<1>5. CASE req[t].op # "callback"
  <2>1. req' = [req EXCEPT ![t] = Idle]
    BY <1>5 DEF Lose
  <2> QED
    BY <1>1, <1>3, <2>1, IdleType, BrowserFrame
<1> QED
  BY <1>4, <1>5

LEMMA LeaveInv ==
  ASSUME ServerOK, NEW t \in Tabs, Leave(t)
  PROVE  ServerOK'
<1>1. /\ req[t].pc = "consent" /\ req' = [req EXCEPT ![t] = Idle]
      /\ UNCHANGED <<tables, redeemed, browser, work>>
  BY DEF Leave, At
<1>2. BrowserOK'
  BY <1>1, SameBrowser
<1> QED
  BY <1>1, <1>2, IdleType, BrowserFrame

LEMMA EndSessionInv ==
  ASSUME ServerOK, NEW s \in Values, EndSession(s)
  PROVE  ServerOK'
<1>1. /\ TypeOK /\ sessions[s].status = "live" /\ sole' = None
      /\ sessions' = [sessions EXCEPT ![s].status = "ended"]
      /\ UNCHANGED <<users, identities, redeemed, jar, page, issued, req, work>>
  BY DEF EndSession, Live, ServerOK
<1> DEFINE row == [sessions[s] EXCEPT !.status = "ended"]
<1>2. /\ row \in Session /\ row.status = "ended" /\ row.user = sessions[s].user
      /\ row.subject = sessions[s].subject /\ row.csrf = sessions[s].csrf
  BY SessionsType DEF Session
<1>3. sessions' = [sessions EXCEPT ![s] = row]
  BY <1>1
<1> HIDE DEF row
<1>4. sessions' \in [Values -> Session] /\ SessionsKept /\ \A v \in Values : SessionOK(v)'
  BY <1>1, <1>2, <1>3, SessionsType DEF SessionOK, SessionsKept
<1>5. TypeOK'
  BY <1>1, <1>4 DEF TypeOK, Maybe
<1>6. TablesOK' /\ SignedInAsConsented'
  BY <1>1, <1>4 DEF ServerOK, TablesOK, SignedInAsConsented, SessionOK
<1>7. ASSUME NEW t \in Tabs PROVE RequestOK(t)' /\ WorkOK(t)'
  <2>1. RequestOK(t) /\ WorkOK(t)
    BY DEF ServerOK
  <2>2. RequestOK(t)'
    BY <1>1, <1>4, <2>1 DEF RequestOK, SessionsKept
  <2>3. WorkOK(t)'
    BY <1>1, <2>1 DEF WorkOK
  <2> QED
    BY <2>2, <2>3
<1>8. \A t \in Tabs : \A q \in Tabs \ {t} : ApartOK(t, q)'
  BY <1>1 DEF ServerOK, ApartOK
<1> QED
  BY <1>5, <1>6, <1>7, <1>8 DEF ServerOK

-----------------------------------------------------------------------------
LEMMA InitServer == Init => ServerOK
<1> SUFFICES ASSUME Init PROVE ServerOK
  OBVIOUS
<1>1. PICK past \in Pasts :
        LET here == past.here IN
        /\ identities = [g \in Subjects |-> IF g \in past.known THEN EarlierUser[g] ELSE None]
        /\ users = [u \in UserIDs |->
             IF \E g \in past.known : EarlierUser[g] = u
             THEN EarlierEmail[CHOOSE g \in past.known : EarlierUser[g] = u] ELSE None]
        /\ sessions = [s \in Values |->
             IF here # None /\ s = 0
             THEN [user |-> EarlierUser[here], subject |-> here, csrf |-> 0,
                   status |-> "live"]
             ELSE NoSession]
        /\ jar = IF here # None THEN [attempt |-> None, session |-> 0, csrf |-> 0]
                               ELSE NoCookies
  BY DEF Init
<1>2. /\ page = [t \in Tabs |-> None] /\ req = [t \in Tabs |-> Idle]
      /\ work = [t \in Tabs |-> NoWork] /\ redeemed = {} /\ issued = 0 /\ sole = None
  BY DEF Init
<1>3. past.known \subseteq Subjects /\ past.here \in past.known \cup {None}
  OBVIOUS
<1>4. \A g \in Subjects : /\ EarlierUser[g] \in UserIDs /\ EarlierEmail[g] \in Emails
                          /\ EarlierUser[g] # None /\ EarlierEmail[g] # None
  OBVIOUS
<1>5. \A g \in Subjects : identities[g] = IF g \in past.known THEN EarlierUser[g] ELSE None
  BY <1>1
<1>6. \A u \in UserIDs :
        \/ users[u] = None /\ \A g \in past.known : EarlierUser[g] # u
        \/ \E g \in past.known : EarlierUser[g] = u /\ users[u] = EarlierEmail[g]
  BY <1>1
<1>7. users \in [UserIDs -> Maybe(Emails)] /\ identities \in [Subjects -> Maybe(UserIDs)]
  BY <1>1, <1>3, <1>4 DEF Maybe
<1>8. /\ NoSession \in Session /\ NoSession.status = "none"
  BY DEF NoSession, Session, Maybe
<1>9. ASSUME NEW s \in Values
      PROVE  sessions[s] \in Session /\ SessionOK(s)
  <2>1. CASE past.here # None /\ s = 0
    <3>1. PICK h \in past.known : h = past.here
      BY <1>3, <2>1
    <3>2. sessions[s] = [user |-> EarlierUser[h], subject |-> h, csrf |-> 0, status |-> "live"]
      BY <1>1, <2>1, <3>1
    <3>3. /\ h \in Subjects /\ EarlierUser[h] \in UserIDs /\ identities[h] = EarlierUser[h]
          /\ 0 \in Values
      BY <1>3, <1>4, <1>5, <3>1, ValuesType
    <3> QED
      BY <3>2, <3>3 DEF Session, SessionOK, Maybe
  <2>2. CASE ~(past.here # None /\ s = 0)
    <3>1. sessions[s] = NoSession
      BY <1>1, <2>2
    <3> QED
      BY <1>8, <3>1 DEF SessionOK
  <2> QED
    BY <2>1, <2>2
<1>10. sessions \in [Values -> Session]
  <2>1. sessions = [s \in Values |-> sessions[s]]
    BY <1>1
  <2> QED
    BY <1>9, <2>1
<1>11. jar \in Jar
  <2>1. [attempt |-> None, session |-> 0, csrf |-> 0] \in Jar
    BY ValuesType DEF Jar, Maybe
  <2> QED
    BY <1>1, <2>1, NoCookiesType
<1>12. TypeOK
  BY <1>2, <1>7, <1>10, <1>11, IdleType, NoWorkType, ValuesType DEF TypeOK, Maybe
<1>13. ASSUME NEW u \in UserIDs, users[u] # None
       PROVE  /\ \E g \in Subjects : identities[g] = u
              /\ \A v \in UserIDs \ {u} : users[v] # users[u]
  <2>1. PICK g \in past.known : EarlierUser[g] = u /\ users[u] = EarlierEmail[g]
    BY <1>6, <1>13
  <2>2. g \in Subjects /\ identities[g] = u
    BY <1>3, <1>5, <2>1
  <2>3. ASSUME NEW v \in UserIDs \ {u}, users[v] = users[u] PROVE FALSE
    <3>1. PICK h \in past.known : EarlierUser[h] = v /\ users[v] = EarlierEmail[h]
      BY <1>6, <1>13, <2>3
    <3>2. h # g /\ h \in Subjects /\ EarlierEmail[h] = EarlierEmail[g]
      BY <1>3, <2>1, <2>3, <3>1
    <3> QED
      BY <2>2, <3>2
  <2> QED
    BY <2>2, <2>3
<1>14. ASSUME NEW g \in Subjects, identities[g] # None
       PROVE  /\ users[identities[g]] # None
              /\ \A h \in Subjects \ {g} : identities[h] # identities[g]
  <2>1. g \in past.known /\ identities[g] = EarlierUser[g]
    BY <1>5, <1>14
  <2>2. users[EarlierUser[g]] # None
    BY <1>3, <1>4, <1>6, <2>1
  <2>3. \A h \in Subjects \ {g} : identities[h] # identities[g]
    BY <1>4, <1>5, <2>1
  <2> QED
    BY <2>1, <2>2, <2>3
<1>15. TablesOK /\ SignedInAsConsented
  BY <1>9, <1>13, <1>14 DEF TablesOK, SignedInAsConsented, SessionOK
<1>16. \A t \in Tabs : RequestOK(t)
  BY <1>2, IdleType DEF RequestOK
<1>17. \A t \in Tabs : WorkOK(t)
  BY <1>2, IdleType, NoWorkType DEF WorkOK, Upserting
<1>18. \A t \in Tabs : \A q \in Tabs \ {t} : ApartOK(t, q)
  BY <1>2, NoWorkType DEF ApartOK
<1> QED
  BY <1>12, <1>15, <1>16, <1>17, <1>18 DEF ServerOK

LEMMA StutterServer == ServerOK /\ UNCHANGED vars => ServerOK'
<1> SUFFICES ASSUME ServerOK, UNCHANGED vars PROVE ServerOK'
  OBVIOUS
<1>1. UNCHANGED <<users, identities, sessions, redeemed, jar, page, req, work, issued, sole>>
  BY DEF vars, tables, browser
<1>2. TypeOK' /\ TablesOK' /\ SignedInAsConsented'
  BY <1>1 DEF ServerOK, TypeOK, TablesOK, SignedInAsConsented
<1>3. ASSUME NEW t \in Tabs PROVE RequestOK(t)' /\ WorkOK(t)'
  <2>1. RequestOK(t) /\ WorkOK(t)
    BY DEF ServerOK
  <2>2. RequestOK(t)'
    BY <1>1, <2>1 DEF RequestOK
  <2>3. WorkOK(t)'
    BY <1>1, <2>1 DEF WorkOK
  <2> QED
    BY <2>2, <2>3
<1>4. \A t \in Tabs : \A q \in Tabs \ {t} : ApartOK(t, q)'
  BY <1>1 DEF ServerOK, ApartOK
<1> QED
  BY <1>2, <1>3, <1>4 DEF ServerOK

LEMMA ServeInv ==
  ASSUME ServerOK, NEW t \in Tabs, Serve(t)
  PROVE  ServerOK'
BY AuthenticateInv, FindIdentityInv, CreateUserInv, CreateIdentityInv, LockUserInv,
   WriteEmailInv, CommitUserInv, CreateSessionInv, LoadInv, LoadForLogoutInv, RotateInv,
   AccessInv, RevokeInv DEF Serve

\* Whoever waits in a cycle waits for somebody, which only a transaction does.
LEMMA Waiting ==
  ASSUME NEW t \in Tabs, DeadlockAbort(t)
  PROVE  req[t].pc \in Serving
<1> DEFINE waits == [q \in Tabs |-> Blockers(q)]
<1>1. waits[t] # {}
  <2>1. (waits[t] \subseteq {} /\ \A q \in {} : waits[q] \subseteq {}) => t \in {}
    BY DEF DeadlockAbort, InCycle
  <2> QED
    BY <2>1
<1>2. Blockers(t) # {}
  BY <1>1
<1> QED
  BY <1>2 DEF Blockers, At, Serving, Upserting

LEMMA AbortInv ==
  ASSUME ServerOK, NEW t \in Tabs, Interrupt(t) \/ DeadlockAbort(t)
  PROVE  ServerOK'
<1>1. req[t].pc \in Serving /\ Rollback(t)
  BY Waiting DEF Interrupt, DeadlockAbort
<1> QED
  BY <1>1, OpOf, RollbackInv

-----------------------------------------------------------------------------
\* Pages that are alone.

\* A step of a request in flight is nothing to a page that is alone elsewhere,
\* for there is none.
LEMMA Elsewhere ==
  ASSUME PagesOK, NEW t \in Tabs, InFlight(t), sole # t, sole' \in {sole, None}
  PROVE  PagesOK'
<1>1. \A q \in Tabs : sole' # q
  BY DEF PagesOK, SoleOK
<1> QED
  BY <1>1 DEF PagesOK, SoleOK, TokenOK

LEMMA NobodySole ==
  ASSUME sole' = None
  PROVE  PagesOK'
<1>1. \A q \in Tabs : sole' # q
  OBVIOUS
<1> QED
  BY <1>1 DEF PagesOK, SoleOK, TokenOK

\* A page that is alone asks for its session or for something else.
LEMMA SoleRequest ==
  ASSUME ServerOK, PagesOK, NEW t \in Tabs, sole = t, req[t].pc \in Serving
  PROVE  /\ req[t].op \in {"session", "mutate"} /\ req[t].pc \in {"load", "rotate", "access"}
         /\ InFlight(t)
<1>1. InFlight(t)
  BY DEF InFlight
<1>2. RequestOK(t) /\ SoleOK(t) /\ req[t].op # "none" /\ req[t].pc # "answered"
  BY Known, OpOf DEF PagesOK, Serving, Upserting
<1> QED
  BY <1>1, <1>2 DEF SoleOK, RequestOK

\* What is left to show of a step of the server for a page that is alone.
LEMMA AloneFrame ==
  ASSUME ServerOK, PagesOK, NEW t \in Tabs, sole = t, req[t].pc \in Serving,
         NEW r \in Request, req' = [req EXCEPT ![t] = r], UNCHANGED browser,
         r.op = req[t].op, r.pc \in {"rotate", "access", "answered"},
         r.pc # "answered" => r.cookies.session = req[t].cookies.session,
         r.op = "mutate" => /\ r.pc # "rotate" /\ (r.pc = "access" => r.token = page[t])
                            /\ r.status \notin {"401", "403", "session"}
                            /\ sessions' = sessions,
         r.pc \in {"rotate", "access"} \/ r.status = "session" =>
           jar.session # None /\ sessions'[jar.session].status = "live",
         r.pc = "access" \/ r.status = "session" =>
           sessions'[jar.session].csrf = r.token
  PROVE  PagesOK'
<1>1. /\ req'[t] = r /\ \A q \in Tabs \ {t} : req'[q] = req[q]
      /\ SoleOK(t) /\ TokenOK(t) /\ req[t].op \in {"session", "mutate"} /\ InFlight(t)
      /\ UNCHANGED <<jar, page, sole>>
  BY SoleRequest, Known DEF TypeOK, PagesOK, browser
<1>2. SoleOK(t)'
  <2>1. "answered" \notin Serving
    BY DEF Serving, Upserting
  <2> QED
    BY <1>1, <2>1 DEF SoleOK, InFlight, Live
<1>3. TokenOK(t)'
  BY <1>1 DEF TokenOK, Live
<1>4. \A q \in Tabs \ {t} : sole' # q
  BY <1>1
<1>5. ASSUME NEW q \in Tabs \ {t} PROVE SoleOK(q)' /\ TokenOK(q)'
  BY <1>4 DEF SoleOK, TokenOK
<1> QED
  BY <1>2, <1>3, <1>5 DEF PagesOK

\* An error that is not the user's is no refusal.
LEMMA RollbackPages ==
  ASSUME ServerOK, PagesOK, NEW t \in Tabs, req[t].pc \in Serving, Rollback(t)
  PROVE  PagesOK'
<1>1. CASE sole # t
  BY <1>1, Elsewhere DEF Rollback, browser, InFlight
<1>2. CASE sole = t
  <2>1. "500" \in Statuses /\ Answer(t, "500") /\ UNCHANGED browser /\ sessions' = sessions
    BY DEF Statuses, Rollback, tables
  <2>2. PICK r \in Request :
          /\ req' = [req EXCEPT ![t] = r] /\ r.pc = "answered" /\ r.status = "500"
          /\ r.op = req[t].op /\ r.attempt = req[t].attempt
          /\ r.op # "session" \/ r.token = req[t].token
    BY <2>1, AnswerType
  <2> QED
    BY <1>2, <2>1, <2>2, AloneFrame
<1> QED
  BY <1>1, <1>2

\* What the page is told the server has, and what it sends is what it was told.
LEMMA LoadPages ==
  ASSUME ServerOK, PagesOK, NEW t \in Tabs, Load(t)
  PROVE  PagesOK'
<1>1. /\ req[t].pc = "load" /\ req[t].pc \in Serving /\ UNCHANGED browser /\ sessions' = sessions
      /\ TypeOK /\ req[t] \in Request /\ req[t].cookies \in Jar
  BY Known DEF Load, At, Serving, tables, Request
<1>2. CASE sole # t
  BY <1>1, <1>2, Elsewhere DEF browser, InFlight
<1>3. CASE sole = t
  <2>1. /\ req[t].op \in {"session", "mutate"} /\ req[t].cookies.session = jar.session
        /\ req[t].cookies.csrf = jar.csrf /\ TokenOK(t)
    BY <1>1, <1>3, SoleRequest DEF PagesOK, SoleOK
  <2>2. PICK s : s = jar.session
    OBVIOUS
  <2>3. PICK c \in Maybe(Values) : c = jar.csrf
    BY <1>1 DEF TypeOK, Jar
  <2>4. req[t].op = "mutate" => Live(s) /\ c = sessions[s].csrf /\ c = page[t]
    BY <1>3, <2>1, <2>2, <2>3 DEF TokenOK
  <2>5. CASE ~Live(s)
    <3>1. req[t].op = "session" /\ Answer(t, "anonymous")
      BY <2>1, <2>2, <2>4, <2>5 DEF Load, Unauthenticated
    <3>2. "anonymous" \in Statuses
      BY DEF Statuses
    <3>3. PICK r \in Request :
            /\ req' = [req EXCEPT ![t] = r] /\ r.pc = "answered" /\ r.status = "anonymous"
            /\ r.op = req[t].op /\ r.attempt = req[t].attempt
            /\ r.op # "session" \/ r.token = req[t].token
      BY <3>1, <3>2, AnswerType
    <3> QED
      BY <1>1, <1>3, <3>1, <3>3, AloneFrame
  <2>6. CASE Live(s) /\ c # sessions[s].csrf
    <3>1. req[t].op = "session" /\ Advance(t, "rotate")
      BY <2>1, <2>2, <2>3, <2>4, <2>6 DEF Load
    <3> DEFINE r == [req[t] EXCEPT !.pc = "rotate"]
    <3>2. /\ r \in Request /\ r.pc = "rotate" /\ r.op = "session"
          /\ r.cookies = req[t].cookies /\ r.status = req[t].status
      BY <1>1, <3>1 DEF Request, Serving
    <3>3. req' = [req EXCEPT ![t] = r]
      BY <3>1 DEF Advance
    <3> HIDE DEF r
    <3>4. r.status = "none"
      BY <1>1, <3>2, Known DEF RequestOK
    <3> QED
      BY <1>1, <1>3, <2>2, <2>6, <3>1, <3>2, <3>3, <3>4, AloneFrame DEF Live
  <2>7. CASE Live(s) /\ c = sessions[s].csrf
    <3>1. req' = [req EXCEPT ![t].pc = "access", ![t].token = c]
      BY <2>1, <2>2, <2>3, <2>7 DEF Load
    <3> DEFINE r == [req[t] EXCEPT !.pc = "access", !.token = c]
    <3>2. /\ r \in Request /\ r.pc = "access" /\ r.op = req[t].op /\ r.token = c
          /\ r.cookies = req[t].cookies /\ r.status = req[t].status
      BY <1>1, <3>1 DEF Request, Serving
    <3>3. req' = [req EXCEPT ![t] = r]
      BY <1>1, <3>1 DEF TypeOK
    <3> HIDE DEF r
    <3>4. r.status = "none"
      BY <1>1, <3>2, Known DEF RequestOK
    <3>5. jar.session # None /\ sessions[jar.session].status = "live"
          /\ sessions[jar.session].csrf = r.token
      BY <2>2, <2>7, <3>2 DEF Live
    <3> QED
      BY <1>1, <1>3, <2>4, <3>2, <3>3, <3>4, <3>5, AloneFrame
  <2> QED
    BY <2>5, <2>6, <2>7
<1> QED
  BY <1>2, <1>3

LEMMA RotatePages ==
  ASSUME ServerOK, PagesOK, NEW t \in Tabs, Rotate(t)
  PROVE  PagesOK'
<1>1. /\ req[t].pc = "rotate" /\ req[t].pc \in Serving /\ UNCHANGED browser
      /\ TypeOK /\ req[t] \in Request /\ req[t].id \in Values
  BY Known DEF Rotate, At, Serving, Request
<1>2. CASE sole # t
  BY <1>1, <1>2, Elsewhere DEF browser, InFlight
<1>3. CASE sole = t
  <2>1. /\ req[t].op = "session" /\ req[t].cookies.session = jar.session
        /\ Live(jar.session)
    BY <1>1, <1>3, SoleRequest DEF PagesOK, SoleOK
  <2>2. PICK s \in Values : s = jar.session /\ sessions[s].status = "live"
    BY <1>1, <2>1 DEF Live, TypeOK, Jar, Maybe
  <2>3. sessions' = [sessions EXCEPT ![s].csrf = req[t].id]
    BY <2>1, <2>2 DEF Rotate
  <2>4. s # None /\ sessions'[s].status = "live" /\ sessions'[s].csrf = req[t].id
    BY <2>2, <2>3, SessionsType, ValuesType DEF Session
  <2> DEFINE r == [req[t] EXCEPT !.pc = "access", !.token = req[t].id]
  <2>5. /\ r \in Request /\ r.pc = "access" /\ r.op = req[t].op /\ r.token = req[t].id
        /\ r.cookies = req[t].cookies
    BY <1>1 DEF Request, Serving, Maybe
  <2>6. req' = [req EXCEPT ![t] = r]
    BY <1>1 DEF Rotate, TypeOK
  <2> HIDE DEF r
  <2> QED
    BY <1>1, <1>3, <2>1, <2>2, <2>4, <2>5, <2>6, AloneFrame
<1> QED
  BY <1>2, <1>3

LEMMA AccessPages ==
  ASSUME ServerOK, PagesOK, NEW t \in Tabs, Access(t)
  PROVE  PagesOK'
<1>1. /\ req[t].pc = "access" /\ req[t].pc \in Serving /\ UNCHANGED browser
      /\ sessions' = sessions
  BY DEF Access, At, Serving, tables
<1>2. CASE sole # t
  BY <1>1, <1>2, Elsewhere DEF browser, InFlight
<1>3. CASE sole = t
  <2>1. /\ req[t].op \in {"session", "mutate"}
        /\ req[t].op = "mutate" => req[t].token = page[t]
        /\ Live(jar.session) /\ sessions[jar.session].csrf = req[t].token
    BY <1>1, <1>3, SoleRequest DEF PagesOK, SoleOK
  <2>2. PICK status \in {"session", "served"} :
          Answer(t, status) /\ (status = "session" <=> req[t].op = "session")
    BY <2>1 DEF Access, ValidHeader
  <2>3. status \in Statuses
    BY DEF Statuses
  <2>4. PICK r \in Request :
          /\ req' = [req EXCEPT ![t] = r] /\ r.pc = "answered" /\ r.status = status
          /\ r.op = req[t].op /\ r.attempt = req[t].attempt
          /\ r.op # "session" \/ r.token = req[t].token
    BY <2>2, <2>3, AnswerType
  <2> QED
    BY <1>1, <1>3, <2>1, <2>2, <2>4, AloneFrame DEF Live
<1> QED
  BY <1>2, <1>3

\* The other statements are of requests that no page is alone with.
LEMMA ServePages ==
  ASSUME ServerOK, PagesOK, NEW t \in Tabs, Serve(t)
  PROVE  PagesOK'
<1>1. CASE Load(t) \/ Rotate(t) \/ Access(t)
  BY <1>1, LoadPages, RotatePages, AccessPages
<1>2. CASE \/ Authenticate(t) \/ FindIdentity(t) \/ CreateUser(t) \/ CreateIdentity(t)
           \/ LockUser(t) \/ WriteEmail(t) \/ CommitUser(t) \/ CreateSession(t)
           \/ LoadForLogout(t) \/ Revoke(t)
  <2>1. /\ req[t].pc \in Upserting \cup {"authenticate", "findIdentity", "createSession",
                                         "revoke"}
             \/ (req[t].pc = "load" /\ req[t].op = "logout")
        /\ UNCHANGED browser
    BY <1>2 DEF Authenticate, FindIdentity, CreateUser, CreateIdentity, LockUser, WriteEmail,
                CommitUser, CreateSession, LoadForLogout, Revoke, At, Upserting, Rollback
  <2>2. req[t].pc \in Serving /\ req[t].op \in {"callback", "logout"}
    BY <2>1, OpOf DEF Serving
  <2>3. sole # t
    BY <2>2, SoleRequest
  <2> QED
    BY <2>1, <2>2, <2>3, Elsewhere DEF browser, InFlight
<1> QED
  BY <1>1, <1>2 DEF Serve

\* A step of a tab that has no request before it and none after it.
LEMMA IdleFrame ==
  ASSUME ServerOK, PagesOK, NEW t \in Tabs, req[t].pc \in {"idle", "consent"},
         NEW r \in Request, req' = [req EXCEPT ![t] = r], r.op = "none",
         r.pc \in {"idle", "consent"}, r.status = "none",
         jar'.session = jar.session, jar'.csrf = jar.csrf,
         UNCHANGED <<sessions, page, sole>>
  PROVE  PagesOK'
<1>1. /\ req'[t] = r /\ \A q \in Tabs \ {t} : req'[q] = req[q]
      /\ RequestOK(t)
  BY Known DEF TypeOK
<1>2. req[t].op = "none" /\ r.pc \notin Serving /\ ~InFlight(t)' /\ \A q \in Tabs : ~InFlight(q) => ~InFlight(q)'
  BY <1>1 DEF RequestOK, InFlight, Serving, Upserting
<1>3. ASSUME NEW q \in Tabs PROVE SoleOK(q)' /\ TokenOK(q)'
  <2>1. SoleOK(q) /\ TokenOK(q)
    BY DEF PagesOK
  <2>2. CASE q = t
    <3>1. SoleOK(q)'
      BY <1>1, <1>2, <2>1, <2>2 DEF SoleOK
    <3>2. TokenOK(q)'
      BY <1>1, <1>2, <2>1, <2>2 DEF TokenOK, Live
    <3> QED
      BY <3>1, <3>2
  <2>3. CASE q # t
    <3>1. req'[q] = req[q]
      BY <1>1, <2>3
    <3>2. SoleOK(q)'
      BY <1>2, <2>1, <3>1 DEF SoleOK, InFlight, Live
    <3>3. TokenOK(q)'
      BY <2>1, <3>1 DEF TokenOK, Live
    <3> QED
      BY <3>2, <3>3
  <2> QED
    BY <2>2, <2>3
<1> QED
  BY <1>3 DEF PagesOK

LEMMA StartPages ==
  ASSUME ServerOK, PagesOK, NEW t \in Tabs, Start(t)
  PROVE  PagesOK'
<1>1. PICK n \in Values : n = issued + 1
  BY NextNumber DEF Start
<1> DEFINE r == [Idle EXCEPT !.pc = "consent", !.attempt = n]
<1>2. r \in Request /\ r.pc = "consent" /\ r.op = "none" /\ r.status = "none"
  BY IdleType DEF Request, Maybe
<1>3. /\ req' = [req EXCEPT ![t] = r] /\ req[t].pc \in {"idle", "consent"}
      /\ jar' = [jar EXCEPT !.attempt = n] /\ jar \in Jar
      /\ UNCHANGED <<sessions, page, sole>>
  BY <1>1, Known DEF Start, tables, TypeOK
<1>4. jar'.session = jar.session /\ jar'.csrf = jar.csrf
  BY <1>3 DEF Jar
<1> HIDE DEF r
<1> QED
  BY <1>2, <1>3, <1>4, IdleFrame

LEMMA LeavePages ==
  ASSUME ServerOK, PagesOK, NEW t \in Tabs, Leave(t)
  PROVE  PagesOK'
BY IdleType, IdleFrame DEF Leave, At, tables, browser

LEMMA CallbackPages ==
  ASSUME NEW t \in Tabs, Callback(t)
  PROVE  PagesOK'
BY NobodySole DEF Callback, Send

\* Whoever asks for its session alone starts to be alone.
LEMMA AskPages ==
  ASSUME ServerOK, PagesOK, NEW t \in Tabs, Ask(t)
  PROVE  PagesOK'
<1>1. req[t].pc = "idle" /\ jar \in Jar /\ TypeOK /\ RequestOK(t)
  BY Known DEF Ask, At, TypeOK
<1>2. PICK c \in Jar : c = [jar EXCEPT !.attempt = None]
  BY <1>1 DEF Jar, Maybe
<1>3. c.session = jar.session /\ c.csrf = jar.csrf
  BY <1>1, <1>2 DEF Jar
<1>4. PICK op \in Asking : Send(t, op, "load", c)
  BY <1>2 DEF Ask
<1>5. op \in Ops
  BY DEF Ops
<1>6. UNCHANGED <<tables, redeemed, jar, page, work>>
  BY <1>4 DEF Send
<1>7. PICK r \in Request :
        /\ req' = [req EXCEPT ![t] = r] /\ r.pc = "load" /\ r.op = op
        /\ r.status = "none" /\ r.attempt = req[t].attempt /\ r.cookies = c
  BY <1>1, <1>4, <1>5, SendType
<1>8. CASE sole' = None
  BY <1>8, NobodySole
<1>9. CASE sole' # None
  <2>1. /\ sole' = t /\ \A q \in Tabs \ {t} : ~InFlight(q)
        /\ op = "session" \/ (op = "mutate" /\ sole = t)
    BY <1>4, <1>9 DEF Send, Asking
  <2>2. /\ req'[t] = r /\ \A q \in Tabs \ {t} : req'[q] = req[q] /\ ~InFlight(q)'
    BY <1>1, <1>7, <2>1 DEF TypeOK, InFlight
  <2>3. SoleOK(t)'
    BY <1>3, <1>6, <1>7, <2>1, <2>2 DEF SoleOK
  <2>4. TokenOK(t)'
    <3>1. CASE op = "session"
      BY <1>7, <2>2, <3>1 DEF TokenOK
    <3>2. CASE op = "mutate" /\ sole = t
      <4>1. req[t].op = "none" /\ TokenOK(t)
        BY <1>1 DEF RequestOK, PagesOK
      <4> QED
        BY <1>6, <1>7, <2>2, <3>2, <4>1 DEF TokenOK, Live, tables
    <3> QED
      BY <2>1, <3>1, <3>2
  <2>5. ASSUME NEW q \in Tabs \ {t} PROVE SoleOK(q)' /\ TokenOK(q)'
    <3>1. sole' # q
      BY <2>1
    <3> QED
      BY <3>1 DEF SoleOK, TokenOK
  <2> QED
    BY <2>3, <2>4, <2>5 DEF PagesOK
<1> QED
  BY <1>8, <1>9

\* The page that is alone has its answer, or will not get it.
LEMMA ReturnFrame ==
  ASSUME ServerOK, PagesOK, NEW t \in Tabs, sole = t, sole' = t,
         req' = [req EXCEPT ![t] = Idle], TokenOK(t)'
  PROVE  PagesOK'
<1>1. /\ req'[t] = Idle /\ \A q \in Tabs \ {t} : req'[q] = req[q]
      /\ SoleOK(t)
  BY Known DEF TypeOK, PagesOK
<1>2. \A q \in Tabs \ {t} : ~InFlight(q)'
  BY <1>1 DEF SoleOK, InFlight
<1>3. SoleOK(t)'
  BY <1>1, <1>2, IdleType DEF SoleOK, InFlight, Serving, Upserting
<1>4. ASSUME NEW q \in Tabs \ {t} PROVE SoleOK(q)' /\ TokenOK(q)'
  <2>1. sole' # q
    OBVIOUS
  <2> QED
    BY <2>1 DEF SoleOK, TokenOK
<1> QED
  BY <1>3, <1>4 DEF PagesOK

LEMMA ReceivePages ==
  ASSUME ServerOK, PagesOK, NEW t \in Tabs, Receive(t)
  PROVE  PagesOK'
<1>1. /\ req[t].pc = "answered" /\ req' = [req EXCEPT ![t] = Idle] /\ InFlight(t)
      /\ sessions' = sessions /\ jar' = NewJar(t) /\ TypeOK /\ RequestOK(t)
      /\ SoleOK(t) /\ TokenOK(t) /\ sole' \in {sole, None}
  BY Known DEF Receive, At, InFlight, tables, PagesOK
<1>2. CASE sole # t
  BY <1>1, <1>2, Elsewhere
<1>3. CASE sole' = None
  BY <1>3, NobodySole
<1>4. CASE sole = t /\ sole' # None
  <2>1. /\ sole' = t /\ req[t].op \in {"session", "mutate"}
        /\ req[t].op = "session" => req[t].status = "session"
    BY <1>1, <1>4 DEF Receive, SoleOK, RequestOK
  <2>2. req'[t].op = "none" /\ req'[t].status = "none"
    BY <1>1, IdleType DEF TypeOK
  <2>3. CASE req[t].op = "session"
    <3>1. /\ req[t].token \in Values /\ req[t].token # None
          /\ Live(jar.session) /\ sessions[jar.session].csrf = req[t].token
      BY <1>1, <1>4, <2>1, <2>3, ValuesType DEF RequestOK, SoleOK
    <3>2. NewJar(t) = [jar EXCEPT !.csrf = req[t].token]
      BY <2>1, <2>3, <3>1 DEF NewJar
    <3>3. jar'.session = jar.session /\ jar'.csrf = req[t].token
      BY <1>1, <3>2 DEF TypeOK, Jar
    <3>4. page' = [page EXCEPT ![t] = req[t].token]
      BY <2>1, <2>3 DEF Receive
    <3>5. page'[t] = req[t].token
      BY <1>1, <3>4 DEF TypeOK
    <3>6. TokenOK(t)'
      BY <1>1, <2>2, <3>1, <3>3, <3>5 DEF TokenOK, Live
    <3> QED
      BY <1>1, <1>4, <2>1, <3>6, ReturnFrame
  <2>4. CASE req[t].op = "mutate"
    <3>1. req[t].status \notin {"signed in", "signed out", "session", "anonymous"}
      BY <1>1, <2>4 DEF RequestOK
    <3>2. jar' = jar /\ page' = page
      BY <1>1, <2>4, <3>1 DEF NewJar, Receive
    <3>3. TokenOK(t)'
      BY <1>1, <1>4, <2>2, <2>4, <3>2 DEF TokenOK, Live
    <3> QED
      BY <1>1, <1>4, <2>1, <3>3, ReturnFrame
  <2> QED
    BY <2>1, <2>3, <2>4
<1> QED
  BY <1>2, <1>3, <1>4

LEMMA LosePages ==
  ASSUME ServerOK, PagesOK, NEW t \in Tabs, Lose(t)
  PROVE  PagesOK'
<1>1. /\ req[t].pc = "answered" /\ InFlight(t) /\ TypeOK /\ RequestOK(t)
      /\ UNCHANGED <<sessions, jar, page>>
      /\ SoleOK(t) /\ TokenOK(t) /\ sole' \in {sole, None}
  BY Known DEF Lose, At, InFlight, tables, PagesOK
<1>2. CASE sole # t
  BY <1>1, <1>2, Elsewhere
<1>3. CASE sole' = None
  BY <1>3, NobodySole
<1>4. CASE sole = t /\ sole' # None
  <2>1. sole' = t /\ req[t].op = "mutate"
    BY <1>1, <1>4 DEF Lose, SoleOK, RequestOK
  <2>2. req' = [req EXCEPT ![t] = Idle]
    BY <2>1 DEF Lose
  <2>3. req'[t].status = "none"
    BY <1>1, <2>2, IdleType DEF TypeOK
  <2>4. TokenOK(t)'
    BY <1>1, <1>4, <2>1, <2>3 DEF TokenOK, Live
  <2> QED
    BY <1>4, <2>1, <2>2, <2>4, ReturnFrame
<1> QED
  BY <1>2, <1>3, <1>4

LEMMA StutterPages == PagesOK /\ UNCHANGED vars => PagesOK'
BY DEF PagesOK, SoleOK, TokenOK, InFlight, Live, vars, tables, browser

-----------------------------------------------------------------------------
IInv == ServerOK /\ PagesOK

LEMMA InitInv == Init => IInv
<1> SUFFICES ASSUME Init PROVE PagesOK
  BY InitServer DEF IInv
<1>1. \A t \in Tabs : sole # t
  BY DEF Init
<1> QED
  BY <1>1 DEF PagesOK, SoleOK, TokenOK

LEMMA NextInv == IInv /\ [Next]_vars => IInv'
<1> SUFFICES ASSUME IInv, [Next]_vars PROVE IInv'
  OBVIOUS
<1> USE DEF IInv
<1>1. ASSUME NEW t \in Tabs, Start(t) PROVE IInv'
  BY <1>1, StartInv, StartPages
<1>2. ASSUME NEW t \in Tabs, Callback(t) PROVE IInv'
  BY <1>2, CallbackInv, CallbackPages
<1>3. ASSUME NEW t \in Tabs, Ask(t) PROVE IInv'
  BY <1>3, AskInv, AskPages
<1>4. ASSUME NEW t \in Tabs, Serve(t) PROVE IInv'
  BY <1>4, ServeInv, ServePages
<1>5. ASSUME NEW t \in Tabs, Interrupt(t) \/ DeadlockAbort(t) PROVE IInv'
  <2>1. req[t].pc \in Serving /\ Rollback(t)
    BY <1>5, Waiting DEF Interrupt, DeadlockAbort
  <2> QED
    BY <1>5, <2>1, AbortInv, RollbackPages
<1>6. ASSUME NEW t \in Tabs, Receive(t) PROVE IInv'
  BY <1>6, ReceiveInv, ReceivePages
<1>7. ASSUME NEW t \in Tabs, Lose(t) PROVE IInv'
  BY <1>7, LoseInv, LosePages
<1>8. ASSUME NEW t \in Tabs, Leave(t) PROVE IInv'
  BY <1>8, LeaveInv, LeavePages
<1>9. ASSUME NEW s \in Values, EndSession(s) PROVE IInv'
  BY <1>9, EndSessionInv, NobodySole DEF EndSession
<1>10. CASE UNCHANGED vars
  BY <1>10, StutterServer, StutterPages
<1> QED
  BY <1>1, <1>2, <1>3, <1>4, <1>5, <1>6, <1>7, <1>8, <1>9, <1>10 DEF Next

LEMMA Always == Spec => []IInv
BY InitInv, NextInv, PTL DEF Spec

\* An identity is of one user, so that a user with an identity has one.
LEMMA Whole == TypeOK /\ TablesOK => UsersWhole
<1> SUFFICES ASSUME TypeOK, TablesOK, NEW u \in UserIDs, users[u] # None
             PROVE  /\ Cardinality({g \in Subjects : identities[g] = u}) = 1
                    /\ \A v \in UserIDs \ {u} : users[v] # users[u]
  BY DEF UsersWhole
<1>1. \A v \in UserIDs \ {u} : users[v] # users[u]
  BY DEF TablesOK
<1>2. PICK g \in Subjects : identities[g] = u
  BY DEF TablesOK
<1>3. ASSUME NEW h \in Subjects, identities[h] = u PROVE h = g
  BY <1>2, <1>3 DEF TablesOK
<1>4. {h \in Subjects : identities[h] = u} = {g}
  BY <1>2, <1>3
<1>5. Cardinality({g}) = 1
  BY FS_Singleton
<1> QED
  BY <1>1, <1>4, <1>5

\* resolveIdentityUser: the tables of users, identities and sessions are whole
\* whatever sign-ins do at the same time and however they end, with everything
\* that the requests in flight rely on.
THEOREM SignInInductive == Spec => []SignInInv
<1>1. IInv => SignInInv
  BY Whole DEF IInv, ServerOK, PagesOK, SignInInv
<1> QED
  BY <1>1, Always, PTL

\* Complete: a session belongs to the user of the account that consented,
\* though addresses move between accounts while users sign in.
THEOREM SignedIn == Spec => []SignedInAsConsented
<1>1. IInv => SignedInAsConsented
  BY DEF IInv, ServerOK
<1> QED
  BY <1>1, Always, PTL

\* Session and requireCSRF: a page that is alone since it asked for its session
\* has the token of the cookie and of the server, and is not refused.
THEOREM TokensKept == Spec => []TokensAgree
<1>1. IInv => TokensAgree
  BY DEF IInv, PagesOK, TokenOK, TokensAgree
<1> QED
  BY <1>1, Always, PTL

=============================================================================
