---------------------------- MODULE RateLimiter ----------------------------
(***************************************************************************)
(* server/rate_limit.go: a token bucket for each client, in a table that   *)
(* holds MaxClients of them.  A client is a path together with an address. *)
(* A bucket, the library's rate.Limiter, is counted in units of which one  *)
(* is added per tick; a request takes UnitsPerRequest, the window divided  *)
(* by the limit, so that every wait is a number of ticks.                  *)
(***************************************************************************)
EXTENDS Integers, FiniteSets

CONSTANTS Clients, MaxClients, UnitsPerRequest, Burst, TicksPerSecond

ASSUME RateLimiterAssumption ==
  {MaxClients, UnitsPerRequest, Burst, TicksPerSecond} \subseteq Nat \ {0}

Capacity == Burst * UnitsPerRequest

Filled(units) == IF units > Capacity THEN Capacity ELSE units

\* The units that were left at the time last, and when the client was seen.
Entry == [units : 0..Capacity, last : Nat, lastSeen : Nat]
NewEntry(now) == [units |-> Capacity, last |-> now, lastSeen |-> now]

\* rate.Limiter.advance; a time before the last one adds nothing.
Available(entry, now) ==
  Filled(entry.units + (IF now < entry.last THEN 0 ELSE now - entry.last))

\* evictOldest; the order of the map decides between clients of one age.
Oldest(table) ==
  {k \in DOMAIN table :
     \A q \in DOMAIN table : table[k].lastSeen =< table[q].lastSeen}

\* The tables that have room for k.
Rooms(table, k) ==
  IF k \in DOMAIN table \/ Cardinality(DOMAIN table) < MaxClients THEN {table}
  ELSE {[q \in DOMAIN table \ {o} |-> table[q]] : o \in Oldest(table)}

EntryOf(table, k, now) == IF k \in DOMAIN table THEN table[k] ELSE NewEntry(now)

Allowed(table, k, now) == Available(EntryOf(table, k, now), now) >= UnitsPerRequest

\* (fault) The reservation of a request that must wait is not cancelled.
ChargeAlways(table, k, now) ==
  LET units == Available(EntryOf(table, k, now), now)
      entry == [units |-> units - UnitsPerRequest, last |-> now, lastSeen |-> now]
  IN [q \in DOMAIN table \cup {k} |-> IF q = k THEN entry ELSE table[q]]

Taken(table, k, now) == IF Allowed(table, k, now) THEN UnitsPerRequest ELSE 0

\* The table after allow: a reservation that would have to wait is cancelled,
\* which leaves the bucket as it was at this time.
Charge(table, k, now) ==
  LET units == Available(EntryOf(table, k, now), now)
      entry == [units |-> units - Taken(table, k, now), last |-> now, lastSeen |-> now]
  IN [q \in DOMAIN table \cup {k} |-> IF q = k THEN entry ELSE table[q]]

Wait(table, k, now) == UnitsPerRequest - Available(EntryOf(table, k, now), now)

\* retryAfterSeconds, in ticks: whole seconds, and at least one.
RetryAfter(wait) ==
  LET seconds == (wait + TicksPerSecond - 1) \div TicksPerSecond
  IN TicksPerSecond * (IF seconds < 1 THEN 1 ELSE seconds)
=============================================================================
