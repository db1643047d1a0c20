CONSTANTS
  k1 = k1
  k2 = k2
  k3 = k3
  Clients = {k1, k2, k3}
  MaxClients = 2
  UnitsPerRequest = 2
  Burst = 2
  TicksPerSecond = 3
  Environments <- SomeEnvironments
  MaxTime = 4
  MaxHandlers = 2
  Absent = Absent
SPECIFICATION SpecOfOneLimiter
SYMMETRY Symmetry
INVARIANTS
  ServerInv
  LimiterInv
  CleanExit
CHECK_DEADLOCK FALSE
