CONSTANTS
  a1 = a1
  s1 = s1
  s2 = s2
  Agents = {a1}
  Sessions = {s1, s2}
  AgentOf <- OneAgent
  Procs = {p1, p2}
  MaxEvents = 1
  None = None
SPECIFICATION Spec
PROPERTIES
  SuspensionRevokesEverySession
