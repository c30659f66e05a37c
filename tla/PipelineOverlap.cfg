SPECIFICATION Spec
CONSTANTS
  p1 = p1 t1 = t1 t2 = t2 s1 = s1
  NInbound = 2
  NOutbound = 0
  Person = {p1}
  Founder <- OneFounder
  Tick = {t1, t2}
  Scanner = {}
  AgentBudget = 5
  BatchSize = 1
  Requests <- NoRequest
  HistoryBound = 4
INVARIANTS OverdraftBounded
PROPERTIES LockedRowsStandStill
