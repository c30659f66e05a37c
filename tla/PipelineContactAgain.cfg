SPECIFICATION Spec
CONSTANTS
  p1 = p1 t1 = t1 t2 = t2 s1 = s1
  NInbound = 0
  NOutbound = 1
  Person = {p1}
  Founder <- OneFounder
  Tick = {t1}
  Scanner = {s1}
  AgentBudget = 7
  BatchSize = 1
  Requests <- NoRequest
  HistoryBound = 2
PROPERTIES OutreachPaidOnce
