SPECIFICATION FairSpec
CONSTANTS
  p1 = p1 t1 = t1 t2 = t2 s1 = s1
  NInbound = 1
  NOutbound = 0
  Person = {p1}
  Founder <- OneFounder
  Tick = {t1}
  Scanner = {}
  AgentBudget = 10
  BatchSize = 1
  Requests <- MemoRequest
  HistoryBound = 4
INVARIANTS TypeOK InboundAudit EvidenceBehindStage SlaSettledByDecision
PROPERTIES ImplementsLifecycle CarriedToAPerson
CHECK_DEADLOCK FALSE
