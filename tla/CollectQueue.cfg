SPECIFICATION FairSpec
CONSTANTS
  r1 = r1 r2 = r2 crawl = crawl d1 = d1 d2 = d2
  Task = {r1, r2, crawl}
  Tavily = {r1, r2}
  Recorded = {r1, r2}
  Handler = {api}
  Priority <- TaskPriority
  Dispatcher = {d1, d2}
  Concurrency = 1
  TavilyBudget = 1
  RequestBound <- TaskRequests
  FaultBound = 1
INVARIANTS TypeOK OverspendBounded
PROPERTIES NoTaskVanishes NoTaskMultiplied OthersServed
CHECK_DEADLOCK FALSE
