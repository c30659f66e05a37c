SPECIFICATION DiscoverySpec
CONSTANTS
  first = first second = second crawl = crawl d1 = d1 d2 = d2 c1 = c1 c2 = c2 e1 = e1 e2 = e2
  Task = {first, second, crawl}
  Tavily = {}
  Recorded = {}
  Handler = {}
  Slot = {first, second}
  Priority <- MCPriority
  Dispatcher = {d1}
  Cron = {c1, c2}
  Concurrency = 1
  TavilyBudget = 0
  RequestBound <- MCRequests
  FaultBound = 2
  Runner = {e1, e2}
  Deep <- MCDeep
  MaxPage = 3
SYMMETRY Interchangeable
INVARIANTS PagesDistinct NoPageForgotten SucceededHasAsked SlotHandedOutOnce
PROPERTY OpenSlotServed
CHECK_DEADLOCK FALSE
