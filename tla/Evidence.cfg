SPECIFICATION Spec
CONSTANTS
  w1 = w1 r1 = r1 r2 = r2 p1 = p1 p2 = p2
  Person = {1, 2, 3}
  SourceOf <- MCSource
  Fact <- MCFact
  NoDeal = "none"
  Collector = {w1}
  Resolver = {r1, r2}
  RoundBound = 3
  Processor = {p1, p2}
  ProcessBound = 2
SYMMETRY Interchangeable
INVARIANTS TypeOK ChainsEnd CountedOnce AskedOncePerOverlap GroupKeepsCurrentClaim EvidenceCited
PROPERTIES RerunCreatesNothing
CHECK_DEADLOCK FALSE
