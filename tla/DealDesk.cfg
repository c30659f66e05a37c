SPECIFICATION Spec
CONSTANTS
  o1 = o1 o2 = o2 j1 = j1 j2 = j2 j3 = j3 all = all inbound = inbound
  Opp = {o1, o2}
  Editor = {x1, x2}
  Mandate <- Mandates
  Fact <- Facts
  Job = {j1, j2, j3}
  JobOpp <- OppOfJob
  Runner = {r1, r2}
  Caller = {c1, c2}
  IdemKey = {k1, k2}
  Founder <- Founders
  PersonId <- Persons
  Stamp <- Stamps
  Filter = {all, inbound}
  Reader = {w1}
  PageSize = 2
  ClientKey = {openai, tavily, injected}
  Client = {p1, p2, p3}
  Closer = {s1, s2}
INVARIANTS TypeOK DecisionCitesValidatedMemo OneThesisPerPackage LedgerTellsTruth UnknownIsNotFailed WalkComplete EachClientClosedOnce
PROPERTIES DecidedProposalStands RetriesAnswered
SYMMETRY Symmetry
CHECK_DEADLOCK FALSE
