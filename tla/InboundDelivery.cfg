SPECIFICATION FairSpec
CONSTANTS
  a = a b = b c = c d1 = d1 d2 = d2 x1 = x1 x2 = x2
  Request = {a, b}
  KeyOf <- MCKeyOf
  EmailOf <- MCEmailOf
  Dispatcher = {d1, d2}
  Worker = {x1, x2}
  FaultBound = 2
INVARIANTS TypeOK EvidenceOnce OpenRowServed
PROPERTIES ImplementsSubmission HandedOver
CHECK_DEADLOCK FALSE
