SPECIFICATION Spec
CONSTANTS
  a = a b = b c = c d1 = d1 d2 = d2 x1 = x1 x2 = x2
  Request = {a, b}
  KeyOf <- MCKeyOf
  EmailOf <- MCEmailOf
  Dispatcher = {d1}
  Worker = {x1}
  FaultBound = 0
INVARIANTS RaceAnswered
CHECK_DEADLOCK FALSE
