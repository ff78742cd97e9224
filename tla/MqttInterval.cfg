SPECIFICATION Spec
CONSTANTS
  Clients = {c1, c2}
  Polls = {p1, p2}
  CounterLimit = 2
  CounterRange = 5
INVARIANTS UpdateInterval
