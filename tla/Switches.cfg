SPECIFICATION Spec
CONSTANTS
  ToggleTasks = {t1, t2}
  Pollers = {p1}
  Commands <- MCCommands
SYMMETRY Symmetry
INVARIANTS TypeOK SwitchFollows
PROPERTIES NoFlicker SwitchEdgeServed
CONSTRAINT Crowd
