SPECIFICATION Spec
CONSTANTS
  Schedules = {s1}
  Workers = {w1}
  Times = {0, 1}
  DayLength = 2
  LastTick = 5
INVARIANTS
  TypeOK
  ServingInv
