SPECIFICATION MCFairSpec
CONSTANTS
  Schedules = {s1, s2}
  Workers = {w1, w2}
  Times = {1}
  DayLength = 2
  LastTick = 2
  Alone = w1
  Shared = s1
INVARIANT
  WorkersInv
PROPERTIES
  ServingIfApart
  DueIsHandled
