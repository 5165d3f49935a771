SPECIFICATION FairSpec
CONSTANTS
  Schedules = {s1}
  Workers = {w1}
  Times = {1}
  DayLength = 2
  LastTick = 3
PROPERTIES
  ScheduleKeepsMoving
