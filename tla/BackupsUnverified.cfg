SPECIFICATION BackupSpec
CONSTANTS
  Clients = {c1, c2}
  Backups = {b1, b2, b3, b4}
  LastInstant = 6
  DayLength = 2
  WeekLength = 4
  MonthLength = 6
  Days = 2
  Weeks = 2
  Months = 1
SYMMETRY Symmetry
INVARIANT CompletedIsVerified
