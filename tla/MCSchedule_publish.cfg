SPECIFICATION Spec
CONSTANTS
  Editor = {e1, e2}
  User = {u1}
  Config = {good, bad}
  Valid = {good}
  MaxVersion = 2
  HourLen = 2
  DayLen = 2
  MonthOf <- CalMonth
  DayOf <- CalDay
  WeekdayOf <- CalWeekday
  SearchDays = 4
  Replica = {p1, p2}
  Plan <- Plans
  CasAttempts = 2
  Reading = {0, 2, 7}
  MaxChange = 1
  MaxTasks = 1
INVARIANT PublishedIsValid
CHECK_DEADLOCK FALSE
