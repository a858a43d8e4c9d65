CONSTANTS
  s1 = s1  s2 = s2
  Slot = {s1, s2}
  Seasons = 3
  DayLength = 2
  Offset <- WithinADay
  Fine = 4
  MaxTime = 3  MaxSelect = 1
SPECIFICATION CalendarSpec
INVARIANTS TableIsOfToday
CHECK_DEADLOCK FALSE
