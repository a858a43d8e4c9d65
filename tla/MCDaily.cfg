CONSTANTS
  none = none  r1 = r1  a10 = a10  a2 = a2  m1 = m1  e1 = e1
  LastDay = 3
  Achievement = {a10, a2}  Attendance = a10
  Requirement <- OneAndTwo
  Mission = {m1}  Needed = 1
  Events = {e1}  Choice = {r1}  NoChoice = none
  MaxQuantity = 2  MaxClaims = 1
SPECIFICATION DailySpec
INVARIANTS AttendanceIsHonest LevelsAreReached MissionsAreClaimable
CHECK_DEADLOCK FALSE
