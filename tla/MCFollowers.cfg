CONSTANTS
  q1 = q1  q2 = q2
  LastStage = 2
  Condition = {q1, q2}
  m1 = m1  m2 = m2
  Song = {m1, m2}
  Threshold <- OnceAndTwice
  LevelAt <- TwoLevels
  Gain = 1  Gifts = 1
  MaxExperience = 2
SPECIFICATION Spec
INVARIANTS GuideIsEarned AffectionIsEarned EncoreWaits
PROPERTIES GuideEnds
CHECK_DEADLOCK FALSE
