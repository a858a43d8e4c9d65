SPECIFICATION Spec
CONSTANTS
  LastStage = 3
  Story = {2}
  ChapterOf <- OneChapter
  Goal <- TwoGoals
  Cost = 1
  Cap = 2
  ExpGain = 1
  Threshold <- TwoLevels
  CharacterScore <- LilyScores
  ProfileScore <- OneProfile
  Loadouts <- TwoLoadouts
  GoalScores <- StageGoals
  StarCookies <- Drops
  RollCookies = {0}
  ChapterCookies = {1}
  MaxCookies = 2
  MaxCount = 2
  MaxTime = 2
  MaxSeq = 4
  MaxWire = 2
INVARIANTS
  EnergyIsEarned
  StagesInOrder
  ChapterRewardsAreEarned
  StarsAreInReach
PROPERTIES
  LossOnlyByCookie
CHECK_DEADLOCK FALSE
