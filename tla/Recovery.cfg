SPECIFICATION Spec
CONSTANTS
  Interrupted <- Points
  Failing <- Fallible
  MaxVersion = 2
  MaxStart = 4
  Clock = {s1, s2}
  Spoilable = {"primary", "backup", "previous"}
INVARIANTS
  SnapshotSurvives
  NeverBehindSnapshot
  RejectedIsKept
  FailsOnlyWhenSpoilt
CHECK_DEADLOCK FALSE
