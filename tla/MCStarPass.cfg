CONSTANTS
  c1 = c1  c2 = c2
  Season = {c1, c2}
  Version = {0, 1}
  Goal <- TwoSteps
  PaidPoint = 2  AdPoint = 1
  Mult = 2  Cost = 1
  MaxDue <- Bound
SYMMETRY Alike
SPECIFICATION Spec
INVARIANTS PointsAreEarned ClaimsAreReached TicketMeansAll
CHECK_DEADLOCK FALSE
