\* The last user to leave stays in the engine's layout.
CONSTANTS
  s1 = s1
  s2 = s2
  u1 = u1
  u2 = u2
  u3 = u3
  u4 = u4
  nobody = nobody
  Sessions <- MCOneSession
  Users <- MCTwoUsers
  Nobody <- MCNobody
  MicrotasksPerCallback = TRUE
  MaxReports = 2
  MaxPending = 2
  MaxRecoveries = 0
SPECIFICATION LayoutSpec
INVARIANT NoRegionOfTheLeft
CHECK_DEADLOCK FALSE
