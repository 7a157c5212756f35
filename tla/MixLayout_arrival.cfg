\* Node 8: a user already in the channel gets no region.
CONSTANTS
  s1 = s1
  s2 = s2
  u1 = u1
  u2 = u2
  u3 = u3
  u4 = u4
  nobody = nobody
  Sessions <- MCOneSession
  Users <- MCTwoUsers
  Nobody <- MCNobody
  MicrotasksPerCallback = FALSE
  MaxReports = 2
  MaxPending = 2
  MaxRecoveries = 0
SPECIFICATION LayoutSpec
INVARIANT EveryUserHasRegion
CHECK_DEADLOCK FALSE
