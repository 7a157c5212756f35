\* One recorder, four users who come and go, one core service recovery.
CONSTANTS
  s1 = s1
  s2 = s2
  u1 = u1
  u2 = u2
  u3 = u3
  u4 = u4
  nobody = nobody
  Sessions <- MCOneSession
  Users <- MCFourUsers
  Nobody <- MCNobody
  MicrotasksPerCallback = TRUE
  MaxReports = 5
  MaxPending = 2
  MaxRecoveries = 1
SPECIFICATION LayoutSpec
INVARIANTS
  LayoutTypeOK
  LayoutFollowsPeers
  RegionsPerUser
  EngineShowsLayout
  FirstFourApart
SYMMETRY Symmetry
CHECK_DEADLOCK FALSE
