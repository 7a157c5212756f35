\* A start whose engine cannot join is never answered.
CONSTANTS
  s1 = s1
  s2 = s2
  u1 = u1
  nobody = nobody
  Sessions <- MCOneSession
  Users <- MCOneUser
  Nobody <- MCNobody
  MicrotasksPerCallback = FALSE
  MaxReports = 1
  MaxPending = 2
  MaxRecoveries = 0
SPECIFICATION Spec
PROPERTY StartIsAnswered
CHECK_DEADLOCK FALSE
