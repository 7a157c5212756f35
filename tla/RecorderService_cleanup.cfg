\* A stop answered with success, or an error, does not clear the recorder.
CONSTANTS
  s1 = s1
  s2 = s2
  u1 = u1
  nobody = nobody
  Sessions <- MCOneSession
  Users <- MCOneUser
  Nobody <- MCNobody
  MicrotasksPerCallback = FALSE
  MaxReports = 1
  MaxPending = 2
  MaxRecoveries = 0
SPECIFICATION Spec
PROPERTY CleanupEnds
CHECK_DEADLOCK FALSE
