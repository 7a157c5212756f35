\* Two recorders of one process on its shared queue, the reaction order of Node 8.
CONSTANTS
  s1 = s1
  s2 = s2
  u1 = u1
  u2 = u2
  u3 = u3
  u4 = u4
  nobody = nobody
  Sessions <- MCTwoSessions
  Users <- MCOneUser
  Nobody <- MCNobody
  MicrotasksPerCallback = FALSE
  MaxReports = 1
  MaxPending = 2
  MaxRecoveries = 0
SPECIFICATION FairLayoutSpec
INVARIANTS
  TypeOK
  StartAnswerTruthful
  ListenersBeforeEvents
  NoStrangers
PROPERTIES
  JoiningIsAnswered
  KeepsApi
CHECK_DEADLOCK FALSE
