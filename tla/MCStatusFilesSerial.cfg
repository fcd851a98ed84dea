CONSTANTS
  h1 = h1
  h2 = h2
  Hooks <- OneHook
  ResetTimes <- MCResetTimes
  Reports <- MCAll
  MaxEvents = 3
  MaxKills = 0
SPECIFICATION UnkilledSpec
INVARIANTS MarkKept MirrorFresh
PROPERTY SerialMachine
CHECK_DEADLOCK FALSE
