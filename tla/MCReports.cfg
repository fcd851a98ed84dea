CONSTANTS
  h1 = h1
  h2 = h2
  Hooks <- TwoHooks
  ResetTimes <- MCResetTimes
  Reports <- MCReports
  MaxEvents = 2
  MaxKills = 1
  Runs = {r1, r2}
  Trees = {w1, w2}
  Unset = Unset
  MaxMinute = 1
  MaxHooks = 1
  MaxStops = 1
SPECIFICATION MCSpec
PROPERTIES ViewConverges ReviewsKept Retried
CHECK_DEADLOCK FALSE
