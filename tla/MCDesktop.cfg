CONSTANTS
  r1 = r1
  r2 = r2
  win = win
  wsl = wsl
  Repos = {r1, r2}
  Names = {x}
  Platforms = {win, wsl}
  DefaultPlatform <- MCDefaultPlatform
  Unset = Unset
  MaxForms = 2
  MaxActs = 5
  Trays = {t1, t2}
  Sessions = {s}
  Nothing = Nothing
  MaxFaults = 1
  MaxOps = 3
SPECIFICATION MCSpec
INVARIANTS FormTrue TrayObeys
PROPERTIES FormReleased TrayConverges
CHECK_DEADLOCK FALSE
