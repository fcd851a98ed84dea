CONSTANTS
  t1 = t1
  t2 = t2
  w = w
  agent = agent
  review = review
  run = run
  Terminals <- MCTerminals
  Worktrees <- MCWorktrees
  Consoles <- MCConsoles
  Runs <- MCRuns
  Home <- MCHome
  Reviews <- MCReviews
  MaxStops = 1
  Viewers <- MCTerminals
  tall = tall
  low = low
  least = least
  Sizes <- MCSizes
  Short <- MCShort
  MaxWindow = 1
  MaxTyped = 1
  MaxLags = 1
  MaxAttach = 2
SPECIFICATION MCSpec
INVARIANTS SessionsTrue
PROPERTIES SessionsFollowed InputClaims Settles
CHECK_DEADLOCK FALSE
