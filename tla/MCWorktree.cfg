SPECIFICATION MCSpec
CONSTANTS
  Ids = {a, b}
  Distros = {u}
  Windows = Windows
  Procs = {p1, p2}
  NoJob = NoJob
  NoEntry = NoEntry
  MaxCommands = 3
  Items = {i, f}
  Skills = {i}
  Appliers = {p1, p2}
  Deciders = {q1, q2}
  Proposals = {d}
  None = None
  MaxChanges = 2
  MaxCuts = 1
  MaxApplies = 3
  Targets = {"repo"}
INVARIANTS CheckoutsTrue
PROPERTIES ConversationKept 
CHECK_DEADLOCK FALSE
SYMMETRY MCSymmetry
