SPECIFICATION Spec
CONSTANTS
  p1 = p1
  p2 = p2
  p3 = p3
  ws = ws
  yaml = yaml
  Pids = {p1, p2, p3}
  Packages = {ws, yaml}
  DotEntry = DotEntry
  MaxFaults = 1
SYMMETRY Symmetry
INVARIANTS
  TypeOK
  RunsOnComplete
  PlacingSucceeds
  NothingLeftBehind
PROPERTY PublishesWhole
