SPECIFICATION Spec
CONSTANTS
  Runs = {d1, d2}
  Pages = {}
  Rails = {a, b}
  Kinds <- ResetKinds
  Overlap = FALSE
  MaxFaults = 0
  Phantom = Phantom
  NoRun = NoRun
  Pool = Pool
  Nobody = Nobody
CHECK_DEADLOCK FALSE
PROPERTY UnmarkedSurvive
