SPECIFICATION Spec
CONSTANTS
  Runs = {d1, d2}
  Pages = {}
  Rails = {a}
  Kinds <- ResetKinds
  Overlap = TRUE
  MaxFaults = 0
  Phantom = Phantom
  NoRun = NoRun
  Pool = Pool
  Nobody = Nobody
CHECK_DEADLOCK FALSE
INVARIANT HookFindsFileFree
