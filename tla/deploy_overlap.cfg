SPECIFICATION Spec
CONSTANTS
  Runs = {d1, d2}
  Pages = {p1}
  Rails = {a}
  Kinds <- AllKinds
  Overlap = TRUE
  MaxFaults = 1
  Phantom = Phantom
  NoRun = NoRun
  Pool = Pool
  Nobody = Nobody
CHECK_DEADLOCK FALSE
SYMMETRY Symmetry
INVARIANT TypeOK
INVARIANT HookOwnsLease
INVARIANT PoolReturned
INVARIANT FreshAtRest
INVARIANT PageFresh
PROPERTY RealSurvive
