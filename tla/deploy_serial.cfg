SPECIFICATION Spec
CONSTANTS
  Runs = {d1, d2}
  Pages = {}
  Rails = {a, b}
  Kinds <- AllKinds
  Overlap = FALSE
  MaxFaults = 2
  Phantom = Phantom
  NoRun = NoRun
  Pool = Pool
  Nobody = Nobody
CHECK_DEADLOCK FALSE
SYMMETRY Symmetry
INVARIANT CleanSlate
INVARIANT NoDoubleCover
