SPECIFICATION FairSpec
CONSTANTS
  Runs = {d1}
  Pages = {p1}
  Rails = {a}
  Kinds <- EtlKinds
  Overlap = FALSE
  MaxFaults = 0
  Phantom = Phantom
  NoRun = NoRun
  Pool = Pool
  Nobody = Nobody
CHECK_DEADLOCK FALSE
PROPERTY RefusedPageReloads
