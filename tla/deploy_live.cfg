SPECIFICATION FairSpec
CONSTANTS
  Runs = {d1, d2}
  Pages = {p1}
  Rails = {a}
  Kinds <- EtlAndReset
  Overlap = TRUE
  MaxFaults = 0
  Phantom = Phantom
  NoRun = NoRun
  Pool = Pool
  Nobody = Nobody
CHECK_DEADLOCK FALSE
PROPERTY RunsEnd
PROPERTY PagesCatchUp
