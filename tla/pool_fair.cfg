SPECIFICATION FairSpec
CONSTANTS
  Requests = {r1, r2, r3}
  Callers = {c1, c2}
  Ops <- BracketOps
  MaxSize = 2
  MaxFaults = 0
  NoOne = NoOne
  Pool = Pool
  Nobody = Nobody
PROPERTY RefusalMeansRefresh
PROPERTY RequestsEnd
PROPERTY ReleaseIsTemporary
PROPERTY DrainEndsWhenLoadPauses
