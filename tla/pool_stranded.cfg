SPECIFICATION Spec
CONSTANTS
  Requests = {r1}
  Callers = {c1}
  Ops <- BracketOps
  MaxSize = 2
  MaxFaults = 1
  NoOne = NoOne
  Pool = Pool
  Nobody = Nobody
INVARIANT AlwaysReopens
