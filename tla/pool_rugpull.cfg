SPECIFICATION Spec
CONSTANTS
  Requests = {r1, r2, r3}
  Callers = {c1}
  Ops <- BracketOps
  MaxSize = 2
  MaxFaults = 0
  NoOne = NoOne
  Pool = Pool
  Nobody = Nobody
INVARIANT NoRugPull
