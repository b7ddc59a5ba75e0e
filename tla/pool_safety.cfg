SPECIFICATION Spec
CONSTANTS
  Requests = {r1, r2, r3}
  Callers = {c1, c2}
  Ops <- AllOps
  MaxSize = 2
  MaxFaults = 2
  NoOne = NoOne
  Pool = Pool
  Nobody = Nobody
SYMMETRY Symmetry
INVARIANT TypeOK
INVARIANT InFlightExact
INVARIANT BracketOwnsFile
INVARIANT DrainProtectsEarly
INVARIANT NoLostWakeup
PROPERTY LeaseSpec
