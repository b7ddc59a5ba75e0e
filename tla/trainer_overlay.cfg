SPECIFICATION Spec
CONSTANTS
  k1 = k1
  k2 = k2
  f1 = f1
  f2 = f2
  Kinds = {k1, k2}
  Forms = {f1, f2}
  Offered <- Selections
  Starts = {s1, s2}
  Applies = {a1, a2}
  MaxPosts = 3
  LastSave = 1
  Tolerance = 1
  MaxFaults = 1
  NoTask = NoTask
CHECK_DEADLOCK FALSE
SYMMETRY Symmetry
INVARIANT TypeOK
INVARIANT LedgerMatchesRows
INVARIANT ViewsMatchRows
INVARIANT OneApply
INVARIANT OneStart
INVARIANT StaleFlagExact
INVARIANT PageShowsLedger
