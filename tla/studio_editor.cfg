SPECIFICATION Spec
CONSTANTS
  Accts <- AcctIds
  ATpls <- ATplIds
  Rails <- RailIds
  Tpls <- TplIds
  Chains <- ChainIds
  Limits <- LimitIds
  Names <- AllNames
  NoName <- None
  IdFormats <- Formats
  Generated <- MakesIds
  Digest <- Clash
  Start <- Bank
  Cfg <- Config
  Offered <- OneOff
  NewRecs <- Fresh
  KnobValues <- Settings
  MaxOps = 2
  MaxFaults = 1
CHECK_DEADLOCK FALSE
INVARIANT TypeOK
INVARIANT KeysUnique
INVARIANT RenameKeepsGraph
INVARIANT RenameRefusals
INVARIANT RenameUndone
INVARIANT DeleteButtonHonest
INVARIANT KnobsAsTold
PROPERTY UntouchedRenamesNothing
