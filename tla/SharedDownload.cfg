CONSTANTS
  Field <- SmallFields
  Versions <- EdgeVersions
  MaxFields = 4
  MaxShares = 2
  MaxDisconnects = 1
  MaxRestarts = 1
  Missing = Missing
  NoVersion = NoVersion
  NoRect = "zero"
  Base = 3
SPECIFICATION FairSpec
INVARIANT Converged
PROPERTIES SettledRead EventuallyArrives
