SPECIFICATION PagesSpec
CONSTANTS
  Info = {"Ivan"}
  Types = {"name"}
  MaxTime = 2
  fieldTypes <- OneField
  Text = {"typed"}
  NoData = NoData
  Id = {"shared", "mal.formed"}
  Shared = {"shared"}
  Malformed = {"mal.formed"}
  MaxDownloads = 2
INVARIANTS
  ErasedStaysErased
  ExportsCurrentData
  AsksForTyped
PROPERTY RequestedArrives
