SPECIFICATION ScreensSpec
CONSTANTS
  File = {fileA, fileB}
  NoFile = NoFile
  NoDoc = NoDoc
  MaxIds = 2
  MaxUploads = 2
  Rect = {r1, r2}
  Desc = {"a"}
  Types = {"name"}
  NoSelection = NoSelection
SYMMETRY Symmetry
INVARIANTS
  NoDanglingURL
  PickedFileStored
PROPERTY AddedWhereChosen
