SPECIFICATION Spec
CONSTANTS
  Setups <- AllSetups
  Reserved <- Slash
  Underscore = "_"
  NoFile = NoFile
  MaxStamp = 3
INVARIANTS
  TypeOK
  ArchiveIsAuthentic
  LinkedIsComplete
  SendsOwnAndRecent
  HomeIsLeftClean
