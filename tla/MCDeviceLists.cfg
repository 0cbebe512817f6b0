SPECIFICATION Spec
CONSTANTS
  Text <- AllText
  ShortText <- ShortTexts
  Blank = ""
  PromptIp <- Addresses
  StrictIp <- GoodAddresses
  DeviceType <- MikroTik
  Unparsable = "?"
  Quoted <- Reads
  Length <- Lengths
  InitialCap = 373
  Slack = 90
  Header = 9
  STORE_MAX_DEVICES = 3
  Password = {p1}
  NoPassword = NoPassword
  NoFile = NoFile
  Partial = Partial
  Faults <- NoFaults
  TypedName <- PlainNames
  TypedIp <- GoodAddresses
  TypedUsername <- Users
  TypedPassword <- Passwords
  EditedYaml <- NoEdited
INVARIANTS
  DoneListReopens
