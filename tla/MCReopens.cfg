SPECIFICATION Spec
CONSTANTS
  Text <- AllText
  ShortText <- ShortTexts
  Blank = ""
  PromptIp <- Addresses
  StrictIp <- GoodAddresses
  DeviceType <- MikroTik
  Unparsable = "?"
  Quoted <- Reads
  Length <- Lengths
  InitialCap = 300
  Slack = 100
  Header = 9
  STORE_MAX_DEVICES = 2
  Password = {p1}
  NoPassword = NoPassword
  NoFile = NoFile
  Partial = Partial
  Faults <- NoFaults
  TypedName <- OddNames
  TypedIp <- TwoAddresses
  TypedUsername <- Users
  TypedPassword <- OnePassword
  EditedYaml <- Edited
PROPERTIES
  FailsOnlyIfWrongOrCorrupted
