SPECIFICATION FairSpec
CONSTANTS
  Text <- AllText
  ShortText <- ShortTexts
  Blank = ""
  PromptIp <- Addresses
  StrictIp <- GoodAddresses
  DeviceType <- MikroTik
  Unparsable = "?"
  Quoted <- Reads
  Length <- Lengths
  InitialCap = 300
  Slack = 100
  Header = 9
  STORE_MAX_DEVICES = 2
  Password = {p1, p2}
  NoPassword = NoPassword
  NoFile = NoFile
  Partial = Partial
  Faults <- EveryFault
  TypedName <- OneName
  TypedIp <- OneAddress
  TypedUsername <- Users
  TypedPassword <- OnePassword
  EditedYaml <- QuoteEdited
INVARIANTS
  TypeOK
  MasterMatchesFile
  DoneIsOnDisk
PROPERTIES
  PasswordChangesByReset
  StartupEnds
