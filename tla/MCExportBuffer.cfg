SPECIFICATION Spec
CONSTANTS
  InitialCap = 16384
  Slack = 512
  Header = 9
  EntryLength <- AnyLengths
  MaxDevices = 100
INVARIANTS
  TypeOK
  SizeNeverWraps
  OnlyLongAreCut
CHECK_DEADLOCK FALSE
