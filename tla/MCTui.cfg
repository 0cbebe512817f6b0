SPECIFICATION Spec
CONSTANTS
  Record = {r1, r2}
  NoRecord = none
  MENU_MAX_ITEMS = 6
  STORE_MAX_DEVICES = 4
  LineLength <- LineLengths
INVARIANTS
  TypeOK
  ServesWhatIsShown
  MenuHoldsDevices
PROPERTY DialogueEnds
CHECK_DEADLOCK FALSE
