SPECIFICATION Spec
CONSTANTS
  Required <- OneRequired
  Optional <- NoOptional
  TypeName <- TwoTypes
  ZeroType = "eltex-me"
  OtherText <- NoOther
  Blank = ""
  STORE_MAX_DEVICES = 2
  MaxDepth = 4
  MaxNodes = 0
PROPERTIES
  TextsAreAnswered
CHECK_DEADLOCK FALSE
