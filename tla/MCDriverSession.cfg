SPECIFICATION Spec
CONSTANTS
  Driver <- Drivers
  File <- Files
  Faults <- AllFaults
INVARIANTS
  TypeOK
  RunningIsOldOrWhole
  
PROPERTIES
  SilenceEnds
CHECK_DEADLOCK FALSE
