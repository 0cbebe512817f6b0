SPECIFICATION Spec
CONSTANTS
  Image = {i1, i2}
  NoFile = NoFile
  Partial = Partial
  Faults <- AllFaults
INVARIANTS
  TypeOK
  NeverTorn
  RenamesItsOwnImage
PROPERTIES
  IsAtomicRegister
