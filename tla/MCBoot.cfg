SPECIFICATION FairSpec
CONSTANTS
  LoaderBytes = 3000
  KernelBytes = 87500
  MaxErrors = 1
  IRQs <- MCIRQs
CHECK_DEADLOCK FALSE
INVARIANTS
  TypeOK
  KernelInPlace
  NoCrash
  ServiceMatches
PROPERTIES
  KeyboardLives
