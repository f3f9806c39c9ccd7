SPECIFICATION FairPollingSpec
CONSTANTS
  CAP = 2
  capacity = 1
  Letters = {"Q"}
  Pressed = {"Q", "enter", "shift"}
  ShiftOf <- MCShiftOf
  SandboxCommand <- MCSandboxCommand
CHECK_DEADLOCK FALSE
INVARIANTS
  PollingTypeOK
  SlotStays
  PollingAlone
PROPERTIES
  PollingReadsLines
  PollingEnterReturns
