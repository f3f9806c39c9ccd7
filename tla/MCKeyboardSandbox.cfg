SPECIFICATION FairSpec
CONSTANTS
  CAP = 3
  capacity = 1
  Letters = {"Q"}
  Pressed = {"Q", "enter", "shift"}
  ShiftOf <- MCShiftOf
  SandboxCommand <- MCSandboxCommand
PROPERTIES
  SandboxPrints
