SPECIFICATION Spec
CONSTANTS
  CAP = 3
  capacity = 1
  Letters = {"Q", "W"}
  Pressed = {"Q", "W", "enter", "backspace"}
  ShiftOf <- MCShiftOf
  SandboxCommand <- MCSandboxCommand
PROPERTIES
  ReadsLines
