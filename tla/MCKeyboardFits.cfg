SPECIFICATION Spec
CONSTANTS
  CAP = 2
  capacity = 1
  Letters = {"Q"}
  Pressed = {"Q", "enter", "backspace", "dead", "shift"}
  ShiftOf <- MCShiftOf
  SandboxCommand <- MCSandboxCommand
INVARIANTS
  LineFits
