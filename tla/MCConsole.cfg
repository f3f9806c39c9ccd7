SPECIFICATION ConsoleSpec
CONSTANTS
  CAP = 2
  Letters = {"Q"}
  ShiftOf <- MCShiftOf
  Pressed = {"Q", "enter", "backspace"}
  capacity = 1
  SandboxCommand <- MCSandboxCommand
  ClearCommand <- MCClearCommand
  Reply <- MCReply
  Prompt = ">"
  rows = 3
  columns = 2
  Glyphs = {"Q", "q", ">"}
  Colours = {"black", "red"}
INVARIANTS
  ScreenIsCurrent
  EchoMatchesLine
  CursorHidden
