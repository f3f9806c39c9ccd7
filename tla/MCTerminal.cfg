SPECIFICATION Spec
CONSTANTS
  rows = 3
  columns = 2
  Glyphs = {"A"}
  Colours = {"black", "red"}
  Messages <- MCMessages
INVARIANTS
  TypeOK
  CursorReachable
  BlankAhead
  ScreenShowsText
PROPERTIES
  TextKept
