SPECIFICATION FairSpec
CONSTANTS
  Names = {"A", "B", "LONG", "lower", "contents", "romdisk"}
  NameLength <- MCNameLength
  Sane = {"A", "B", "LONG"}
  Data = {"x", "y"}
  EntryLimit = 4
  BlockSize = 2
  CommandLines <- MCCommandLines
  FileContents <- MCFileContents
CHECK_DEADLOCK FALSE
INVARIANTS
  TypeOK
  SpansApart
  FilesFound
  FoundIfPacked
PROPERTIES
  PackerEnds
