SPECIFICATION DiscSpec
CONSTANTS
  Parts = {"xex"}
  SlotsPerSector = 2
  SectorBytes = 4
  Width = 64
  FirstEnd = 4
  Images <- SomeImages
  Pad = Pad
  NoEntry = NoEntry
  ReadFails = FALSE
  Off = Off
  Executables <- DamagedExecutables
  Streams <- SomeStreams
  Nothing = Nothing
  Far = 16
  Sign = 8
  Addresses = 1024
  HeadCells = 2
  Files <- SomeFiles
  Xdki = 2
  Xgd3 = 5
  Xgd2 = 9
  Other = Other
  NoFile = NoFile
  Titles <- SomeTitles
  Locales = 2
  NameRoom = 4
  DescRoom = 6
  IconRoom = 3
  NoDescription <- NoText
  Absent = Absent
  Unused = Unused
  Conversions = {"disc1", "disc2"}
  FileNames = {"out", "title", "disc1", "disc2"}
  baseOutPath <- DataFolders
  Paths <- FolderPaths
  FileSystems <- SomeFileSystems
  Denied <- Refusals
CHECK_DEADLOCK FALSE
INVARIANT UnpackTruthful
