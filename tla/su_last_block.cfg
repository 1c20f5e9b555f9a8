SPECIFICATION ToolsSpec
CONSTANTS
  Tools = {"su_check"}
  Registers <- SomeRegisters
  PerTable = 3
  Zero = Zero
  NoBlock = NoBlock
  Absent = Absent
  Empty = Empty
  Intact = Intact
  Damaged = Damaged
  Updates <- LastBlockDamaged
  CommandLines <- SomeCommandLines
  Off = Off
  PatchNames <- SomeNames
  Folders <- SomeFolders
  Bases <- SomeBases
  NameWords = 4
  Width = 64
  Nul = 0
  Missing = Missing
  MaxCalls = 2
  fileList <- SomeTypes
  Disks <- AllDisks
  Cells <- SomeCells
  Gone = Gone
  Junk = Junk
CHECK_DEADLOCK FALSE
INVARIANT AcceptedIsIntact
