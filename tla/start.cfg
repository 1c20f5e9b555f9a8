SPECIFICATION MCSpec
CONSTANTS
  LowWords = 4
  SlotWords = 5
  FuseWords = 2
  HoldWord = 18
  Lists <- FittingLists
  End = End
  Old = Old
  Soc = Soc
  Fuse = Fuse
  Unset = Unset
  Empty = Empty
  Reasons = {eject, power, guide}
  Eject = eject
  TrayStates = {open, ajar, closed}
  Open = open
  Closed = closed
  MaxEvents = 2
CHECK_DEADLOCK FALSE
INVARIANTS StartTypeOK XellAsConfigured SocPatched ListsInPlace FusesBelowHoldWord
PROPERTIES ChoiceMade FirmwareStarted
