SPECIFICATION Spec
CONSTANTS
  Captures = {"p1", "p2"}
  Rolls = {"r1"}
  NoRoll = NoRoll
  None = None
  BadRec = BadRec
  MaxCam = 2
  MaxAttempts = 2
  MaxRereads = 1
  QueueMax = 1
  ParkedMax = 0
  ScanMaxDirs = 2
  MetaRoll <- MCMetaRoll
  MetaSlots <- MCMetaSlots
  HasThumb <- MCNoThumbs
  CardDirs <- MCNoDirs
  CardRec <- MCNoRecs
  Events = {"abandon"}
  MaxEvents = 1
INVARIANTS NothingStranded
CHECK_DEADLOCK FALSE
