SPECIFICATION Spec
CONSTANTS
  Captures = {"p1", "p2"}
  Rolls = {"r1"}
  NoRoll = NoRoll
  None = None
  BadRec = BadRec
  MaxCam = 2
  MaxAttempts = 2
  MaxRereads = 1
  QueueMax = 2
  ParkedMax = 1
  ScanMaxDirs = 2
  MetaRoll <- MCMetaRoll
  MetaSlots <- MCMetaSlots
  HasThumb <- MCNoThumbs
  CardDirs <- MCNoDirs
  CardRec <- MCNoRecs
  Events = {"crash", "frames", "retry", "write"}
  MaxEvents = 4
INVARIANTS ConfirmedIsHeld
CHECK_DEADLOCK FALSE
