SPECIFICATION FairSpec
CONSTANTS
  Captures = {"p1", "p2", "p4"}
  Rolls = {"r1"}
  NoRoll = NoRoll
  None = None
  BadRec = BadRec
  MaxCam = 2
  MaxAttempts = 1
  MaxRereads = 1
  QueueMax = 2
  ParkedMax = 1
  ScanMaxDirs = 1
  MetaRoll <- MCMetaRoll
  MetaSlots <- MCMetaSlots
  HasThumb <- MCNoThumbs
  CardDirs <- MCRollDirs
  CardRec <- MCNoRecs
  Events = {"busy", "net"}
  MaxEvents = 3
PROPERTIES EveryCaptureLands
CHECK_DEADLOCK FALSE
