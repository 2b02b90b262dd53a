SPECIFICATION Spec
CONSTANTS
  Captures = {"p1", "p2", "p4"}
  Rolls = {"r1"}
  NoRoll = NoRoll
  None = None
  BadRec = BadRec
  MaxCam = 2
  MaxAttempts = 2
  MaxRereads = 1
  QueueMax = 2
  ParkedMax = 1
  ScanMaxDirs = 3
  MetaRoll <- MCMetaRoll
  MetaSlots <- MCMetaSlots
  HasThumb <- MCNoThumbs
  CardDirs <- MCNoDirs
  CardRec <- MCNoRecs
  Events = {"delete"}
  MaxEvents = 2
INVARIANTS NoGhostJobs
CHECK_DEADLOCK FALSE
