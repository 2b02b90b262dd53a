SPECIFICATION Spec
CONSTANTS
  Captures = {"p1", "p4"}
  Rolls = {"r1"}
  NoRoll = NoRoll
  None = None
  BadRec = BadRec
  MaxCam = 2
  MaxAttempts = 2
  MaxRereads = 1
  QueueMax = 1
  ParkedMax = 0
  ScanMaxDirs = 3
  MetaRoll <- MCMetaRoll
  MetaSlots <- MCMetaSlots
  HasThumb <- MCHasThumb
  CardDirs <- MCOneDir
  CardRec <- MCNoRecs
  Events = {"lost", "yield", "crash", "reject", "halt", "retry", "body", "frames", "enqueue"}
  MaxEvents = 3
INVARIANTS TypeOK NothingStranded
PROPERTIES ProgressKept
CHECK_DEADLOCK FALSE
