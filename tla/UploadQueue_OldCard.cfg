SPECIFICATION Spec
CONSTANTS
  Captures = {"p1", "p2", "p3", "p5"}
  Rolls = {"r1", "r2"}
  NoRoll = NoRoll
  None = None
  BadRec = BadRec
  MaxCam = 3
  MaxAttempts = 2
  MaxRereads = 1
  QueueMax = 2
  ParkedMax = 1
  ScanMaxDirs = 2
  MetaRoll <- MCMetaRoll
  MetaSlots <- MCOldSlots
  HasThumb <- MCHasThumb
  CardDirs <- MCOldDirs
  CardRec <- MCOldRecs
  Events = {"lost", "busy", "yield", "crash", "net", "refuse", "reject", "halt", "write", "record", "meta", "abandon", "delete", "undo", "enqueue", "adopt", "credential"}
  MaxEvents = 2
INVARIANTS ConfirmedIsHeld
CHECK_DEADLOCK FALSE
