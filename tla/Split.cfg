SPECIFICATION FairSpec
CONSTANTS
  Applies = {a1, a2}
  Clear = Clear
  None = None
  ReopenAfter = 2
  MaxReopen = 3
INVARIANTS NoZombieCapture
PROPERTIES NoBlackhole CommandsReturn GiveUpIsTold
