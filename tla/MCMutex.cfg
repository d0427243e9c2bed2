CONSTANTS
  Task = {1, 2, 3, 4}
  Mutex = {1}
  Base <- Rising
  Waits = {"no", "some", "forever"}
SPECIFICATION FairSpec
INVARIANTS
  BaseRestored
  NoLostWakeup
  HolderOutranks
  RunsHighest
PROPERTIES
  TopGetsMutex
