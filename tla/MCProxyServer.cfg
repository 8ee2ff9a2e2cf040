\* The root process really ends: no deadlock check.
SPECIFICATION Spec
CONSTANT MaxForks = 3
CHECK_DEADLOCK FALSE
INVARIANTS
  TypeOK
  LiveChildIsListed
  ZombieIsAnnounced
  NoOrphan
PROPERTIES
  StaleOnlyByLateEntry
  ZombieIsReaped
  ApiDeathStopsProxy
  StopTerminates
