CONSTANTS
  NModes <- MCNModes
  Total <- MCTotal
  Concurrency <- MCConcurrency
  SpawnBackend = TRUE

SPECIFICATION Spec

INVARIANTS
  ServerKilledAtExit
\* main() returning ends the program.
CHECK_DEADLOCK FALSE
