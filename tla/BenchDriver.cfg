CONSTANTS
  NModes <- MCNModes
  Total <- MCTotal
  Concurrency <- MCConcurrency
  SpawnBackend = TRUE

SPECIFICATION Spec

INVARIANTS
  TypeOK
  ResultsAccount

PROPERTIES
  Terminates
\* main() returning ends the program.
CHECK_DEADLOCK FALSE
