CONSTANTS
  NB <- MCNB
  Conc <- MCConc
  MaxReqs <- MCMaxReqs

SPECIFICATION Spec

INVARIANTS
  TypeOK
  CleanedUpAtExit

PROPERTIES
  Terminates
\* main() returning ends the program.
CHECK_DEADLOCK FALSE
