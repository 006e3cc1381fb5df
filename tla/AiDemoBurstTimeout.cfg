CONSTANTS
  NB <- MCNB
  Conc <- MCConc
  MaxReqs <- MCMaxReqs

SPECIFICATION Spec

INVARIANTS
  ReportPrinted
\* main() returning ends the program.
CHECK_DEADLOCK FALSE
