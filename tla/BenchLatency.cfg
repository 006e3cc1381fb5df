CONSTANTS
  Latencies <- MCLatencies
  MaxSamples <- MCMaxSamples

SPECIFICATION Spec

INVARIANTS
  TypeOK
  

\* The report is the last step of a mode; the program goes on to the next.
CHECK_DEADLOCK FALSE
