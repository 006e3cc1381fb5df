\* The client against a CA that always sends Replay-Nonce.
CONSTANTS
  MaxRuns <- MCMaxRuns
  MaxOrders <- MCMaxOrders
  PollTimeout <- MCPollTimeout
  PollInterval <- MCPollInterval
  CAOmitsNonce = FALSE
SPECIFICATION Spec
INVARIANTS
  TypeOK
  NoNonceReplay
  ReadyBeforeFinalize
  ChallengePublishedBeforeReady
PROPERTIES
  RunEnds
