\* The client against a CA that may answer a POST without Replay-Nonce.
CONSTANTS
  MaxRuns <- MCMaxRuns
  MaxOrders <- MCMaxOrders
  PollTimeout <- MCPollTimeout
  PollInterval <- MCPollInterval
  CAOmitsNonce = TRUE
SPECIFICATION Spec
INVARIANTS
  NoNonceReplay
