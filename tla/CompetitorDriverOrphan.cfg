\* proxy_server outlasts the 2 s grace after SIGTERM; haproxy does not.
CONSTANTS
  p1 = p1
  p2 = p2
  p3 = p3
  Ports <- MCPorts
  NScen <- MCNScen
  Total <- MCTotal
  Concurrency <- MCConcurrency
  SlowServers = {"proxy"}

SPECIFICATION Spec

INVARIANTS
  ServersStoppedAtExit
\* main() returning ends the program.
CHECK_DEADLOCK FALSE
