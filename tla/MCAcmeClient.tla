---------------------------- MODULE MCAcmeClient ----------------------------
(* The ACME client and CA of AcmeClient on a small instance for TLC: three *)
(* invocations of main() (so a crash or failure can be followed by two     *)
(* reruns), as many orders, and poll loops of two iterations.              *)
EXTENDS AcmeClient

MCMaxRuns == 3
MCMaxOrders == 3
MCPollTimeout == 2
MCPollInterval == 1

=============================================================================
