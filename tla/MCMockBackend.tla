---------------------------- MODULE MCMockBackend ---------------------------
(* The mock backend with three concurrent requests, enough for two to race *)
(* on a counter while the third snapshots it, and one X-Model value.       *)
EXTENDS MockBackend

CONSTANTS r1, r2, r3, m1, NoThreadV, NoModelV

MCReq == {r1, r2, r3}
MCModels == {m1}

=============================================================================
