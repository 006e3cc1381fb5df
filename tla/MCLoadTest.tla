----------------------------- MODULE MCLoadTest -----------------------------
EXTENDS LoadTest

CONSTANTS b1, m1, NoModelV

\* A window of two, four requests before the deadline: enough for a round
\* to time out with one future yielded and one still running, and for the
\* p50 and p90 ranks (2 and 3 of 4) to differ.
MCConcurrency == 2
MCMaxReq == 4
MCBackends == {b1}
MCModels == {m1}
MCLatencies == {1, 2}
=============================================================================
