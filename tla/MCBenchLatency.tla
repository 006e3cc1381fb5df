--------------------------- MODULE MCBenchLatency ---------------------------
EXTENDS BenchLatency

\* Three distinct latencies and up to five jobs: ties, every order and the
\* lengths at which int(len * 0.9) and int(len * 0.99) change.
MCLatencies == {1, 2, 3}
MCMaxSamples == 5

=============================================================================
