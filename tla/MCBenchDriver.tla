---------------------------- MODULE MCBenchDriver ----------------------------
EXTENDS BenchDriver

\* Two modes, so a server left behind by mode 1 can meet mode 2; two jobs
\* under a semaphore of one, so one waits for the other.
MCNModes == 2
MCTotal == 2
MCConcurrency == 1
=============================================================================
