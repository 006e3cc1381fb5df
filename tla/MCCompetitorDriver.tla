-------------------------- MODULE MCCompetitorDriver --------------------------
EXTENDS CompetitorDriver

CONSTANTS p1, p2, p3

\* Three ports, so the three reservations can all differ or collide in
\* every pattern; two jobs under a semaphore of one, so one waits; two
\* scenarios, so the loads of one follow those of another.
MCPorts == {p1, p2, p3}
MCNScen == 2
MCTotal == 2
MCConcurrency == 1
=============================================================================
