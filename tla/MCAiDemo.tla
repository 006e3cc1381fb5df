------------------------------- MODULE MCAiDemo -------------------------------
EXTENDS AiDemo

\* Two backends, so the cleanup walks more than one process; a concurrency
\* of two, so as_completed can wait on one future after yielding another;
\* three requests, so the pipeline is refilled after a first collection.
MCNB == 2
MCConc == 2
MCMaxReqs == 3
=============================================================================
