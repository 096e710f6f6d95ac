-------------------------- MODULE MCTokenRegistry --------------------------
\* A small instance of TokenRegistry: an indexer and two backfill workers.
EXTENDS TokenRegistry, TLC

CONSTANTS p1, p2, p3

=============================================================================
