--------------------------- MODULE MCCoordination ---------------------------
\* The request threads are interchangeable.
EXTENDS Coordination, TLC

ClientSymmetry == Permutations(Clients)
=============================================================================
