---------------------------- MODULE MCIngestion ----------------------------
\* Instances of Ingestion for TLC.
EXTENDS IngestionProperties, TLC

CONSTANTS alice, bob, d1

OneOwner == [d \in Docs |-> alice]
TwoChunks == [d \in Docs |-> 2]

Symmetry == Permutations(Workers) \cup Permutations(Requests)
=============================================================================
