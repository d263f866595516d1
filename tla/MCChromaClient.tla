--------------------------- MODULE MCChromaClient ---------------------------
\* An instance of ChromaClient for TLC.
EXTENDS ChromaClient, TLC
=============================================================================
