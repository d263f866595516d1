------------------------------- MODULE MCChat -------------------------------
\* Instances of Chat for TLC.
EXTENDS ChatProperties, TLC

Symmetry == Permutations(Requests) \cup Permutations(Convs)
=============================================================================
