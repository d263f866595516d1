-------------------------- MODULE MCKnowledgeBase --------------------------
\* An instance of KnowledgeBase for TLC.
EXTENDS KnowledgeBase, TLC

CONSTANTS alice, bob, d1, d2

OneOwner  == [d \in Docs |-> alice]
TwoAndOne == d1 :> 2 @@ d2 :> 1
=============================================================================
