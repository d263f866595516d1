------------------------- MODULE MCIngestionHistory -------------------------
\* The instance of IngestionHistory for TLC: a document for each of two users.
EXTENDS IngestionHistory, TLC

CONSTANTS alice, bob, d1, d2

TwoOwners == d1 :> alice @@ d2 :> bob

\* d2 has no extractable text.
OneEmpty == d1 :> 2 @@ d2 :> 0
=============================================================================
