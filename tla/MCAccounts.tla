----------------------------- MODULE MCAccounts -----------------------------
\* Instances of Accounts for TLC: an address in two spellings, two that
\* normalise to them (as a long s normalises to s, and a trade mark sign to
\* upper-case TM), and one that is longer than a username may be.
EXTENDS Accounts, TLC

CONSTANTS ann, Ann, ann_s, ann_TM, long

LowerCase == [e \in Emails |-> IF e = Ann THEN ann ELSE e]

NormalForm ==
    [e \in Emails |-> CASE e = ann_s -> ann [] e = ann_TM -> Ann [] OTHER -> e]

Symmetry == Permutations(Requests) \cup Permutations(Passwords)
=============================================================================
