---------------------------- MODULE MCLlmCallers ----------------------------
\* LlmCallers for a language without a file of its own.
EXTENDS LlmCallers, TLC

CONSTANTS s1, t1, t2, en, k1

NoneCurated == [l \in Langs |-> {}]
=============================================================================
