------------------------------ MODULE MCScoring ------------------------------
(* Values of Scoring's constants for TLC: who sees which events.            *)
EXTENDS Scoring

SeesAll == [u \in Users |-> Events]

=============================================================================
