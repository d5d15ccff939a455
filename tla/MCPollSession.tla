--------------------------- MODULE MCPollSession ---------------------------
(* Small instances of PollSession for TLC. *)
EXTENDS PollSession, TLC

Interchangeable == Permutations(Receivers) \cup Permutations(Srefs)

=============================================================================
