------------------------------- MODULE MCRemote -------------------------------
(* Values of Remote's constants for TLC.                                    *)
EXTENDS Remote, TLC

\* The box stands where the first user usually sits.
CONSTANT first
FirstSitsThere == [r \in Receivers |-> first]
NobodySitsThere == [r \in Receivers |-> None]

Interchangeable == Permutations(Requests) \cup Permutations(Channels)

=============================================================================
