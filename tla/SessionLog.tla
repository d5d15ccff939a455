----------------------------- MODULE SessionLog -----------------------------
(***************************************************************************)
(* What the readers of viewing_sessions rely on: the log of confirmed       *)
(* sessions, without the polls that write it.  Per receiver the sessions    *)
(* follow one another, only the latest is open, each that has ended lasted  *)
(* at least min_watch_sec, and what has ended is never changed again.       *)
(* PollSession implements it, see Log there.                               *)
(***************************************************************************)
EXTENDS Naturals

CONSTANTS
    Ids,        \* ids of sessions
    Receivers,
    Srefs,      \* service references
    None,       \* no such session, or no end yet
    MinWatch    \* settings.min_watch_sec

VARIABLE book   \* per id, the confirmed session

Entry == [rcv : Receivers, sref : Srefs, start : Nat, end : Nat \cup {None},
          confirmed : {TRUE}]

Init == book = [i \in Ids |-> None]

\* A session becomes part of the log, long after its start.  All others of
\* its receiver are over by that start.
Begin(i) ==
    LET e == book'[i]
    IN  /\ book[i] = None
        /\ e \in Entry /\ e.end = None
        /\ \A j \in Ids : book[j] # None /\ book[j].rcv = e.rcv
                          => book[j].end # None /\ book[j].end <= e.start
        /\ book' = [book EXCEPT ![i] = e]

\* An open session ends.
Ends(before, after) ==
    /\ before # None /\ before.end = None
    /\ after \in Entry /\ after.end # None
    /\ after.end >= before.start + MinWatch
    /\ after = [before EXCEPT !.end = after.end]

\* Sessions end, or are removed; the others stay as they are.
Settle ==
    /\ book' \in [Ids -> Entry \cup {None}]
    /\ \A i \in Ids : \/ book'[i] \in {None, book[i]}
                      \/ Ends(book[i], book'[i])

Next == (\E i \in Ids : Begin(i)) \/ Settle

Spec == Init /\ [][Next]_book
=============================================================================
