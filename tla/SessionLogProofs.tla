-------------------------- MODULE SessionLogProofs --------------------------
(***************************************************************************)
(* PollSession implements SessionLog, for any set of receivers and any      *)
(* values of the time constants, as long as no commit fails and no row that *)
(* a poll job refers to is deleted.                                        *)
(***************************************************************************)
EXTENDS PollSessionProofs

USE TimesAssumption, NoneAssumption, KnownAssumption, FaultsAssumption,
    RowAssumption

\* What a step that confirms nothing may do to row i.
Kept(i) ==
    \/ rows'[i] \in {None, rows[i]}
    \/ /\ rows[i] = None \/ ~rows[i].confirmed
       /\ ~rows'[i].confirmed
    \/ /\ rows[i] # None /\ rows[i].end = None
       /\ \E t \in Time : rows'[i] = [rows[i] EXCEPT !.end = t]

\* An entry of the log is a row.
LEMMA BookEntry ==
    ASSUME TypeOK, NEW i \in Ids
    PROVE  /\ Book[i] = IF rows[i] # None /\ rows[i].confirmed THEN rows[i] ELSE None
           /\ Book[i] # None => Book[i] \in Log!Entry /\ Book[i] \in SessionRow
           /\ rows[i] \in SessionRow \cup {None}
<1>1. rows[i] \in SessionRow \cup {None}
  BY DEF TypeOK
<1>2. Book[i] = IF rows[i] # None /\ rows[i].confirmed THEN rows[i] ELSE None
  BY DEF Book, Live
<1>3. CASE rows[i] # None /\ rows[i].confirmed
  BY <1>1, <1>2, <1>3 DEF SessionRow, Log!Entry, Time, OptTime
<1> QED
  BY <1>1, <1>2, <1>3

\* The log stays well typed.
LEMMA BookType ==
    ASSUME TypeOK
    PROVE  Book \in [Ids -> Log!Entry \cup {None}]
<1>1. \A i \in Ids : Book[i] \in Log!Entry \cup {None}
  BY BookEntry
<1>2. Book = [i \in Ids |-> Book[i]]
  BY DEF Book
<1> QED
  BY <1>1, <1>2

\* A step that treats every row like that is a Settle step of the log.
LEMMA SettleStep ==
    ASSUME TypeOK, TypeOK', ConfirmedLongEnough', \A i \in Ids : Kept(i)
    PROVE  Log!Settle
<1>1. Book' \in [Ids -> Log!Entry \cup {None}]
  <2>1. (TypeOK => Book \in [Ids -> Log!Entry \cup {None}])'
    BY BookType, PTL
  <2> QED
    BY <2>1
<1>2. ASSUME NEW i \in Ids
      PROVE  Book'[i] \in {None, Book[i]} \/ Log!Ends(Book[i], Book'[i])
  <2>1. Book[i] = IF rows[i] # None /\ rows[i].confirmed THEN rows[i] ELSE None
    BY BookEntry
  <2>2. Book'[i] = IF rows'[i] # None /\ rows'[i].confirmed THEN rows'[i] ELSE None
    BY DEF Book, Live
  <2>3. Kept(i) /\ rows[i] \in SessionRow \cup {None}
        /\ rows'[i] \in SessionRow \cup {None}
    BY DEF TypeOK
  <2>4. CASE /\ rows[i] # None /\ rows[i].end = None
             /\ \E t \in Time : rows'[i] = [rows[i] EXCEPT !.end = t]
    <3>0. rows[i] \in SessionRow
      BY <2>3, <2>4
    <3>1. /\ rows'[i] \in SessionRow /\ rows'[i] # None
          /\ rows'[i].end \in Time /\ rows'[i].end # None
          /\ rows'[i] = [rows[i] EXCEPT !.end = rows'[i].end]
          /\ rows'[i].confirmed = rows[i].confirmed
          /\ rows'[i].start = rows[i].start
      BY <2>4, <3>0 DEF SessionRow, Time, OptTime
    <3>2. CASE ~rows[i].confirmed
      BY <2>2, <3>1, <3>2
    <3>3. CASE rows[i].confirmed
      <4>1. rows'[i].end >= rows[i].start + MinWatch
        BY <3>1, <3>3 DEF ConfirmedLongEnough, Live
      <4>2. Book[i] = rows[i] /\ Book'[i] = rows'[i] /\ Book'[i] \in Log!Entry
        BY <1>1, <2>1, <2>2, <2>4, <3>1, <3>3
      <4> QED
        BY <2>4, <3>1, <4>1, <4>2 DEF Log!Ends
    <3> QED
      BY <3>2, <3>3
  <2>5. CASE rows'[i] \in {None, rows[i]}
    BY <2>1, <2>2, <2>5
  <2>6. CASE (rows[i] = None \/ ~rows[i].confirmed) /\ ~rows'[i].confirmed
    BY <2>2, <2>6
  <2> QED
    BY <2>3, <2>4, <2>5, <2>6 DEF Kept
<1> QED
  BY <1>1, <1>2 DEF Log!Settle

\* Confirming row i adds it to the log.
LEMMA BeginStep ==
    ASSUME IInv, IInv', NEW i \in Ids, rows[i] # None,
           rows[i].end = None, ~rows[i].confirmed,
           rows' = [rows EXCEPT ![i].confirmed = TRUE]
    PROVE  Log!Begin(i)
<1>1. rows \in [Ids -> SessionRow \cup {None}] /\ rows[i] \in SessionRow
  BY DEF IInv, TypeOK
<1>2. /\ rows'[i] \in SessionRow /\ rows'[i].confirmed /\ rows'[i].end = None
      /\ rows'[i] # None
      /\ \A j \in Ids : j # i => rows'[j] = rows[j]
  BY <1>1 DEF SessionRow
<1>3. \A j \in Ids :
         Book[j] = IF rows[j] # None /\ rows[j].confirmed THEN rows[j] ELSE None
  BY BookEntry DEF IInv
<1>4. \A j \in Ids :
         Book'[j] = IF rows'[j] # None /\ rows'[j].confirmed THEN rows'[j] ELSE None
  BY DEF Book, Live
<1>5. Book[i] = None /\ Book'[i] = rows'[i]
  BY <1>2, <1>3, <1>4
<1>6. Book' = [Book EXCEPT ![i] = Book'[i]]
  <2>1. \A j \in Ids : j # i => Book'[j] = Book[j]
    BY <1>2, <1>3, <1>4
  <2>2. Book = [j \in Ids |-> Book[j]] /\ Book' = [j \in Ids |-> Book'[j]]
    BY DEF Book
  <2> QED
    BY <2>1, <2>2
<1>7. Book'[i] \in Log!Entry
  BY <1>2, <1>5 DEF SessionRow, Log!Entry, Time, OptTime
<1>8. ASSUME NEW j \in Ids, Book[j] # None, Book[j].rcv = Book'[i].rcv
      PROVE  Book[j].end # None /\ Book[j].end <= Book'[i].start
  <2>1. j # i /\ rows[j] # None /\ rows[j].confirmed /\ Book[j] = rows[j]
    BY <1>3, <1>5, <1>8
  <2>2. Before(rows[j], rows'[i]) \/ Before(rows'[i], rows[j])
    BY <1>2, <1>5, <1>8, <2>1 DEF IInv, NoOverlap, Live, Before
  <2> QED
    BY <1>2, <1>5, <2>1, <2>2 DEF Before
<1> QED
  BY <1>2, <1>5, <1>6, <1>7, <1>8 DEF Log!Begin

-----------------------------------------------------------------------------
(* The steps of PollSession.                                               *)

\* Ending the session a poll job remembers, if its row is there.
LEMMA CloseKept ==
    ASSUME IInv, NEW r \in Receivers, NEW t \in Time, mem[r].sid # None,
           rows' = CloseRow(rows, mem[r].sid, t), NEW i \in Ids
    PROVE  Kept(i)
<1> DEFINE k == mem[r].sid
<1>1. k \in Ids /\ rows[k] # None /\ rows[k].end = None
  BY SessionFacts
<1>2. rows' = [rows EXCEPT ![k].end = t]
  BY <1>1 DEF CloseRow
<1>3. rows \in [Ids -> SessionRow \cup {None}]
  BY DEF IInv, TypeOK
<1>4. i # k => rows'[i] = rows[i]
  BY <1>2, <1>3
<1>5. i = k => rows'[i] = [rows[i] EXCEPT !.end = t]
  BY <1>1, <1>2, <1>3
<1> QED
  BY <1>1, <1>4, <1>5 DEF Kept

\* A change of service ends the confirmed session, and opens a row that is
\* not confirmed.
LEMMA ChannelChangeKept ==
    ASSUME NoFaults, IInv, NEW r \in Receivers, NEW s \in Srefs \cup {None},
           ChannelChange(r, s), NEW i \in Ids
    PROVE  Kept(i)
<1> DEFINE at == poll[r].at
           m == [mem[r] EXCEPT !.lastOk = at]
           ends == m.sid # None /\ m.confirmed
           ended == IF ends THEN CloseRow(rows, m.sid, at) ELSE rows
           opened(k) == [ended EXCEPT ![k] = [rcv |-> r, sref |-> s, start |-> at,
                                              end |-> None, confirmed |-> FALSE]]
<1>1. rows \in [Ids -> SessionRow \cup {None}] /\ at \in Time /\ mem[r] \in MemState
  BY DEF IInv, TypeOK
<1>2. m.sid = mem[r].sid
  BY <1>1 DEF MemState
<1>3. \/ rows' = ended
      \/ \E k \in NextId(ended) : rows' = opened(k)
  BY DEF ChannelChange, Commit, NoFaults
<1>4. /\ ended \in [Ids -> SessionRow \cup {None}]
      /\ \/ ended[i] = rows[i]
         \/ /\ rows[i] # None /\ rows[i].end = None
            /\ ended[i] = [rows[i] EXCEPT !.end = at]
            /\ ended[i] # None
  <2>1. CASE ~ends
    BY <1>1, <2>1
  <2>2. CASE ends
    <3> DEFINE k == mem[r].sid
    <3>1. k \in Ids /\ rows[k] # None /\ rows[k] \in SessionRow /\ rows[k].end = None
      BY <1>2, <2>2, SessionFacts
    <3>2. ended = [rows EXCEPT ![k].end = at]
      BY <1>2, <2>2, <3>1 DEF CloseRow
    <3>3. [rows[k] EXCEPT !.end = at] \in SessionRow
      BY <1>1, <3>1 DEF SessionRow, Time, OptTime
    <3>4. ended = [rows EXCEPT ![k] = [rows[k] EXCEPT !.end = at]]
      BY <1>1, <3>1, <3>2
    <3> HIDE DEF k, ended
    <3>5. CASE i = k
      BY <1>1, <3>1, <3>3, <3>4, <3>5
    <3>6. CASE i # k
      BY <1>1, <3>1, <3>3, <3>4, <3>6
    <3> QED
      BY <3>5, <3>6
  <2> QED
    BY <2>1, <2>2
<1> HIDE DEF ended
<1>5. CASE rows' = ended
  BY <1>1, <1>4, <1>5 DEF Kept
<1>6. ASSUME NEW k \in NextId(ended), rows' = opened(k)
      PROVE  Kept(i)
  <2>1. k \in Ids /\ ended[k] = None
    <3>1. k \in Ids /\ \A j \in Ids : ended[j] # None => j < k
      BY DEF NextId
    <3> QED
      BY <3>1 DEF Ids
  <2>2. CASE i = k
    <3>1. rows'[i] = [rcv |-> r, sref |-> s, start |-> at, end |-> None,
                      confirmed |-> FALSE]
      BY <1>4, <1>6, <2>1, <2>2
    <3>2. rows[i] = None
      BY <1>4, <2>1, <2>2
    <3> QED
      BY <3>1, <3>2 DEF Kept
  <2>3. CASE i # k
    <3>1. rows'[i] = ended[i]
      BY <1>4, <1>6, <2>1, <2>3
    <3> QED
      BY <1>1, <1>4, <3>1 DEF Kept
  <2> QED
    BY <2>2, <2>3
<1> QED
  BY <1>3, <1>5, <1>6

\* The orphan sweep of a restart.
LEMMA StartupKept ==
    ASSUME IInv, Startup, NEW i \in Ids
    PROVE  Kept(i)
<1>1. rows'[i] = SweepOrphan(rows[i])
  BY DEF Startup
<1>2. rows[i] \in SessionRow \cup {None}
  BY DEF IInv, TypeOK
<1>3. CASE rows[i] = None \/ rows[i].end # None
  BY <1>1, <1>3 DEF SweepOrphan, Kept
<1>4. CASE rows[i] # None /\ rows[i].end = None /\ ~rows[i].confirmed
  BY <1>1, <1>4 DEF SweepOrphan, Kept
<1>5. CASE rows[i] # None /\ rows[i].end = None /\ rows[i].confirmed
  <2>1. rows[i] \in SessionRow /\ lastSeen[rows[i].rcv] \in OptTime
    BY <1>2, <1>5 DEF IInv, TypeOK, SessionRow
  <2>2. OrphanEnd(rows[i], lastSeen[rows[i].rcv]) \in Time
    BY <2>1, OrphanEndType
  <2> QED
    BY <1>1, <1>5, <2>2 DEF SweepOrphan, Kept
<1> QED
  BY <1>3, <1>4, <1>5

\* Every step of the poll jobs and of what surrounds them is a step of the log.
LEMMA LogStep == NoFaults /\ IInv /\ IInv' /\ [Next]_vars => [Log!Next]_Book
<1> SUFFICES ASSUME NoFaults, IInv, IInv', [Next]_vars
             PROVE  Log!Next
  OBVIOUS
<1>0. ASSUME \A i \in Ids : Kept(i) PROVE Log!Next
  BY <1>0, SettleStep DEF IInv, Log!Next
<1>1. CASE rows' = rows
  BY <1>0, <1>1 DEF Kept
<1>2. ASSUME NEW r \in Receivers, PollNotOn(r)
      PROVE  Log!Next
  <2>1. poll[r].at \in Time
    BY DEF IInv, TypeOK
  <2>2. \/ rows' = rows
        \/ /\ mem[r].sid # None
           /\ rows' = CloseRow(rows, mem[r].sid, poll[r].at)
    BY <1>2 DEF PollNotOn, Commit, NoFaults
  <2> QED
    BY <1>0, <1>1, <2>1, <2>2, CloseKept
<1>3. ASSUME NEW r \in Receivers, PollOffline(r)
      PROVE  Log!Next
  <2>1. \/ rows' = rows
        \/ /\ mem[r].sid # None /\ mem[r].lastOk # None
           /\ rows' = CloseRow(rows, mem[r].sid, mem[r].lastOk + PollInterval)
    BY <1>3 DEF PollOffline, Commit, NoFaults
  <2>2. mem[r].lastOk # None => mem[r].lastOk + PollInterval \in Time
    BY DEF IInv, TypeOK, MemState, OptTime, Time
  <2> QED
    BY <1>0, <1>1, <2>1, <2>2, CloseKept
<1>4. ASSUME NEW r \in Receivers, NEW s \in Srefs \cup {None}, PollService(r, s)
      PROVE  Log!Next
  <2>1. CASE ChannelChange(r, s)
    BY <1>0, <2>1, ChannelChangeKept
  <2>2. CASE SameChannel(r)
    <3> DEFINE k == mem[r].sid
    <3>1. \/ rows' = rows
          \/ /\ k # None /\ ~mem[r].confirmed
             /\ rows' = [rows EXCEPT ![k].confirmed = TRUE]
      <4>1. mem[r] \in MemState
        BY DEF IInv, TypeOK
      <4> QED
        BY <2>2, <4>1 DEF SameChannel, Commit, NoFaults, MemState
    <3>2. k # None => /\ k \in Ids /\ rows[k] # None /\ rows[k].end = None
                      /\ rows[k].confirmed = mem[r].confirmed
      BY SessionFacts
    <3>3. CASE k # None /\ ~mem[r].confirmed /\ rows' = [rows EXCEPT ![k].confirmed = TRUE]
      BY <3>2, <3>3, BeginStep DEF Log!Next
    <3> QED
      BY <1>1, <3>1, <3>3
  <2> QED
    BY <1>4, <2>1, <2>2 DEF PollService
<1>5. ASSUME NEW i \in Ids, DeleteSession(i)
      PROVE  Log!Next
  <2>1. \A j \in Ids : rows'[j] \in {None, rows[j]}
    BY <1>5 DEF DeleteSession, IInv, TypeOK
  <2> QED
    BY <1>0, <2>1 DEF Kept
<1>6. CASE CleanupOldSessions
  <2>1. \A j \in Ids : rows'[j] \in {None, rows[j]}
    BY <1>6 DEF CleanupOldSessions
  <2> QED
    BY <1>0, <2>1 DEF Kept
<1>7. CASE Startup
  BY <1>0, <1>7, StartupKept
<1>8. CASE UNCHANGED vars \/ Tick \/ Crash
  BY <1>1, <1>8 DEF vars, Tick, Crash
<1>9. ASSUME NEW r \in Receivers,
             \/ PollBegin(r) \/ PollOn(r) \/ PollUnparsable(r) \/ ProbeReceiver(r)
             \/ \E found \in SUBSET Srefs : RefreshChannels(r, found)
      PROVE  Log!Next
  BY <1>1, <1>9 DEF PollBegin, PollOn, PollUnparsable, ProbeReceiver, RefreshChannels
<1> QED
  BY <1>2, <1>3, <1>4, <1>5, <1>6, <1>7, <1>8, <1>9 DEF Next

\* The poll jobs, restarts, the administrator and the retention job implement
\* the log of viewing sessions that recommendations, profile and history read:
\* sessions of a receiver follow one another, are long enough, end once, and
\* only then may the next begin (poller.py:69-140, 611-644).
THEOREM LogRefinement == NoFaults => (Spec => LogIsKept)
<1>1. Init => Log!Init
  BY DEF Init, Log!Init, Book, Live
<1>2. NoFaults /\ IInv /\ IInv' /\ [Next]_vars => [Log!Next]_Book
  BY LogStep
<1>3. NoFaults => []NoFaults
  <2> SUFFICES ASSUME NoFaults PROVE []NoFaults
    OBVIOUS
  <2> QED
    BY PTL DEF NoFaults
<1> QED
  BY <1>1, <1>2, <1>3, Invariance, PTL DEF Spec, Log!Spec, LogIsKept
=============================================================================
