-------------------------- MODULE PollSessionProofs --------------------------
(***************************************************************************)
(* Theorems about PollSession, for any set of receivers and any values of  *)
(* the time constants.                                                     *)
(***************************************************************************)
EXTENDS PollSession, TLAPS

USE TimesAssumption, NoneAssumption, KnownAssumption, FaultsAssumption,
    RowAssumption

-----------------------------------------------------------------------------
(* Type correctness holds whatever fails: no assumption on the faults.     *)

\* Closing a row keeps the table well typed.
LEMMA CloseRowType ==
    ASSUME NEW rs \in [Ids -> SessionRow \cup {None}],
           NEW i \in Ids \cup {None}, NEW t \in Time
    PROVE  CloseRow(rs, i, t) \in [Ids -> SessionRow \cup {None}]
<1>1. CASE i # None /\ rs[i] # None
  <2>1. i \in Ids /\ rs[i] \in SessionRow
    BY <1>1
  <2>2. [rs[i] EXCEPT !.end = t] \in SessionRow
    BY <2>1 DEF SessionRow, Time, OptTime
  <2>3. [rs EXCEPT ![i].end = t] \in [Ids -> SessionRow \cup {None}]
    BY <2>1, <2>2
  <2> QED
    BY <1>1, <2>3 DEF CloseRow
<1>2. CASE ~(i # None /\ rs[i] # None)
  BY <1>2 DEF CloseRow
<1> QED
  BY <1>1, <1>2

\* The history variable stays well typed.
LEMMA ObserveType ==
    ASSUME TypeOK, NEW r \in Receivers, NEW s \in Srefs \cup {None},
           Observe(r, s, poll[r].at)
    PROVE  streak' \in [Receivers -> Streak]
<1>1. poll[r].at \in Time
  BY DEF TypeOK
<1>2. NoStreak \in Streak
  BY DEF NoStreak, Streak, Time
<1>3. [sref |-> s, since |-> poll[r].at, last |-> poll[r].at] \in Streak
  BY <1>1 DEF Streak
<1>4. [streak[r] EXCEPT !.last = poll[r].at] \in Streak
  BY <1>1 DEF Streak, TypeOK
<1> QED
  BY <1>2, <1>3, <1>4 DEF Observe, TypeOK

\* So it does when a poll learns nothing.
LEMMA ObserveNothingType ==
    ASSUME TypeOK, NEW r \in Receivers, ObserveNothing(r)
    PROVE  streak' \in [Receivers -> Streak]
BY DEF ObserveNothing, NoStreak, Streak, Time, TypeOK

\* A finished poll leaves the poll jobs well typed.
LEMMA FinishType ==
    ASSUME TypeOK, NEW r \in Receivers, Finish(r)
    PROVE  poll' \in [Receivers -> [phase : Phases, at : Time]]
BY DEF Finish, IdlePoll, Phases, Time, TypeOK

\* A commit of well-typed tables, or its rollback, leaves well-typed tables.
LEMMA CommitType ==
    ASSUME TypeOK,
           NEW rs \in [Ids -> SessionRow \cup {None}],
           NEW seen \in [Receivers -> OptTime],
           Commit(rs, seen)
    PROVE  /\ rows' \in [Ids -> SessionRow \cup {None}]
           /\ lastSeen' \in [Receivers -> OptTime]
BY DEF Commit, TypeOK

LEMMA ForgetType ==
    ASSUME NEW m \in MemState
    PROVE  Forget(m) \in MemState /\ ForgetWithSref(m) \in MemState
BY DEF Forget, ForgetWithSref, MemState, OptTime

LEMMA OrphanEndType ==
    ASSUME NEW row \in SessionRow, NEW seen \in OptTime
    PROVE  /\ OrphanEnd(row, seen) \in Time
           /\ OrphanEnd(row, seen) >= row.start + MinWatch
BY DEF OrphanEnd, SessionRow, OptTime, Time

LEMMA SweepOrphanType ==
    ASSUME TypeOK, NEW row \in SessionRow \cup {None}
    PROVE  SweepOrphan(row) \in SessionRow \cup {None}
<1>1. CASE row = None \/ row.end # None \/ ~row.confirmed
  BY <1>1 DEF SweepOrphan
<1>2. CASE ~(row = None \/ row.end # None \/ ~row.confirmed)
  <2>1. row \in SessionRow /\ lastSeen[row.rcv] \in OptTime
    BY <1>2 DEF TypeOK, SessionRow
  <2>2. [row EXCEPT !.end = OrphanEnd(row, lastSeen[row.rcv])] \in SessionRow
    BY <2>1, OrphanEndType DEF SessionRow, OptTime
  <2> QED
    BY <1>2, <2>2 DEF SweepOrphan
<1> QED
  BY <1>1, <1>2

LEMMA InitType == Init => TypeOK
BY DEF Init, TypeOK, FreshMem, IdlePoll, NoStreak, Streak, MemState, Phases,
       Time, OptTime


LEMMA ChannelChangeType ==
    ASSUME TypeOK, NEW r \in Receivers, NEW s \in Srefs \cup {None},
           ChannelChange(r, s)
    PROVE  /\ mem' \in [Receivers -> MemState]
           /\ rows' \in [Ids -> SessionRow \cup {None}]
           /\ lastSeen' \in [Receivers -> OptTime]
<1> DEFINE at == poll[r].at
           m == [mem[r] EXCEPT !.lastOk = at]
           ends == m.sid # None /\ m.confirmed
           ended == IF ends THEN CloseRow(rows, m.sid, at) ELSE rows
           tuned == [m EXCEPT !.lastSref = s, !.confirmed = FALSE]
           seen == [lastSeen EXCEPT ![r] = at]
<1>1. at \in Time
  BY DEF TypeOK
<1>2. m \in MemState /\ tuned \in MemState
  <2>1. mem[r] \in MemState
    BY DEF TypeOK
  <2>2. m \in MemState
    BY <1>1, <2>1 DEF MemState, OptTime
  <2> HIDE DEF m
  <2>3. tuned \in MemState
    BY <2>2 DEF MemState
  <2> QED
    BY <2>2, <2>3
<1>3. ended \in [Ids -> SessionRow \cup {None}]
  <2>1. m.sid \in Ids \cup {None}
    BY <1>2 DEF MemState
  <2>2. rows \in [Ids -> SessionRow \cup {None}]
    BY DEF TypeOK
  <2>3. CloseRow(rows, m.sid, at) \in [Ids -> SessionRow \cup {None}]
    BY <1>1, <2>1, <2>2, CloseRowType
  <2> QED
    BY <2>2, <2>3
<1>4. seen \in [Receivers -> OptTime]
  BY <1>1 DEF TypeOK, OptTime
<1>5. Forget(m) \in MemState /\ ForgetWithSref(m) \in MemState
  BY <1>2, ForgetType
<1>6. CASE s = None /\ mem' = [mem EXCEPT ![r] = ForgetWithSref(m)]
           /\ Commit(ended, seen)
  <2>1. mem' \in [Receivers -> MemState]
    BY <1>6, <1>5 DEF TypeOK
  <2> QED
    BY <2>1, <1>3, <1>4, <1>6, CommitType
<1>7. CASE mem' = [mem EXCEPT ![r] = [tuned EXCEPT !.sid = None, !.start = at]]
           /\ Commit(ended, seen)
  <2>1. [tuned EXCEPT !.sid = None, !.start = at] \in MemState
    BY <1>1, <1>2 DEF MemState, OptTime
  <2>2. mem' \in [Receivers -> MemState]
    BY <1>7, <2>1 DEF TypeOK
  <2> QED
    BY <2>2, <1>3, <1>4, <1>7, CommitType
<1>8. ASSUME s \in known, NEW i \in NextId(ended),
             mem' = [mem EXCEPT ![r] = [tuned EXCEPT !.sid = i, !.start = at]],
             Commit([ended EXCEPT ![i] = [rcv |-> r, sref |-> s, start |-> at,
                                  end |-> None, confirmed |-> FALSE]], seen)
      PROVE  /\ mem' \in [Receivers -> MemState]
             /\ rows' \in [Ids -> SessionRow \cup {None}]
             /\ lastSeen' \in [Receivers -> OptTime]
  <2> DEFINE row == [rcv |-> r, sref |-> s, start |-> at, end |-> None,
                     confirmed |-> FALSE]
  <2>1. i \in Ids
    BY DEF NextId
  <2>2. row \in SessionRow
    <3>1. s \in Srefs
      BY <1>8 DEF TypeOK
    <3> QED
      BY <1>1, <3>1 DEF SessionRow, OptTime
  <2>3. [tuned EXCEPT !.sid = i, !.start = at] \in MemState
    BY <1>1, <1>2, <2>1 DEF MemState, OptTime
  <2>4. mem' \in [Receivers -> MemState]
    BY <1>8, <2>3 DEF TypeOK
  <2>5. [ended EXCEPT ![i] = row] \in [Ids -> SessionRow \cup {None}]
    BY <1>3, <2>1, <2>2
  <2> QED
    BY <1>4, <1>8, <2>4, <2>5, CommitType
<1>9. CASE /\ mem' = [mem EXCEPT ![r] = IF ends THEN Forget(m) ELSE m]
           /\ UNCHANGED <<rows, lastSeen>>
  BY <1>9, <1>2, <1>5 DEF TypeOK
<1> QED
  BY <1>6, <1>7, <1>8, <1>9 DEF ChannelChange

LEMMA SameChannelType ==
    ASSUME TypeOK, NEW r \in Receivers, SameChannel(r)
    PROVE  /\ mem' \in [Receivers -> MemState]
           /\ rows' \in [Ids -> SessionRow \cup {None}]
           /\ lastSeen' \in [Receivers -> OptTime]
<1> DEFINE at == poll[r].at
           m == [mem[r] EXCEPT !.lastOk = at]
           ripe == /\ m.sid # None /\ ~m.confirmed /\ m.start # None
                   /\ WatchedEnough(m, at)
                   /\ rows[m.sid] # None
           set == IF ripe THEN [rows EXCEPT ![m.sid].confirmed = TRUE] ELSE rows
           seen == [lastSeen EXCEPT ![r] = at]
<1>1. at \in Time
  BY DEF TypeOK
<1>2. m \in MemState
  BY <1>1 DEF TypeOK, MemState, OptTime
<1>3. ripe \in BOOLEAN
  BY DEF WatchedEnough
<1>4. [m EXCEPT !.confirmed = @ \/ ripe] \in MemState
  BY <1>2, <1>3 DEF MemState
<1>5. set \in [Ids -> SessionRow \cup {None}]
  <2>1. CASE ripe
    <3>1. m.sid \in Ids /\ rows[m.sid] \in SessionRow
      BY <1>2, <2>1 DEF MemState, TypeOK
    <3>2. [rows[m.sid] EXCEPT !.confirmed = TRUE] \in SessionRow
      BY <3>1 DEF SessionRow
    <3> QED
      BY <2>1, <3>1, <3>2 DEF TypeOK
  <2>2. CASE ~ripe
    BY <2>2 DEF TypeOK
  <2> QED
    BY <2>1, <2>2
<1>6. seen \in [Receivers -> OptTime]
  BY <1>1 DEF TypeOK, OptTime
<1>7. mem' = [mem EXCEPT ![r] = [m EXCEPT !.confirmed = @ \/ ripe]]
      /\ Commit(set, seen)
  BY DEF SameChannel
<1>8. mem' \in [Receivers -> MemState]
  BY <1>4, <1>7 DEF TypeOK
<1> QED
  BY <1>5, <1>6, <1>7, <1>8, CommitType

\* One step of the system keeps the state well typed.
LEMMA StepType == TypeOK /\ [Next]_vars => TypeOK'
<1> SUFFICES ASSUME TypeOK, [Next]_vars
             PROVE  TypeOK'
  OBVIOUS
<1>1. ASSUME NEW r \in Receivers, PollBegin(r)
      PROVE  TypeOK'
  BY <1>1 DEF PollBegin, TypeOK, Phases
<1>2. ASSUME NEW r \in Receivers, PollOn(r)
      PROVE  TypeOK'
  BY <1>2 DEF PollOn, TypeOK, Phases
<1>3. ASSUME NEW r \in Receivers, PollNotOn(r)
      PROVE  TypeOK'
  <2> DEFINE m == mem[r]
  <2>1. m \in MemState /\ m.sid \in Ids \cup {None} /\ poll[r].at \in Time
    BY DEF TypeOK, MemState
  <2>2. mem' \in [Receivers -> MemState]
    BY <1>3, <2>1, ForgetType DEF PollNotOn, TypeOK
  <2>3. CloseRow(rows, m.sid, poll[r].at) \in [Ids -> SessionRow \cup {None}]
    BY <2>1, CloseRowType DEF TypeOK
  <2>4. rows \in [Ids -> SessionRow \cup {None}]
        /\ lastSeen \in [Receivers -> OptTime]
    BY DEF TypeOK
  <2>5. \/ Commit(rows, lastSeen)
        \/ Commit(CloseRow(rows, m.sid, poll[r].at), lastSeen)
    BY <1>3 DEF PollNotOn
  <2>6. /\ rows' \in [Ids -> SessionRow \cup {None}]
        /\ lastSeen' \in [Receivers -> OptTime]
    BY <2>3, <2>4, <2>5, CommitType
  <2>7. /\ poll' \in [Receivers -> [phase : Phases, at : Time]]
        /\ streak' \in [Receivers -> Streak]
    BY <1>3, FinishType, ObserveNothingType DEF PollNotOn
  <2> QED
    BY <1>3, <2>2, <2>6, <2>7 DEF PollNotOn, TypeOK
<1>4. ASSUME NEW r \in Receivers, PollOffline(r)
      PROVE  TypeOK'
  <2> DEFINE m == mem[r]
             old == /\ m.lastOk # None
                    /\ poll[r].at > m.lastOk + OfflineAfter
                    /\ m.sid # None
  <2>1. /\ m \in MemState /\ m.sid \in Ids \cup {None}
        /\ poll[r].at \in Time /\ m.lastOk \in OptTime
    BY DEF TypeOK, MemState
  <2>4. /\ mem' \in [Receivers -> MemState]
        /\ rows' \in [Ids -> SessionRow \cup {None}]
        /\ lastSeen' \in [Receivers -> OptTime]
    <3>1. CASE old
      <4>1. mem' \in [Receivers -> MemState]
        BY <1>4, <2>1, <3>1, ForgetType DEF PollOffline, TypeOK
      <4>2. m.lastOk + PollInterval \in Time
        BY <2>1, <3>1 DEF OptTime, Time
      <4>3. CloseRow(rows, m.sid, m.lastOk + PollInterval)
              \in [Ids -> SessionRow \cup {None}]
        BY <2>1, <4>2, CloseRowType DEF TypeOK
      <4>4. Commit(CloseRow(rows, m.sid, m.lastOk + PollInterval), lastSeen)
        BY <1>4, <3>1 DEF PollOffline
      <4>5. lastSeen \in [Receivers -> OptTime]
        BY DEF TypeOK
      <4> QED
        BY <4>1, <4>3, <4>4, <4>5, CommitType
    <3>2. CASE ~old
      BY <1>4, <3>2 DEF PollOffline, TypeOK
    <3> QED
      BY <3>1, <3>2
  <2>5. /\ poll' \in [Receivers -> [phase : Phases, at : Time]]
        /\ streak' \in [Receivers -> Streak]
    BY <1>4, FinishType, ObserveNothingType DEF PollOffline
  <2> QED
    BY <1>4, <2>4, <2>5 DEF PollOffline, TypeOK
<1>5. ASSUME NEW r \in Receivers, PollUnparsable(r)
      PROVE  TypeOK'
  <2>1. mem' \in [Receivers -> MemState]
    BY <1>5 DEF PollUnparsable, TypeOK, MemState, OptTime
  <2>2. /\ poll' \in [Receivers -> [phase : Phases, at : Time]]
        /\ streak' \in [Receivers -> Streak]
    BY <1>5, FinishType, ObserveNothingType DEF PollUnparsable
  <2> QED
    BY <1>5, <2>1, <2>2 DEF PollUnparsable, TypeOK
<1>6. ASSUME NEW r \in Receivers, NEW s \in Srefs \cup {None}, PollService(r, s)
      PROVE  TypeOK'
  <2>1. /\ mem' \in [Receivers -> MemState]
        /\ rows' \in [Ids -> SessionRow \cup {None}]
        /\ lastSeen' \in [Receivers -> OptTime]
    BY <1>6, ChannelChangeType, SameChannelType DEF PollService
  <2>2. /\ poll' \in [Receivers -> [phase : Phases, at : Time]]
        /\ streak' \in [Receivers -> Streak]
    BY <1>6, FinishType, ObserveType DEF PollService
  <2> QED
    BY <1>6, <2>1, <2>2 DEF PollService, TypeOK
<1>7. ASSUME NEW r \in Receivers, ProbeReceiver(r)
      PROVE  TypeOK'
  BY <1>7 DEF ProbeReceiver, TypeOK, OptTime
<1>8. ASSUME NEW r \in Receivers, NEW found \in SUBSET Srefs,
             RefreshChannels(r, found)
      PROVE  TypeOK'
  BY <1>8 DEF RefreshChannels, TypeOK, OptTime
<1>9. ASSUME NEW i \in Ids, DeleteSession(i)
      PROVE  TypeOK'
  BY <1>9 DEF DeleteSession, TypeOK
<1>10. CASE CleanupOldSessions
  BY <1>10 DEF CleanupOldSessions, TypeOK
<1>11. CASE Tick
  BY <1>11 DEF Tick, TypeOK, Time
<1>12. CASE Crash
  BY <1>12 DEF Crash, TypeOK, FreshMem, IdlePoll, NoStreak, Streak, MemState,
               Phases, Time, OptTime
<1>13. CASE Startup
  <2>1. \A i \in Ids : SweepOrphan(rows[i]) \in SessionRow \cup {None}
    BY SweepOrphanType DEF TypeOK
  <2> QED
    BY <1>13, <2>1 DEF Startup, TypeOK
<1>14. CASE UNCHANGED vars
  BY <1>14 DEF vars, TypeOK
<1> QED
  BY <1>1, <1>2, <1>3, <1>4, <1>5, <1>6, <1>7, <1>8, <1>9, <1>10, <1>11,
     <1>12, <1>13, <1>14 DEF Next

\* Every reachable state is well typed, commit failures and deleted rows
\* included: in particular an end time is always computed from values that are
\* there (poller.py:87-88, 128).
THEOREM TypeCorrect == Spec => []TypeOK
<1>1. Init => TypeOK
  BY InitType
<1>2. TypeOK /\ [Next]_vars => TypeOK'
  BY StepType
<1> QED
  BY <1>1, <1>2, PTL DEF Spec

-----------------------------------------------------------------------------
(* Without faults: what a poll job remembers stays in step with its row.   *)

NoFaults == ~CommitMayFail /\ ~TrackedMayBeDeleted

LEMMA InitIInv == Init => IInv
<1> SUFFICES ASSUME Init PROVE IInv
  OBVIOUS
<1>1. TypeOK
  BY InitType
<1>2. \A i \in Ids : ~Live(i)
  BY DEF Init, Live
<1>3. \A r \in Receivers : mem[r] = FreshMem /\ poll[r] = IdlePoll
  BY DEF Init
<1>4. /\ \A r \in Receivers : /\ mem[r].sid = None /\ mem[r].lastOk = None
                               /\ mem[r].confirmed = FALSE
                               /\ poll[r].at = 0 /\ lastSeen[r] = None
      /\ now = 0
  BY DEF Init, FreshMem, IdlePoll
<1>5. OpenConfirmedIsTracked /\ ConfirmedLongEnough /\ NoOverlap /\ EndsInThePast
  BY <1>2 DEF OpenConfirmedIsTracked, ConfirmedLongEnough, NoOverlap,
              EndsInThePast
<1>6. MemMatchesRow /\ DownIsBlank /\ ClockOrder
  BY <1>3, <1>4 DEF MemMatchesRow, DownIsBlank, ClockOrder
<1> QED
  BY <1>1, <1>5, <1>6 DEF IInv

\* A step that leaves the table and the remembered sessions alone.
LEMMA QuietStep ==
    ASSUME IInv, rows' = rows, up' = up,
           \A r \in Receivers : /\ mem'[r].sid = mem[r].sid
                                /\ mem'[r].start = mem[r].start
                                /\ mem'[r].confirmed = mem[r].confirmed
    PROVE  /\ MemMatchesRow' /\ OpenConfirmedIsTracked'
           /\ ConfirmedLongEnough' /\ NoOverlap'
<1>1. MemMatchesRow'
  <2> SUFFICES ASSUME NEW r \in Receivers, mem'[r].sid # None
               PROVE  /\ rows'[mem'[r].sid] # None
                      /\ rows'[mem'[r].sid].rcv = r
                      /\ rows'[mem'[r].sid].end = None
                      /\ rows'[mem'[r].sid].start = mem'[r].start
                      /\ rows'[mem'[r].sid].confirmed = mem'[r].confirmed
    BY DEF MemMatchesRow, Live
  <2> QED
    BY DEF IInv, MemMatchesRow, Live
<1>2. OpenConfirmedIsTracked'
  BY DEF IInv, OpenConfirmedIsTracked, Live, TypeOK, SessionRow
<1>3. ConfirmedLongEnough' /\ NoOverlap'
  BY DEF IInv, ConfirmedLongEnough, NoOverlap, Before, Live
<1> QED
  BY <1>1, <1>2, <1>3

\* The facts about receiver r's session that every closing step starts from.
LEMMA SessionFacts ==
    ASSUME IInv, NEW r \in Receivers, mem[r].sid # None
    PROVE  LET i == mem[r].sid IN
           /\ i \in Ids /\ rows[i] \in SessionRow /\ rows[i] # None
           /\ rows[i].rcv = r /\ rows[i].end = None
           /\ rows[i].start = mem[r].start /\ mem[r].start \in Time
           /\ rows[i].confirmed = mem[r].confirmed
           /\ mem[r].lastOk \in Time /\ mem[r].start <= mem[r].lastOk
           /\ mem[r].confirmed => mem[r].lastOk >= mem[r].start + MinWatch
<1> DEFINE i == mem[r].sid
<1>1. mem[r] \in MemState
  BY DEF IInv, TypeOK
<1>2. i \in Ids /\ mem[r].lastOk \in OptTime
  BY <1>1 DEF MemState
<1>3. /\ Live(i) /\ rows[i].rcv = r /\ rows[i].end = None
      /\ rows[i].start = mem[r].start
      /\ rows[i].confirmed = mem[r].confirmed
  BY DEF IInv, MemMatchesRow
<1>4. rows[i] \in SessionRow
  BY <1>2, <1>3 DEF IInv, TypeOK, Live
<1>5. /\ mem[r].lastOk # None /\ mem[r].start <= mem[r].lastOk
      /\ mem[r].confirmed => mem[r].lastOk >= mem[r].start + MinWatch
  BY DEF IInv, ClockOrder
<1> QED
  BY <1>2, <1>3, <1>4, <1>5 DEF Live, SessionRow, OptTime

\* Receiver r's confirmed session ends at t, and r's job remembers m instead,
\* which names no session.
LEMMA CloseStep ==
    ASSUME IInv, TypeOK', NEW r \in Receivers, NEW t \in Time,
           mem[r].sid # None,
           mem[r].confirmed => t >= mem[r].start + MinWatch,
           mem[r].start <= t, t <= now, t <= poll[r].at,
           NEW m, m.sid = None, m.confirmed = FALSE,
           mem' = [mem EXCEPT ![r] = m],
           rows' = [rows EXCEPT ![mem[r].sid].end = t],
           up' = up
    PROVE  /\ MemMatchesRow' /\ OpenConfirmedIsTracked'
           /\ ConfirmedLongEnough' /\ NoOverlap'
<1> DEFINE i == mem[r].sid
<1>0. /\ i \in Ids /\ rows[i] \in SessionRow /\ rows[i] # None
      /\ rows[i].rcv = r /\ rows[i].end = None
      /\ rows[i].start = mem[r].start /\ mem[r].start \in Time
      /\ rows[i].confirmed = mem[r].confirmed
  BY SessionFacts
<1>1. /\ rows'[i] = [rows[i] EXCEPT !.end = t]
      /\ \A j \in Ids \ {i} : rows'[j] = rows[j]
      /\ rows'[i] # None
  BY <1>0 DEF IInv, TypeOK, SessionRow, OptTime
<1>2. /\ rows'[i].rcv = r /\ rows'[i].end = t
      /\ rows'[i].start = rows[i].start
      /\ rows'[i].confirmed = rows[i].confirmed
  BY <1>0, <1>1 DEF SessionRow
<1>3. mem'[r] = m /\ \A q \in Receivers \ {r} : mem'[q] = mem[q]
  BY DEF IInv, TypeOK
<1>4. t # None
  BY DEF Time
<1>5. MemMatchesRow'
  <2> SUFFICES ASSUME NEW q \in Receivers, mem'[q].sid # None
               PROVE  /\ rows'[mem'[q].sid] # None
                      /\ rows'[mem'[q].sid].rcv = q
                      /\ rows'[mem'[q].sid].end = None
                      /\ rows'[mem'[q].sid].start = mem'[q].start
                      /\ rows'[mem'[q].sid].confirmed = mem'[q].confirmed
    BY DEF MemMatchesRow, Live
  <2>1. q # r /\ mem'[q] = mem[q]
    BY <1>3
  <2>2. /\ mem[q].sid \in Ids /\ rows[mem[q].sid].rcv = q
        /\ Live(mem[q].sid)
        /\ rows[mem[q].sid].end = None
        /\ rows[mem[q].sid].start = mem[q].start
        /\ rows[mem[q].sid].confirmed = mem[q].confirmed
    BY <2>1 DEF IInv, MemMatchesRow, TypeOK, MemState
  <2>3. mem[q].sid # i
    BY <1>0, <2>1, <2>2
  <2> QED
    BY <1>1, <2>1, <2>2, <2>3 DEF Live
<1>6. OpenConfirmedIsTracked'
  <2> SUFFICES ASSUME up, NEW j \in Ids, Live(j)', rows'[j].confirmed,
                      rows'[j].end = None
               PROVE  mem'[rows'[j].rcv].sid = j /\ mem'[rows'[j].rcv].confirmed
    BY DEF OpenConfirmedIsTracked
  <2>1. j # i /\ rows'[j] = rows[j]
    BY <1>1, <1>2, <1>4
  <2>2. /\ mem[rows[j].rcv].sid = j /\ mem[rows[j].rcv].confirmed
        /\ rows[j].rcv \in Receivers
    BY <2>1 DEF IInv, OpenConfirmedIsTracked, Live, TypeOK, SessionRow
  <2>3. rows[j].rcv # r
    BY <2>1, <2>2
  <2> QED
    BY <1>3, <2>1, <2>2, <2>3
<1>7. ConfirmedLongEnough'
  <2> SUFFICES ASSUME NEW j \in Ids, Live(j)', rows'[j].confirmed,
                      rows'[j].end # None
               PROVE  rows'[j].end >= rows'[j].start + MinWatch
    BY DEF ConfirmedLongEnough
  <2>1. CASE j = i
    BY <1>0, <1>2, <2>1
  <2>2. CASE j # i
    BY <1>1, <2>2 DEF IInv, ConfirmedLongEnough, Live
  <2> QED
    BY <2>1, <2>2
<1>8. NoOverlap'
  <2> SUFFICES ASSUME NEW j \in Ids, NEW k \in Ids, j # k,
                      Live(j)', rows'[j].confirmed,
                      Live(k)', rows'[k].confirmed,
                      rows'[j].rcv = rows'[k].rcv
               PROVE  Before(rows'[j], rows'[k]) \/ Before(rows'[k], rows'[j])
    BY DEF NoOverlap
  <2>1. /\ Live(j) /\ rows[j].confirmed /\ Live(k) /\ rows[k].confirmed
        /\ rows[j].rcv = rows[k].rcv
    BY <1>0, <1>1, <1>2 DEF Live
  <2>2. Before(rows[j], rows[k]) \/ Before(rows[k], rows[j])
    BY <2>1 DEF IInv, NoOverlap
  <2>3. CASE j = i
    BY <1>0, <1>1, <1>2, <2>2, <2>3 DEF Before
  <2>4. CASE k = i
    BY <1>0, <1>1, <1>2, <2>2, <2>4 DEF Before
  <2>5. CASE j # i /\ k # i
    BY <1>1, <2>2, <2>5 DEF Before
  <2> QED
    BY <2>3, <2>4, <2>5
<1> QED
  BY <1>5, <1>6, <1>7, <1>8

\* Receiver r's job drops a session that is not confirmed (or has none).
LEMMA DropStep ==
    ASSUME IInv, NEW r \in Receivers, ~mem[r].confirmed,
           NEW m, m.sid = None, m.confirmed = FALSE,
           mem' = [mem EXCEPT ![r] = m], rows' = rows, up' = up
    PROVE  /\ MemMatchesRow' /\ OpenConfirmedIsTracked'
           /\ ConfirmedLongEnough' /\ NoOverlap'
<1>1. mem'[r] = m /\ \A q \in Receivers \ {r} : mem'[q] = mem[q]
  BY DEF IInv, TypeOK
<1>2. MemMatchesRow'
  <2> SUFFICES ASSUME NEW q \in Receivers, mem'[q].sid # None
               PROVE  /\ rows'[mem'[q].sid] # None
                      /\ rows'[mem'[q].sid].rcv = q
                      /\ rows'[mem'[q].sid].end = None
                      /\ rows'[mem'[q].sid].start = mem'[q].start
                      /\ rows'[mem'[q].sid].confirmed = mem'[q].confirmed
    BY DEF MemMatchesRow, Live
  <2>1. q # r /\ mem'[q] = mem[q]
    BY <1>1
  <2> QED
    BY <2>1 DEF IInv, MemMatchesRow, Live
<1>3. OpenConfirmedIsTracked'
  <2> SUFFICES ASSUME up, NEW j \in Ids, rows[j] # None, rows[j].confirmed,
                      rows[j].end = None
               PROVE  mem'[rows[j].rcv].sid = j /\ mem'[rows[j].rcv].confirmed
    BY DEF OpenConfirmedIsTracked, Live
  <2>1. /\ mem[rows[j].rcv].sid = j /\ mem[rows[j].rcv].confirmed
        /\ rows[j].rcv \in Receivers
    BY DEF IInv, OpenConfirmedIsTracked, Live, TypeOK, SessionRow
  <2>2. rows[j].rcv # r
    BY <2>1
  <2> QED
    BY <1>1, <2>1, <2>2
<1>4. ConfirmedLongEnough' /\ NoOverlap'
  BY DEF IInv, ConfirmedLongEnough, NoOverlap, Before, Live
<1> QED
  BY <1>2, <1>3, <1>4

\* Receiver r's job moves to the fresh row n: the confirmed session it had, if
\* any, ends at t.
LEMMA OpenStep ==
    ASSUME IInv, NEW r \in Receivers, NEW t \in Time,
           NEW n \in Ids, NEW row \in SessionRow, NEW m, NEW ended,
           mem[r].confirmed => t >= mem[r].start + MinWatch,
           ended = IF mem[r].sid # None /\ mem[r].confirmed
                   THEN CloseRow(rows, mem[r].sid, t) ELSE rows,
           ended[n] = None,
           row.rcv = r, row.end = None,
           m.sid = n, m.start = row.start, m.confirmed = FALSE,
           row.confirmed = FALSE,
           mem' = [mem EXCEPT ![r] = m],
           rows' = [ended EXCEPT ![n] = row],
           up' = up
    PROVE  /\ MemMatchesRow' /\ OpenConfirmedIsTracked'
           /\ ConfirmedLongEnough' /\ NoOverlap'
<1> DEFINE i == mem[r].sid
           ends == i # None /\ mem[r].confirmed
<1>0. row # None /\ t # None
  BY DEF Time
<1>1. ends => /\ i \in Ids /\ rows[i] \in SessionRow /\ rows[i] # None
              /\ rows[i].rcv = r /\ rows[i].end = None
              /\ rows[i].start = mem[r].start /\ mem[r].start \in Time
              /\ rows[i].confirmed = mem[r].confirmed
  BY SessionFacts
<1>2. rows \in [Ids -> SessionRow \cup {None}]
  BY DEF IInv, TypeOK
<1>3. ended \in [Ids -> SessionRow \cup {None}]
  BY <1>1, <1>2, CloseRowType
<1>4. /\ ends => /\ ended[i].end = t /\ ended[i].rcv = r /\ ended[i] # None
                 /\ ended[i].start = rows[i].start
                 /\ ended[i].confirmed = rows[i].confirmed
      /\ \A j \in Ids : (ends => j # i) => ended[j] = rows[j]
  <2>1. CASE ends
    <3>1. ended = [rows EXCEPT ![i].end = t]
      BY <1>1, <2>1 DEF CloseRow
    <3>2. ended[i] = [rows[i] EXCEPT !.end = t]
      BY <1>1, <1>2, <2>1, <3>1
    <3>3. [rows[i] EXCEPT !.end = t] \in SessionRow
      BY <1>1, <2>1 DEF SessionRow, OptTime
    <3>4. \A j \in Ids : j # i => ended[j] = rows[j]
      BY <1>1, <1>2, <2>1, <3>1
    <3> QED
      BY <1>1, <2>1, <3>2, <3>3, <3>4 DEF SessionRow
  <2>2. CASE ~ends
    BY <2>2
  <2> QED
    BY <2>1, <2>2
<1>5. rows'[n] = row /\ \A j \in Ids \ {n} : rows'[j] = ended[j]
  BY <1>3
<1>6. mem'[r] = m /\ \A q \in Receivers \ {r} : mem'[q] = mem[q]
  BY DEF IInv, TypeOK
<1>7. MemMatchesRow'
  <2> SUFFICES ASSUME NEW q \in Receivers, mem'[q].sid # None
               PROVE  /\ rows'[mem'[q].sid] # None
                      /\ rows'[mem'[q].sid].rcv = q
                      /\ rows'[mem'[q].sid].end = None
                      /\ rows'[mem'[q].sid].start = mem'[q].start
                      /\ rows'[mem'[q].sid].confirmed = mem'[q].confirmed
    BY DEF MemMatchesRow, Live
  <2>1. CASE q = r
    <3>1. mem'[q] = m /\ rows'[m.sid] = row
      BY <1>5, <1>6, <2>1
    <3>2. mem'[q].sid = m.sid
      BY <3>1
    <3>3. rows'[mem'[q].sid] = row
      BY <3>1, <3>2
    <3> QED
      BY <1>0, <2>1, <3>1, <3>3
  <2>2. CASE q # r
    <3>1. mem'[q] = mem[q]
      BY <1>6, <2>2
    <3>2. /\ mem[q].sid \in Ids /\ rows[mem[q].sid].rcv = q
          /\ rows[mem[q].sid] # None
          /\ rows[mem[q].sid].end = None
          /\ rows[mem[q].sid].start = mem[q].start
          /\ rows[mem[q].sid].confirmed = mem[q].confirmed
      BY <3>1 DEF IInv, MemMatchesRow, TypeOK, MemState, Live
    <3>3. ends => mem[q].sid # i
      BY <1>1, <2>2, <3>2
    <3>4. ended[mem[q].sid] = rows[mem[q].sid] /\ mem[q].sid # n
      BY <1>4, <3>2, <3>3
    <3> QED
      BY <1>5, <3>1, <3>2, <3>4
  <2> QED
    BY <2>1, <2>2
<1>8. \A j \in Ids : rows'[j] # None /\ rows'[j].confirmed =>
         /\ j # n /\ rows[j] # None /\ rows[j].confirmed
         /\ rows'[j].rcv = rows[j].rcv /\ rows'[j].start = rows[j].start
         /\ \/ ~(ends /\ j = i) /\ rows'[j].end = rows[j].end
            \/ ends /\ j = i /\ rows'[j].end = t
  BY <1>1, <1>4, <1>5
<1>9. OpenConfirmedIsTracked'
  <2> SUFFICES ASSUME up, NEW j \in Ids, rows'[j] # None, rows'[j].confirmed,
                      rows'[j].end = None
               PROVE  mem'[rows'[j].rcv].sid = j /\ mem'[rows'[j].rcv].confirmed
    BY DEF OpenConfirmedIsTracked, Live
  <2>1. /\ ~(ends /\ j = i) /\ rows[j].end = None /\ rows[j] # None
        /\ rows[j].confirmed /\ rows'[j].rcv = rows[j].rcv
    BY <1>0, <1>8
  <2>2. /\ mem[rows[j].rcv].sid = j /\ mem[rows[j].rcv].confirmed
        /\ rows[j].rcv \in Receivers
    BY <2>1 DEF IInv, OpenConfirmedIsTracked, Live, TypeOK, SessionRow
  <2>3. j # None
    BY DEF Ids
  <2>4. rows[j].rcv # r
    BY <2>1, <2>2, <2>3
  <2> QED
    BY <1>6, <2>1, <2>2, <2>4
<1>10. ConfirmedLongEnough'
  <2> SUFFICES ASSUME NEW j \in Ids, rows'[j] # None, rows'[j].confirmed,
                      rows'[j].end # None
               PROVE  rows'[j].end >= rows'[j].start + MinWatch
    BY DEF ConfirmedLongEnough, Live
  <2> QED
    BY <1>1, <1>8 DEF IInv, ConfirmedLongEnough, Live
<1>11. NoOverlap'
  <2> SUFFICES ASSUME NEW j \in Ids, NEW k \in Ids, j # k,
                      rows'[j] # None, rows'[j].confirmed,
                      rows'[k] # None, rows'[k].confirmed,
                      rows'[j].rcv = rows'[k].rcv
               PROVE  Before(rows'[j], rows'[k]) \/ Before(rows'[k], rows'[j])
    BY DEF NoOverlap, Live
  <2>1. Before(rows[j], rows[k]) \/ Before(rows[k], rows[j])
    BY <1>8 DEF IInv, NoOverlap, Live
  <2> QED
    BY <1>0, <1>1, <1>8, <2>1 DEF Before
<1> QED
  BY <1>7, <1>9, <1>10, <1>11

\* Receiver r's job confirms its session.
LEMMA ConfirmStep ==
    ASSUME IInv, up, NEW r \in Receivers, mem[r].sid # None, ~mem[r].confirmed,
           NEW m, m.sid = mem[r].sid, m.start = mem[r].start,
           m.confirmed = TRUE,
           mem' = [mem EXCEPT ![r] = m],
           rows' = [rows EXCEPT ![mem[r].sid].confirmed = TRUE],
           up' = up
    PROVE  /\ MemMatchesRow' /\ OpenConfirmedIsTracked'
           /\ ConfirmedLongEnough' /\ NoOverlap'
<1> DEFINE i == mem[r].sid
<1>0. /\ i \in Ids /\ rows[i] \in SessionRow /\ rows[i] # None
      /\ rows[i].rcv = r /\ rows[i].end = None
      /\ rows[i].start = mem[r].start /\ mem[r].start \in Time
      /\ rows[i].confirmed = FALSE
  BY SessionFacts DEF SessionRow
<1>1. /\ rows'[i] = [rows[i] EXCEPT !.confirmed = TRUE]
      /\ \A j \in Ids \ {i} : rows'[j] = rows[j]
  BY <1>0 DEF IInv, TypeOK
<1>2. [rows[i] EXCEPT !.confirmed = TRUE] \in SessionRow
  BY <1>0 DEF SessionRow
<1>3. /\ rows'[i].rcv = r /\ rows'[i].end = None /\ rows'[i] # None
      /\ rows'[i].start = rows[i].start /\ rows'[i].confirmed = TRUE
  <2>1. rows'[i] # None
    BY <1>1, <1>2
  <2>2. /\ rows'[i].rcv = rows[i].rcv /\ rows'[i].end = rows[i].end
        /\ rows'[i].start = rows[i].start
    BY <1>0, <1>1 DEF SessionRow
  <2>3. rows'[i].confirmed = TRUE
    BY <1>0, <1>1 DEF SessionRow
  <2> QED
    BY <1>0, <2>1, <2>2, <2>3
<1>4. mem'[r] = m /\ \A q \in Receivers \ {r} : mem'[q] = mem[q]
  BY DEF IInv, TypeOK
<1>5. MemMatchesRow'
  <2> SUFFICES ASSUME NEW q \in Receivers, mem'[q].sid # None
               PROVE  /\ rows'[mem'[q].sid] # None
                      /\ rows'[mem'[q].sid].rcv = q
                      /\ rows'[mem'[q].sid].end = None
                      /\ rows'[mem'[q].sid].start = mem'[q].start
                      /\ rows'[mem'[q].sid].confirmed = mem'[q].confirmed
    BY DEF MemMatchesRow, Live
  <2>1. CASE q = r
    BY <1>0, <1>3, <1>4, <2>1
  <2>2. CASE q # r
    <3>1. mem'[q] = mem[q]
      BY <1>4, <2>2
    <3>2. /\ mem[q].sid \in Ids /\ rows[mem[q].sid].rcv = q
          /\ rows[mem[q].sid] # None
          /\ rows[mem[q].sid].end = None
          /\ rows[mem[q].sid].start = mem[q].start
          /\ rows[mem[q].sid].confirmed = mem[q].confirmed
      BY <3>1 DEF IInv, MemMatchesRow, TypeOK, MemState, Live
    <3>3. mem[q].sid # i
      BY <1>0, <2>2, <3>2
    <3> QED
      BY <1>1, <3>1, <3>2, <3>3
  <2> QED
    BY <2>1, <2>2
<1>6. OpenConfirmedIsTracked'
  <2> SUFFICES ASSUME NEW j \in Ids, rows'[j] # None, rows'[j].confirmed,
                      rows'[j].end = None
               PROVE  mem'[rows'[j].rcv].sid = j /\ mem'[rows'[j].rcv].confirmed
    BY DEF OpenConfirmedIsTracked, Live
  <2>1. CASE j = i
    BY <1>3, <1>4, <2>1
  <2>2. CASE j # i
    <3>1. /\ mem[rows[j].rcv].sid = j /\ mem[rows[j].rcv].confirmed
          /\ rows[j].rcv \in Receivers /\ rows'[j] = rows[j]
      BY <1>1, <2>2
         DEF IInv, OpenConfirmedIsTracked, Live, TypeOK, SessionRow
    <3>2. rows[j].rcv # r
      BY <2>2, <3>1
    <3> QED
      BY <1>4, <3>1, <3>2
  <2> QED
    BY <2>1, <2>2
<1>7. ConfirmedLongEnough'
  BY <1>0, <1>1, <1>3 DEF IInv, ConfirmedLongEnough, Live
<1>8. ASSUME NEW k \in Ids, k # i, rows[k] # None, rows[k].confirmed,
             rows[k].rcv = r
      PROVE  rows[k].end # None /\ rows[k].end <= rows[i].start
  <2>1. rows[k].end # None
    BY <1>8 DEF IInv, OpenConfirmedIsTracked, Live
  <2> QED
    BY <1>0, <1>8, <2>1 DEF IInv, EndsInThePast, Live
<1>9. NoOverlap'
  <2> SUFFICES ASSUME NEW j \in Ids, NEW k \in Ids, j # k,
                      rows'[j] # None, rows'[j].confirmed,
                      rows'[k] # None, rows'[k].confirmed,
                      rows'[j].rcv = rows'[k].rcv
               PROVE  Before(rows'[j], rows'[k]) \/ Before(rows'[k], rows'[j])
    BY DEF NoOverlap, Live
  <2>1. CASE j = i
    BY <1>0, <1>1, <1>3, <1>8, <2>1 DEF Before
  <2>2. CASE k = i
    BY <1>0, <1>1, <1>3, <1>8, <2>2 DEF Before
  <2>3. CASE j # i /\ k # i
    BY <1>1, <2>3 DEF IInv, NoOverlap, Live, Before
  <2> QED
    BY <2>1, <2>2, <2>3
<1> QED
  BY <1>5, <1>6, <1>7, <1>9

\* A poll that ends with m as receiver r's memory keeps the clock order.
LEMMA FinishClock ==
    ASSUME IInv, TypeOK', NEW r \in Receivers, poll[r].phase # "idle",
           Finish(r), now' = now, up' = up,
           lastSeen' = lastSeen \/ lastSeen' = [lastSeen EXCEPT ![r] = poll[r].at],
           NEW m, mem' = [mem EXCEPT ![r] = m],
           m.lastOk = mem[r].lastOk \/ m.lastOk = poll[r].at,
           m.sid # None => m.lastOk # None /\ m.start <= m.lastOk,
           m.confirmed => m.sid # None /\ m.lastOk >= m.start + MinWatch
    PROVE  ClockOrder' /\ DownIsBlank'
<1>1. mem'[r] = m /\ \A q \in Receivers \ {r} : mem'[q] = mem[q]
  BY DEF IInv, TypeOK
<1>2. /\ poll'[r].phase = "idle" /\ poll'[r].at = 0
      /\ \A q \in Receivers \ {r} : poll'[q] = poll[q]
  BY DEF Finish, IdlePoll, IInv, TypeOK
<1>3. poll[r].at \in Time /\ poll[r].at <= now /\ now \in Time
  BY DEF IInv, TypeOK, ClockOrder
<1>4. ClockOrder'
  <2> SUFFICES ASSUME NEW q \in Receivers
               PROVE  /\ poll'[q].at <= now
                      /\ lastSeen'[q] # None => lastSeen'[q] <= now
                      /\ mem'[q].lastOk # None =>
                            /\ mem'[q].lastOk <= now
                            /\ poll'[q].phase # "idle" =>
                                  mem'[q].lastOk <= poll'[q].at
                      /\ mem'[q].sid # None =>
                            /\ mem'[q].lastOk # None
                            /\ mem'[q].start <= mem'[q].lastOk
                      /\ mem'[q].confirmed =>
                            /\ mem'[q].sid # None
                            /\ mem'[q].lastOk >= mem'[q].start + MinWatch
    BY DEF ClockOrder
  <2>1. lastSeen'[q] # None => lastSeen'[q] <= now
    BY <1>3 DEF IInv, ClockOrder, TypeOK
  <2>2. CASE q = r
    BY <1>1, <1>2, <1>3, <2>1, <2>2 DEF IInv, ClockOrder, Time
  <2>3. CASE q # r
    BY <1>1, <1>2, <2>1, <2>3 DEF IInv, ClockOrder
  <2> QED
    BY <2>2, <2>3
<1>5. up
  BY DEF IInv, DownIsBlank, IdlePoll
<1> QED
  BY <1>4, <1>5 DEF DownIsBlank

\* A poll of receiver r that ends keeps confirmed sessions' ends in the past,
\* if what it changed of them, it changed at the poll's time or earlier.
LEMMA FinishEnds ==
    ASSUME IInv, TypeOK', NEW r \in Receivers, poll[r].phase # "idle",
           Finish(r), now' = now,
           NEW m, mem' = [mem EXCEPT ![r] = m],
           m.sid # None => \/ m.sid = mem[r].sid /\ m.start = mem[r].start
                           \/ m.start = poll[r].at,
           \A j \in Ids : rows'[j] # None /\ rows'[j].confirmed =>
              \/ /\ rows[j] # None /\ rows[j].confirmed
                 /\ rows'[j].rcv = rows[j].rcv /\ rows'[j].start = rows[j].start
                 /\ \/ rows'[j].end = rows[j].end
                    \/ /\ rows'[j].rcv = r /\ rows'[j].end <= poll[r].at
                       /\ m.sid # None => rows'[j].end <= m.start
              \/ rows'[j].end = None /\ rows'[j].start + MinWatch <= poll[r].at
    PROVE  EndsInThePast'
<1>1. mem'[r] = m /\ \A q \in Receivers \ {r} : mem'[q] = mem[q]
  BY DEF IInv, TypeOK
<1>2. /\ poll'[r].phase = "idle"
      /\ \A q \in Receivers \ {r} : poll'[q] = poll[q]
  BY DEF Finish, IdlePoll, IInv, TypeOK
<1>3. poll[r].at \in Time /\ poll[r].at <= now /\ now \in Time
  BY DEF IInv, TypeOK, ClockOrder
<1> SUFFICES ASSUME NEW j \in Ids, rows'[j] # None, rows'[j].confirmed
             PROVE  /\ rows'[j].start + MinWatch <= now
                    /\ rows'[j].end # None =>
                       /\ rows'[j].end <= now
                       /\ poll'[rows'[j].rcv].phase # "idle"
                             => rows'[j].end <= poll'[rows'[j].rcv].at
                       /\ mem'[rows'[j].rcv].sid # None
                             => rows'[j].end <= mem'[rows'[j].rcv].start
  BY DEF EndsInThePast, Live
<1>4. /\ rows'[j].rcv \in Receivers /\ rows'[j].start \in Time
      /\ rows'[j].end \in OptTime
  BY DEF TypeOK, SessionRow
<1>5. CASE /\ rows[j] # None /\ rows[j].confirmed
           /\ rows'[j].rcv = rows[j].rcv /\ rows'[j].start = rows[j].start
           /\ rows'[j].end = rows[j].end
  <2>1. /\ rows[j].start + MinWatch <= now
        /\ rows[j].end # None =>
              /\ rows[j].end <= now
              /\ poll[rows[j].rcv].phase # "idle"
                    => rows[j].end <= poll[rows[j].rcv].at
              /\ mem[rows[j].rcv].sid # None
                    => rows[j].end <= mem[rows[j].rcv].start
    BY <1>5 DEF IInv, EndsInThePast, Live
  <2>2. CASE rows[j].rcv = r
    BY <1>1, <1>2, <1>5, <2>1, <2>2
  <2>3. CASE rows[j].rcv # r
    BY <1>1, <1>2, <1>4, <1>5, <2>1, <2>3
  <2> QED
    BY <2>2, <2>3
<1>6. CASE /\ rows[j] # None /\ rows[j].confirmed
           /\ rows'[j].start = rows[j].start
           /\ rows'[j].rcv = r /\ rows'[j].end <= poll[r].at
           /\ m.sid # None => rows'[j].end <= m.start
  <2>1. rows[j].start + MinWatch <= now
    BY <1>6 DEF IInv, EndsInThePast, Live
  <2>2. rows'[j].end # None => rows'[j].end <= now
    BY <1>3, <1>4, <1>6 DEF OptTime, Time
  <2> QED
    BY <1>1, <1>2, <1>6, <2>1, <2>2
<1>7. CASE rows'[j].end = None /\ rows'[j].start + MinWatch <= poll[r].at
  BY <1>3, <1>4, <1>7 DEF Time
<1> QED
  BY <1>5, <1>6, <1>7

LEMMA NotOnStep ==
    ASSUME NoFaults, IInv, TypeOK', NEW r \in Receivers, PollNotOn(r)
    PROVE  IInv'
<1> DEFINE m == mem[r]
<1>1. /\ poll[r].phase # "idle" /\ poll[r].at \in Time /\ poll[r].at <= now
      /\ Finish(r) /\ now' = now /\ up' = up
  BY DEF PollNotOn, IInv, TypeOK, ClockOrder
<1>2. lastSeen' = lastSeen
  BY DEF PollNotOn, Commit, NoFaults
<1>3. CASE m.sid = None
  <2>1. mem' = mem /\ rows' = rows
    BY <1>3 DEF PollNotOn, Commit, NoFaults
  <2>2. mem' = [mem EXCEPT ![r] = m]
    BY <2>1 DEF IInv, TypeOK
  <2>3. ~m.confirmed
    BY <1>3 DEF IInv, ClockOrder
  <2>4. /\ MemMatchesRow' /\ OpenConfirmedIsTracked'
        /\ ConfirmedLongEnough' /\ NoOverlap'
    BY <1>1, <2>1, QuietStep
  <2> HIDE DEF m
  <2>5. ClockOrder' /\ DownIsBlank'
    BY <1>1, <1>2, <1>3, <2>2, <2>3, FinishClock DEF m
  <2>6. EndsInThePast'
    BY <1>1, <1>3, <2>1, <2>2, FinishEnds DEF m
  <2> QED
    BY <2>4, <2>5, <2>6 DEF IInv
<1>4. CASE m.sid # None /\ m.confirmed
  <2> DEFINE f == Forget(m)
  <2>1. mem' = [mem EXCEPT ![r] = f]
    BY <1>4 DEF PollNotOn
  <2>2. f.sid = None /\ f.confirmed = FALSE /\ f.lastOk = m.lastOk
    BY DEF Forget, IInv, TypeOK, MemState
  <2>3. /\ m.sid \in Ids /\ rows[m.sid] # None /\ rows[m.sid] \in SessionRow
        /\ rows[m.sid].rcv = r
        /\ m.start \in Time /\ m.lastOk \in Time /\ m.start <= m.lastOk
        /\ m.lastOk >= m.start + MinWatch
    BY <1>4, SessionFacts
  <2>4. rows' = [rows EXCEPT ![m.sid].end = poll[r].at]
    BY <1>4, <2>3 DEF PollNotOn, Commit, NoFaults, CloseRow
  <2>5. m.lastOk <= poll[r].at
    BY <1>1, <2>3 DEF IInv, ClockOrder, Time
  <2>6. m.start <= poll[r].at /\ poll[r].at >= m.start + MinWatch
    BY <1>1, <2>3, <2>5 DEF Time
  <2> HIDE DEF f
  <2>7. /\ MemMatchesRow' /\ OpenConfirmedIsTracked'
        /\ ConfirmedLongEnough' /\ NoOverlap'
    <3> DEFINE t == poll[r].at
    <3>1. /\ t \in Time /\ t <= now /\ t <= poll[r].at /\ m.start <= t
          /\ m.confirmed => t >= m.start + MinWatch
      BY <1>1, <2>6 DEF Time
    <3>2. rows' = [rows EXCEPT ![m.sid].end = t]
      BY <2>4
    <3> HIDE DEF t
    <3> QED
      BY <1>1, <1>4, <2>1, <2>2, <3>1, <3>2, CloseStep
  <2>8. ClockOrder' /\ DownIsBlank'
    BY <1>1, <1>2, <2>1, <2>2, FinishClock
  <2>9. \A j \in Ids : rows'[j] # None /\ rows'[j].confirmed =>
            /\ rows[j] # None /\ rows[j].confirmed
            /\ rows'[j].rcv = rows[j].rcv /\ rows'[j].start = rows[j].start
            /\ \/ rows'[j].end = rows[j].end
               \/ rows'[j].rcv = r /\ rows'[j].end <= poll[r].at
    BY <1>1, <2>3, <2>4 DEF IInv, TypeOK, SessionRow, Time
  <2>10. EndsInThePast'
    BY <1>1, <2>1, <2>2, <2>9, FinishEnds
  <2> QED
    BY <2>7, <2>8, <2>10 DEF IInv
<1>5. CASE m.sid # None /\ ~m.confirmed
  <2> DEFINE f == ForgetWithSref(m)
  <2>1. mem' = [mem EXCEPT ![r] = f] /\ rows' = rows
    BY <1>5 DEF PollNotOn, Commit, NoFaults
  <2>2. f.sid = None /\ f.confirmed = FALSE /\ f.lastOk = m.lastOk
    BY DEF Forget, ForgetWithSref, IInv, TypeOK, MemState
  <2> HIDE DEF f
  <2>3. /\ MemMatchesRow' /\ OpenConfirmedIsTracked'
        /\ ConfirmedLongEnough' /\ NoOverlap'
    BY <1>1, <1>5, <2>1, <2>2, DropStep
  <2>4. ClockOrder' /\ DownIsBlank'
    BY <1>1, <1>2, <2>1, <2>2, FinishClock
  <2>5. EndsInThePast'
    BY <1>1, <2>1, <2>2, FinishEnds
  <2> QED
    BY <2>3, <2>4, <2>5 DEF IInv
<1> QED
  BY <1>3, <1>4, <1>5

LEMMA OfflineStep ==
    ASSUME NoFaults, IInv, TypeOK', NEW r \in Receivers, PollOffline(r)
    PROVE  IInv'
<1> DEFINE m == mem[r]
           old == /\ m.lastOk # None
                  /\ poll[r].at > m.lastOk + OfflineAfter
                  /\ m.sid # None
<1>1. /\ poll[r].phase # "idle" /\ poll[r].at \in Time /\ poll[r].at <= now
      /\ Finish(r) /\ now' = now /\ up' = up
  BY DEF PollOffline, IInv, TypeOK, ClockOrder
<1>2. lastSeen' = lastSeen
  BY DEF PollOffline, Commit, NoFaults
<1>3. CASE ~old
  <2>1. mem' = mem /\ rows' = rows
    BY <1>3 DEF PollOffline
  <2>2. mem' = [mem EXCEPT ![r] = m]
    BY <2>1 DEF IInv, TypeOK
  <2>3. /\ m.sid # None => m.lastOk # None /\ m.start <= m.lastOk
        /\ m.confirmed => m.sid # None /\ m.lastOk >= m.start + MinWatch
    BY DEF IInv, ClockOrder
  <2>4. /\ MemMatchesRow' /\ OpenConfirmedIsTracked'
        /\ ConfirmedLongEnough' /\ NoOverlap'
    BY <1>1, <2>1, QuietStep
  <2> HIDE DEF m
  <2>5. ClockOrder' /\ DownIsBlank'
    BY <1>1, <1>2, <2>2, <2>3, FinishClock DEF m
  <2>6. EndsInThePast'
    BY <1>1, <2>1, <2>2, FinishEnds DEF m
  <2> QED
    BY <2>4, <2>5, <2>6 DEF IInv
<1>4. CASE old
  <2> DEFINE f == Forget(m)
             t == m.lastOk + PollInterval
  <2>1. mem' = [mem EXCEPT ![r] = f]
    BY <1>4 DEF PollOffline
  <2>2. f.sid = None /\ f.confirmed = FALSE /\ f.lastOk = m.lastOk
    BY DEF Forget, IInv, TypeOK, MemState
  <2>3. /\ m.sid \in Ids /\ rows[m.sid] # None /\ rows[m.sid] \in SessionRow
        /\ rows[m.sid].rcv = r
        /\ m.start \in Time /\ m.lastOk \in Time /\ m.start <= m.lastOk
        /\ m.confirmed => m.lastOk >= m.start + MinWatch
    BY <1>4, SessionFacts
  <2>4. rows' = [rows EXCEPT ![m.sid].end = t]
    BY <1>4, <2>3 DEF PollOffline, Commit, NoFaults, CloseRow
  <2>5. /\ t \in Time /\ t <= poll[r].at /\ t <= now /\ m.start <= t
        /\ m.confirmed => t >= m.start + MinWatch
    <3>1. now \in Time
      BY DEF IInv, TypeOK
    <3> QED
      BY <1>1, <1>4, <2>3, <3>1 DEF Time
  <2> HIDE DEF f, t
  <2>7. /\ MemMatchesRow' /\ OpenConfirmedIsTracked'
        /\ ConfirmedLongEnough' /\ NoOverlap'
    BY <1>1, <1>4, <2>1, <2>2, <2>4, <2>5, CloseStep
  <2>8. ClockOrder' /\ DownIsBlank'
    BY <1>1, <1>2, <2>1, <2>2, FinishClock
  <2>9. \A j \in Ids : rows'[j] # None /\ rows'[j].confirmed =>
            /\ rows[j] # None /\ rows[j].confirmed
            /\ rows'[j].rcv = rows[j].rcv /\ rows'[j].start = rows[j].start
            /\ \/ rows'[j].end = rows[j].end
               \/ rows'[j].rcv = r /\ rows'[j].end <= poll[r].at
    BY <1>1, <2>3, <2>4, <2>5 DEF IInv, TypeOK, SessionRow, Time
  <2>10. EndsInThePast'
    BY <1>1, <2>1, <2>2, <2>9, FinishEnds
  <2> QED
    BY <2>7, <2>8, <2>10 DEF IInv
<1> QED
  BY <1>3, <1>4

LEMMA UnparsableStep ==
    ASSUME IInv, TypeOK', NEW r \in Receivers, PollUnparsable(r)
    PROVE  IInv'
<1> DEFINE at == poll[r].at
           m == [mem[r] EXCEPT !.lastOk = at]
<1>1. /\ poll[r].phase # "idle" /\ at \in Time /\ at <= now
      /\ Finish(r) /\ now' = now /\ up' = up /\ lastSeen' = lastSeen
      /\ rows' = rows
  BY DEF PollUnparsable, IInv, TypeOK, ClockOrder
<1>2. mem[r] \in MemState
  BY DEF IInv, TypeOK
<1>3. /\ m.sid = mem[r].sid /\ m.start = mem[r].start
      /\ m.confirmed = mem[r].confirmed /\ m.lastOk = at
  BY <1>2 DEF MemState
<1>4. mem' = [mem EXCEPT ![r] = m]
  BY DEF PollUnparsable
<1>5. /\ mem[r].lastOk # None => mem[r].lastOk <= at
      /\ mem[r].sid # None => mem[r].lastOk # None /\ mem[r].start <= mem[r].lastOk
      /\ mem[r].confirmed =>
            mem[r].sid # None /\ mem[r].lastOk >= mem[r].start + MinWatch
  BY <1>1 DEF IInv, ClockOrder
<1>6. mem[r].sid # None => mem[r].start \in Time /\ mem[r].lastOk \in Time
  BY SessionFacts
<1>7. /\ m.sid # None => m.lastOk # None /\ m.start <= m.lastOk
      /\ m.confirmed => m.sid # None /\ m.lastOk >= m.start + MinWatch
  BY <1>1, <1>3, <1>5, <1>6 DEF Time
<1> HIDE DEF m
<1>8. /\ MemMatchesRow' /\ OpenConfirmedIsTracked'
      /\ ConfirmedLongEnough' /\ NoOverlap'
  <2>1. \A q \in Receivers : /\ mem'[q].sid = mem[q].sid
                             /\ mem'[q].start = mem[q].start
                             /\ mem'[q].confirmed = mem[q].confirmed
    BY <1>3, <1>4 DEF IInv, TypeOK
  <2> QED
    BY <1>1, <2>1, QuietStep
<1>9. ClockOrder' /\ DownIsBlank'
  BY <1>1, <1>3, <1>4, <1>7, FinishClock
<1>10. EndsInThePast'
  BY <1>1, <1>3, <1>4, FinishEnds
<1> QED
  BY <1>8, <1>9, <1>10 DEF IInv

LEMMA SameChannelStep ==
    ASSUME NoFaults, IInv, TypeOK', NEW r \in Receivers,
           poll[r].phase = "current", SameChannel(r), Finish(r),
           now' = now, up' = up
    PROVE  IInv'
<1> DEFINE at == poll[r].at
           m == [mem[r] EXCEPT !.lastOk = at]
           ripe == /\ m.sid # None /\ ~m.confirmed /\ m.start # None
                   /\ WatchedEnough(m, at)
                   /\ rows[m.sid] # None
           n == [m EXCEPT !.confirmed = @ \/ ripe]
<1>1. poll[r].phase # "idle" /\ at \in Time /\ at <= now /\ up
  BY DEF IInv, TypeOK, ClockOrder, DownIsBlank, IdlePoll
<1>2. mem[r] \in MemState
  BY DEF IInv, TypeOK
<1>3. /\ m.sid = mem[r].sid /\ m.start = mem[r].start
      /\ m.confirmed = mem[r].confirmed /\ m.lastOk = at /\ m \in MemState
  BY <1>1, <1>2 DEF MemState, OptTime
<1>4. /\ mem' = [mem EXCEPT ![r] = n]
      /\ rows' = IF ripe THEN [rows EXCEPT ![m.sid].confirmed = TRUE] ELSE rows
      /\ lastSeen' = [lastSeen EXCEPT ![r] = at]
  BY DEF SameChannel, Commit, NoFaults
<1>5. /\ mem[r].lastOk # None => mem[r].lastOk <= at
      /\ mem[r].sid # None => mem[r].lastOk # None /\ mem[r].start <= mem[r].lastOk
      /\ mem[r].confirmed =>
            mem[r].sid # None /\ mem[r].lastOk >= mem[r].start + MinWatch
  BY <1>1 DEF IInv, ClockOrder
<1>6. mem[r].sid # None => mem[r].start \in Time /\ mem[r].lastOk \in Time
  BY SessionFacts
<1>7. /\ n.sid = mem[r].sid /\ n.start = mem[r].start /\ n.lastOk = at
      /\ n.confirmed = (mem[r].confirmed \/ ripe)
  <2> HIDE DEF m, ripe
  <2> QED
    BY <1>3 DEF MemState
<1>8. ripe => at >= mem[r].start + MinWatch
  BY <1>3 DEF WatchedEnough
<1>9. /\ n.sid # None => n.lastOk # None /\ n.start <= n.lastOk
      /\ n.confirmed => n.sid # None /\ n.lastOk >= n.start + MinWatch
  <2>1. at # None
    BY <1>1 DEF Time
  <2>2. n.sid # None => n.start <= n.lastOk
    BY <1>1, <1>5, <1>6, <1>7 DEF Time
  <2>3. CASE ripe
    <3>1. n.sid # None
      BY <1>3, <1>7, <2>3
    <3> QED
      BY <1>7, <1>8, <2>1, <2>2, <2>3, <3>1
  <2>4. CASE ~ripe
    <3>1. n.confirmed = mem[r].confirmed
      BY <1>2, <1>7, <2>4 DEF MemState
    <3> QED
      BY <1>1, <1>5, <1>6, <1>7, <2>1, <2>2, <3>1 DEF Time
  <2> QED
    BY <2>3, <2>4
<1>10. CASE ripe
  <2>1. /\ mem[r].sid # None /\ ~mem[r].confirmed
        /\ rows' = [rows EXCEPT ![mem[r].sid].confirmed = TRUE]
        /\ at >= mem[r].start + MinWatch
    BY <1>3, <1>4, <1>8, <1>10
  <2>2. n.confirmed = TRUE
    BY <1>7, <1>10
  <2> HIDE DEF n, m, ripe
  <2>3. /\ MemMatchesRow' /\ OpenConfirmedIsTracked'
        /\ ConfirmedLongEnough' /\ NoOverlap'
    BY <1>1, <1>4, <1>7, <2>1, <2>2, ConfirmStep
  <2>4. ClockOrder' /\ DownIsBlank'
    BY <1>1, <1>4, <1>7, <1>9, FinishClock
  <2>5. /\ mem[r].sid \in Ids /\ rows[mem[r].sid] \in SessionRow
        /\ rows[mem[r].sid].end = None
        /\ rows[mem[r].sid].start = mem[r].start
    BY <2>1, SessionFacts
  <2>6. \A j \in Ids : rows'[j] # None /\ rows'[j].confirmed =>
           \/ /\ rows[j] # None /\ rows[j].confirmed
              /\ rows'[j].rcv = rows[j].rcv /\ rows'[j].start = rows[j].start
              /\ rows'[j].end = rows[j].end
           \/ rows'[j].end = None /\ rows'[j].start + MinWatch <= at
    <3> SUFFICES ASSUME NEW j \in Ids, rows'[j] # None, rows'[j].confirmed
                 PROVE  \/ /\ rows[j] # None /\ rows[j].confirmed
                           /\ rows'[j].rcv = rows[j].rcv
                           /\ rows'[j].start = rows[j].start
                           /\ rows'[j].end = rows[j].end
                        \/ rows'[j].end = None
                           /\ rows'[j].start + MinWatch <= at
      OBVIOUS
    <3>1. CASE j = mem[r].sid
      <4>1. rows'[j] = [rows[j] EXCEPT !.confirmed = TRUE]
        BY <2>1, <2>5, <3>1 DEF IInv, TypeOK
      <4>2. rows'[j].end = rows[j].end /\ rows'[j].start = rows[j].start
        BY <2>5, <3>1, <4>1 DEF SessionRow
      <4>3. rows[j].start \in Time
        BY <2>5, <3>1 DEF SessionRow
      <4> QED
        BY <1>1, <2>1, <2>5, <3>1, <4>2, <4>3 DEF Time
    <3>2. CASE j # mem[r].sid
      <4>1. rows'[j] = rows[j]
        BY <2>1, <2>5, <3>2 DEF IInv, TypeOK
      <4> QED
        BY <4>1
    <3> QED
      BY <3>1, <3>2
  <2>7. EndsInThePast'
    BY <1>1, <1>4, <1>7, <2>6, FinishEnds
  <2> QED
    BY <2>3, <2>4, <2>7 DEF IInv
<1>11. CASE ~ripe
  <2>1. rows' = rows
    BY <1>4, <1>11
  <2>2. n.confirmed = mem[r].confirmed
    BY <1>2, <1>7, <1>11 DEF MemState
  <2> HIDE DEF n, m, ripe
  <2>3. \A q \in Receivers : /\ mem'[q].sid = mem[q].sid
                             /\ mem'[q].start = mem[q].start
                             /\ mem'[q].confirmed = mem[q].confirmed
    BY <1>4, <1>7, <2>2 DEF IInv, TypeOK
  <2>4. /\ MemMatchesRow' /\ OpenConfirmedIsTracked'
        /\ ConfirmedLongEnough' /\ NoOverlap'
    BY <2>1, <2>3, QuietStep
  <2>5. ClockOrder' /\ DownIsBlank'
    BY <1>1, <1>4, <1>7, <1>9, FinishClock
  <2>6. EndsInThePast'
    BY <1>1, <1>4, <1>7, <2>1, FinishEnds
  <2> QED
    BY <2>4, <2>5, <2>6 DEF IInv
<1> QED
  BY <1>10, <1>11

LEMMA ChannelChangeStep ==
    ASSUME NoFaults, IInv, TypeOK', NEW r \in Receivers,
           NEW s \in Srefs \cup {None},
           poll[r].phase = "current", ChannelChange(r, s), Finish(r),
           now' = now, up' = up
    PROVE  IInv'
<1> DEFINE at == poll[r].at
           m == [mem[r] EXCEPT !.lastOk = at]
           ends == m.sid # None /\ m.confirmed
           ended == IF ends THEN CloseRow(rows, m.sid, at) ELSE rows
           tuned == [m EXCEPT !.lastSref = s, !.confirmed = FALSE]
           seen == [lastSeen EXCEPT ![r] = at]
<1>1. poll[r].phase # "idle" /\ at \in Time /\ at <= now /\ up
  BY DEF IInv, TypeOK, ClockOrder, DownIsBlank, IdlePoll
<1>2. mem[r] \in MemState
  BY DEF IInv, TypeOK
<1>3. /\ m.sid = mem[r].sid /\ m.start = mem[r].start
      /\ m.confirmed = mem[r].confirmed /\ m.lastOk = at /\ m \in MemState
  BY <1>1, <1>2 DEF MemState, OptTime
<1>4. tuned \in MemState /\ tuned.confirmed = FALSE /\ tuned.lastOk = at
  <2> HIDE DEF m
  <2> QED
    BY <1>3 DEF MemState
<1>5. ends => /\ m.sid \in Ids /\ rows[m.sid] # None
              /\ rows[m.sid] \in SessionRow /\ rows[m.sid].rcv = r
              /\ m.start \in Time /\ m.start <= at
              /\ at >= m.start + MinWatch
  <2> SUFFICES ASSUME ends
               PROVE  /\ m.sid \in Ids /\ rows[m.sid] # None
                      /\ rows[m.sid] \in SessionRow /\ rows[m.sid].rcv = r
                      /\ m.start \in Time /\ m.start <= at
                      /\ at >= m.start + MinWatch
    OBVIOUS
  <2>1. mem[r].sid # None /\ mem[r].confirmed
    BY <1>3
  <2>2. mem[r].lastOk <= at
    BY <1>1, <2>1 DEF IInv, ClockOrder
  <2>3. /\ mem[r].sid \in Ids /\ rows[mem[r].sid] # None
        /\ rows[mem[r].sid] \in SessionRow /\ rows[mem[r].sid].rcv = r
        /\ mem[r].start \in Time /\ mem[r].lastOk \in Time
        /\ mem[r].start <= mem[r].lastOk
        /\ mem[r].lastOk >= mem[r].start + MinWatch
    BY <2>1, SessionFacts
  <2> HIDE DEF m
  <2> QED
    BY <1>1, <1>3, <2>2, <2>3 DEF Time
<1>6. ended = IF ends THEN [rows EXCEPT ![m.sid].end = at] ELSE rows
  BY <1>5 DEF CloseRow
<1>7. \A j \in Ids : ended[j] # None /\ ended[j].confirmed =>
         /\ rows[j] # None /\ rows[j].confirmed
         /\ ended[j].rcv = rows[j].rcv /\ ended[j].start = rows[j].start
         /\ \/ ended[j].end = rows[j].end
            \/ ended[j].rcv = r /\ ended[j].end = at
  <2>1. CASE ends
    <3>1. ended = [rows EXCEPT ![m.sid].end = at]
      BY <1>6, <2>1
    <3> HIDE DEF ended, m
    <3> QED
      BY <1>5, <2>1, <3>1 DEF IInv, TypeOK, SessionRow
  <2>2. CASE ~ends
    BY <1>6, <2>2
  <2> QED
    BY <2>1, <2>2
<1>8. ASSUME NEW f, f.sid = None, f.confirmed = FALSE, f.lastOk = at,
             mem' = [mem EXCEPT ![r] = f], Commit(ended, seen)
      PROVE  IInv'
  <2>1. rows' = ended /\ lastSeen' = seen
    BY <1>8 DEF Commit, NoFaults
  <2>2. /\ MemMatchesRow' /\ OpenConfirmedIsTracked'
        /\ ConfirmedLongEnough' /\ NoOverlap'
    <3>1. CASE ends
      <4>1. /\ rows' = [rows EXCEPT ![mem[r].sid].end = at]
            /\ mem[r].sid # None /\ mem[r].start <= at
            /\ at >= mem[r].start + MinWatch
        BY <1>3, <1>5, <1>6, <2>1, <3>1
      <4>2. at <= poll[r].at
        BY <1>1 DEF Time
      <4> HIDE DEF at
      <4> QED
        BY <1>1, <1>8, <4>1, <4>2, CloseStep
    <3>2. CASE ~ends
      <4>1. rows' = rows /\ ~mem[r].confirmed
        BY <1>3, <1>6, <2>1, <3>2 DEF IInv, ClockOrder
      <4> QED
        BY <1>8, <4>1, DropStep
    <3> QED
      BY <3>1, <3>2
  <2>3. ClockOrder' /\ DownIsBlank'
    BY <1>1, <1>8, <2>1, FinishClock
  <2>4. \A j \in Ids : rows'[j] # None /\ rows'[j].confirmed =>
            /\ rows[j] # None /\ rows[j].confirmed
            /\ rows'[j].rcv = rows[j].rcv /\ rows'[j].start = rows[j].start
            /\ \/ rows'[j].end = rows[j].end
               \/ rows'[j].rcv = r /\ rows'[j].end <= poll[r].at
    <3> HIDE DEF ended
    <3> QED
      BY <1>1, <1>7, <2>1 DEF Time
  <2>5. EndsInThePast'
    BY <1>1, <1>8, <2>4, FinishEnds
  <2> QED
    BY <2>2, <2>3, <2>5 DEF IInv
<1>9. CASE s = None /\ mem' = [mem EXCEPT ![r] = ForgetWithSref(m)]
           /\ Commit(ended, seen)
  <2> DEFINE f == ForgetWithSref(m)
  <2>1. f.sid = None /\ f.confirmed = FALSE /\ f.lastOk = at
    <3> HIDE DEF m
    <3> QED
      BY <1>3 DEF Forget, ForgetWithSref, MemState
  <2>2. mem' = [mem EXCEPT ![r] = f]
    BY <1>9
  <2> HIDE DEF f
  <2> QED
    BY <1>8, <1>9, <2>1, <2>2
<1>10. CASE mem' = [mem EXCEPT ![r] = [tuned EXCEPT !.sid = None, !.start = at]]
            /\ Commit(ended, seen)
  <2> DEFINE f == [tuned EXCEPT !.sid = None, !.start = at]
  <2>1. f.sid = None /\ f.confirmed = FALSE /\ f.lastOk = at
    <3> HIDE DEF tuned
    <3> QED
      BY <1>4 DEF MemState
  <2>2. mem' = [mem EXCEPT ![r] = f]
    BY <1>10
  <2> HIDE DEF f
  <2> QED
    BY <1>8, <1>10, <2>1, <2>2
<1>11. ASSUME s \in known, NEW n \in NextId(ended),
              mem' = [mem EXCEPT ![r] = [tuned EXCEPT !.sid = n, !.start = at]],
              Commit([ended EXCEPT ![n] = [rcv |-> r, sref |-> s, start |-> at,
                                   end |-> None, confirmed |-> FALSE]], seen)
       PROVE  IInv'
  <2> DEFINE row == [rcv |-> r, sref |-> s, start |-> at, end |-> None,
                     confirmed |-> FALSE]
             f == [tuned EXCEPT !.sid = n, !.start = at]
  <2>1. n \in Ids /\ ended[n] = None
    <3>1. n \in Ids /\ \A j \in Ids : ended[j] # None => j < n
      BY <1>11 DEF NextId
    <3> HIDE DEF ended
    <3> QED
      BY <3>1 DEF Ids
  <2>2. row \in SessionRow
    <3>1. s \in Srefs
      BY <1>11 DEF IInv, TypeOK
    <3> QED
      BY <1>1, <3>1 DEF SessionRow, OptTime
  <2>3. f.sid = n /\ f.start = at /\ f.confirmed = FALSE /\ f.lastOk = at
    <3> HIDE DEF tuned
    <3> QED
      BY <1>4 DEF MemState
  <2>4. /\ rows' = [ended EXCEPT ![n] = row] /\ lastSeen' = seen
        /\ mem' = [mem EXCEPT ![r] = f]
    BY <1>11 DEF Commit, NoFaults
  <2>5. row.rcv = r /\ row.end = None /\ row.confirmed = FALSE /\ row.start = at
    OBVIOUS
  <2>6. /\ mem[r].confirmed => at >= mem[r].start + MinWatch
        /\ ended = IF mem[r].sid # None /\ mem[r].confirmed
                   THEN CloseRow(rows, mem[r].sid, at) ELSE rows
    <3>1. mem[r].confirmed => ends
      BY <1>3 DEF IInv, ClockOrder
    <3> QED
      BY <1>3, <1>5, <3>1
  <2>7. n # None
    BY <2>1 DEF Ids
  <2>8. \A j \in Ids : rows'[j] # None /\ rows'[j].confirmed =>
            /\ rows[j] # None /\ rows[j].confirmed
            /\ rows'[j].rcv = rows[j].rcv /\ rows'[j].start = rows[j].start
            /\ \/ rows'[j].end = rows[j].end
               \/ rows'[j].rcv = r /\ rows'[j].end = at
    <3>1. ended \in [Ids -> SessionRow \cup {None}]
      BY <1>1, <1>3, <1>5, CloseRowType DEF IInv, TypeOK
    <3> HIDE DEF ended, row
    <3>2. rows'[n] = row /\ \A j \in Ids \ {n} : rows'[j] = ended[j]
      BY <2>1, <2>4, <3>1
    <3> QED
      BY <1>7, <2>5, <3>2
  <2> HIDE DEF f, row, ended
  <2>9. /\ MemMatchesRow' /\ OpenConfirmedIsTracked'
        /\ ConfirmedLongEnough' /\ NoOverlap'
    <3>1. at \in Time /\ n \in Ids /\ row \in SessionRow
      BY <1>1, <2>1, <2>2
    <3>2. mem[r].confirmed => at >= mem[r].start + MinWatch
      BY <2>6
    <3>3. ended = IF mem[r].sid # None /\ mem[r].confirmed
                  THEN CloseRow(rows, mem[r].sid, at) ELSE rows
      BY <2>6
    <3>4. /\ ended[n] = None
          /\ row.rcv = r /\ row.end = None /\ row.confirmed = FALSE
          /\ f.sid = n /\ f.start = row.start /\ f.confirmed = FALSE
      BY <2>1, <2>3, <2>5
    <3>5. /\ mem' = [mem EXCEPT ![r] = f]
          /\ rows' = [ended EXCEPT ![n] = row]
      BY <2>4
    <3> HIDE DEF at, m
    <3> QED
      BY <3>1, <3>2, <3>3, <3>4, <3>5, OpenStep, ZenonT(60)
  <2>10. ClockOrder' /\ DownIsBlank'
    <3>1. /\ f.sid # None => f.lastOk # None /\ f.start <= f.lastOk
          /\ f.confirmed => f.sid # None /\ f.lastOk >= f.start + MinWatch
      BY <1>1, <2>3 DEF Time
    <3> QED
      BY <1>1, <2>3, <2>4, <3>1, FinishClock
  <2>11. EndsInThePast'
    <3>1. \A j \in Ids : rows'[j] # None /\ rows'[j].confirmed =>
             /\ rows[j] # None /\ rows[j].confirmed
             /\ rows'[j].rcv = rows[j].rcv /\ rows'[j].start = rows[j].start
             /\ \/ rows'[j].end = rows[j].end
                \/ /\ rows'[j].rcv = r /\ rows'[j].end <= at
                   /\ rows'[j].end <= f.start
      BY <1>1, <2>3, <2>8 DEF Time
    <3> QED
      BY <1>1, <2>3, <2>4, <3>1, FinishEnds
  <2> QED
    BY <2>9, <2>10, <2>11 DEF IInv
<1> QED
  BY <1>9, <1>10, <1>11 DEF ChannelChange, NoFaults

\* A step that touches neither the table nor any memory.
LEMMA ClockStep ==
    ASSUME IInv, TypeOK', rows' = rows, mem' = mem, up' = up,
           now' \in Time, now' >= now,
           \/ poll' = poll
           \/ \E r \in Receivers :
                 /\ up
                 /\ poll' = [poll EXCEPT ![r] = [phase |-> "power", at |-> now]]
           \/ \E r \in Receivers :
                 /\ poll[r].phase = "power"
                 /\ poll' = [poll EXCEPT ![r].phase = "current"],
           \/ lastSeen' = lastSeen
           \/ \E r \in Receivers : lastSeen' = [lastSeen EXCEPT ![r] = now]
    PROVE  IInv'
<1>1. now \in Time /\ \A q \in Receivers : poll[q].at <= now /\ poll[q].at \in Time
  BY DEF IInv, TypeOK, ClockOrder
<1>2. \A q \in Receivers :
         \/ /\ poll'[q].at = poll[q].at
            /\ poll'[q].phase # "idle" => poll[q].phase # "idle"
         \/ poll'[q].at = now
  <2>1. CASE poll' = poll
    BY <2>1
  <2>2. ASSUME NEW r \in Receivers,
               poll' = [poll EXCEPT ![r] = [phase |-> "power", at |-> now]]
        PROVE  \A q \in Receivers :
                  \/ /\ poll'[q].at = poll[q].at
                     /\ poll'[q].phase # "idle" => poll[q].phase # "idle"
                  \/ poll'[q].at = now
    BY <2>2 DEF IInv, TypeOK
  <2>3. ASSUME NEW r \in Receivers, poll[r].phase = "power",
               poll' = [poll EXCEPT ![r].phase = "current"]
        PROVE  \A q \in Receivers :
                  \/ /\ poll'[q].at = poll[q].at
                     /\ poll'[q].phase # "idle" => poll[q].phase # "idle"
                  \/ poll'[q].at = now
    BY <2>3 DEF IInv, TypeOK
  <2> QED
    BY <2>1, <2>2, <2>3
<1>3. \A q \in Receivers : lastSeen'[q] = lastSeen[q] \/ lastSeen'[q] = now
  BY DEF IInv, TypeOK
<1>4. /\ MemMatchesRow' /\ OpenConfirmedIsTracked'
      /\ ConfirmedLongEnough' /\ NoOverlap'
  BY QuietStep
<1>5. DownIsBlank'
  <2> SUFFICES ASSUME ~up, NEW q \in Receivers
               PROVE  mem[q] = FreshMem /\ poll'[q] = IdlePoll
    BY DEF DownIsBlank
  <2>1. \A r \in Receivers : mem[r] = FreshMem /\ poll[r] = IdlePoll
    BY DEF IInv, DownIsBlank
  <2>2. \A r \in Receivers : poll[r].phase # "power"
    BY <2>1 DEF IdlePoll
  <2> QED
    BY <2>1, <2>2
<1>6. ClockOrder'
  <2> SUFFICES ASSUME NEW q \in Receivers
               PROVE  /\ poll'[q].at <= now'
                      /\ lastSeen'[q] # None => lastSeen'[q] <= now'
                      /\ mem[q].lastOk # None =>
                            /\ mem[q].lastOk <= now'
                            /\ poll'[q].phase # "idle" =>
                                  mem[q].lastOk <= poll'[q].at
                      /\ mem[q].sid # None =>
                            /\ mem[q].lastOk # None
                            /\ mem[q].start <= mem[q].lastOk
                      /\ mem[q].confirmed =>
                            /\ mem[q].sid # None
                            /\ mem[q].lastOk >= mem[q].start + MinWatch
    BY DEF ClockOrder
  <2>1. /\ lastSeen[q] # None => lastSeen[q] <= now
        /\ mem[q].lastOk # None => mem[q].lastOk <= now
        /\ mem[q].lastOk # None /\ poll[q].phase # "idle" =>
              mem[q].lastOk <= poll[q].at
        /\ mem[q].sid # None =>
              mem[q].lastOk # None /\ mem[q].start <= mem[q].lastOk
        /\ mem[q].confirmed =>
              mem[q].sid # None /\ mem[q].lastOk >= mem[q].start + MinWatch
    BY DEF IInv, ClockOrder
  <2>2. lastSeen[q] \in OptTime /\ mem[q].lastOk \in OptTime
    BY DEF IInv, TypeOK, MemState
  <2> QED
    BY <1>1, <1>2, <1>3, <2>1, <2>2 DEF Time, OptTime
<1>7. EndsInThePast'
  <2> SUFFICES ASSUME NEW j \in Ids, rows[j] # None, rows[j].confirmed
               PROVE  /\ rows[j].start + MinWatch <= now'
                      /\ rows[j].end # None =>
                         /\ rows[j].end <= now'
                         /\ poll'[rows[j].rcv].phase # "idle"
                               => rows[j].end <= poll'[rows[j].rcv].at
                         /\ mem[rows[j].rcv].sid # None
                               => rows[j].end <= mem[rows[j].rcv].start
    BY DEF EndsInThePast, Live
  <2>1. /\ rows[j].start + MinWatch <= now
        /\ rows[j].end # None =>
              /\ rows[j].end <= now
              /\ poll[rows[j].rcv].phase # "idle"
                    => rows[j].end <= poll[rows[j].rcv].at
              /\ mem[rows[j].rcv].sid # None
                    => rows[j].end <= mem[rows[j].rcv].start
    BY DEF IInv, EndsInThePast, Live
  <2>2. /\ rows[j].rcv \in Receivers /\ rows[j].start \in Time
        /\ rows[j].end \in OptTime
    BY DEF IInv, TypeOK, SessionRow
  <2> QED
    BY <1>1, <1>2, <2>1, <2>2 DEF Time, OptTime
<1> QED
  BY <1>4, <1>5, <1>6, <1>7 DEF IInv

\* A step that only removes rows no poll job refers to.
LEMMA RemoveStep ==
    ASSUME IInv, TypeOK', NEW gone \in SUBSET Ids,
           \A i \in gone : ~Tracked(i),
           rows' = [i \in Ids |-> IF i \in gone THEN None ELSE rows[i]],
           UNCHANGED <<now, up, mem, poll, lastSeen>>
    PROVE  IInv'
<1>1. \A i \in Ids : rows'[i] # None => rows'[i] = rows[i] /\ rows[i] # None
  OBVIOUS
<1>2. MemMatchesRow'
  <2> SUFFICES ASSUME NEW q \in Receivers, mem[q].sid # None
               PROVE  /\ rows'[mem[q].sid] # None
                      /\ rows'[mem[q].sid].rcv = q
                      /\ rows'[mem[q].sid].end = None
                      /\ rows'[mem[q].sid].start = mem[q].start
                      /\ rows'[mem[q].sid].confirmed = mem[q].confirmed
    BY DEF MemMatchesRow, Live
  <2>1. mem[q].sid \in Ids \ gone
    BY DEF IInv, TypeOK, MemState, Tracked
  <2>2. rows'[mem[q].sid] = rows[mem[q].sid]
    BY <2>1
  <2> QED
    BY <2>2 DEF IInv, MemMatchesRow, Live
<1>3. OpenConfirmedIsTracked' /\ ConfirmedLongEnough' /\ NoOverlap'
  BY <1>1 DEF IInv, OpenConfirmedIsTracked, ConfirmedLongEnough, NoOverlap,
              Before, Live
<1>4. EndsInThePast'
  BY <1>1 DEF IInv, EndsInThePast, Live
<1>5. ClockOrder' /\ DownIsBlank'
  BY DEF IInv, ClockOrder, DownIsBlank
<1> QED
  BY <1>2, <1>3, <1>4, <1>5 DEF IInv

LEMMA CrashStep == IInv /\ TypeOK' /\ Crash => IInv'
<1> SUFFICES ASSUME IInv, TypeOK', Crash
             PROVE  IInv'
  OBVIOUS
<1>1. /\ ~up' /\ rows' = rows /\ now' = now /\ lastSeen' = lastSeen
      /\ \A r \in Receivers :
            /\ mem'[r] = FreshMem /\ mem'[r].sid = None
            /\ mem'[r].lastOk = None /\ mem'[r].confirmed = FALSE
            /\ poll'[r] = IdlePoll /\ poll'[r].at = 0 /\ poll'[r].phase = "idle"
  BY DEF Crash, FreshMem, IdlePoll
<1>2. MemMatchesRow' /\ OpenConfirmedIsTracked' /\ DownIsBlank'
  BY <1>1 DEF MemMatchesRow, OpenConfirmedIsTracked, DownIsBlank
<1>3. ConfirmedLongEnough' /\ NoOverlap'
  BY <1>1 DEF IInv, ConfirmedLongEnough, NoOverlap, Live
<1>4. ClockOrder'
  BY <1>1 DEF IInv, ClockOrder, TypeOK, Time
<1>5. EndsInThePast'
  BY <1>1 DEF IInv, EndsInThePast, Live, TypeOK, SessionRow
<1> QED
  BY <1>2, <1>3, <1>4, <1>5 DEF IInv

\* The orphan sweep: a confirmed row left open ends no earlier than
\* min_watch_sec after its start and no later than now.
LEMMA StartupStep == IInv /\ TypeOK' /\ Startup => IInv'
<1> SUFFICES ASSUME IInv, TypeOK', Startup
             PROVE  IInv'
  OBVIOUS
<1>1. /\ ~up /\ up' /\ now' = now /\ lastSeen' = lastSeen /\ mem' = mem
      /\ poll' = poll
      /\ \A i \in Ids : rows'[i] = SweepOrphan(rows[i])
  BY DEF Startup
<1>2. \A r \in Receivers : /\ mem[r].sid = None /\ mem[r].lastOk = None
                           /\ mem[r].confirmed = FALSE
                           /\ poll[r].phase = "idle"
  BY <1>1 DEF IInv, DownIsBlank, FreshMem, IdlePoll
<1>3. ASSUME NEW j \in Ids, rows'[j] # None, rows'[j].confirmed
      PROVE  /\ rows[j] # None /\ rows[j].confirmed
             /\ rows'[j].rcv = rows[j].rcv /\ rows'[j].start = rows[j].start
             /\ rows'[j].end # None /\ rows'[j].end <= now
             /\ \/ rows[j].end # None /\ rows'[j] = rows[j]
                \/ /\ rows[j].end = None
                   /\ rows'[j].end >= rows[j].start + MinWatch
  <2>1. rows[j] # None
    BY <1>1, <1>3 DEF SweepOrphan
  <2>2. rows[j] \in SessionRow
    BY <2>1 DEF IInv, TypeOK
  <2>3. CASE rows[j].end # None
    <3>1. rows'[j] = rows[j]
      BY <1>1, <2>3 DEF SweepOrphan
    <3>2. rows[j].end <= now
      BY <1>3, <2>1, <2>3, <3>1 DEF IInv, EndsInThePast, Live
    <3> QED
      BY <1>3, <2>1, <2>3, <3>1, <3>2
  <2>4. CASE rows[j].end = None
    <3> DEFINE e == OrphanEnd(rows[j], lastSeen[rows[j].rcv])
    <3>1. rows[j].confirmed /\ rows'[j] = [rows[j] EXCEPT !.end = e]
      BY <1>1, <1>3, <2>1, <2>4 DEF SweepOrphan
    <3>2. /\ rows[j].rcv \in Receivers /\ rows[j].start \in Time
          /\ lastSeen[rows[j].rcv] \in OptTime
      BY <2>2 DEF IInv, TypeOK, SessionRow
    <3>3. e \in Time /\ e >= rows[j].start + MinWatch
      BY <2>2, <3>2, OrphanEndType
    <3>4. /\ rows[j].start + MinWatch <= now
          /\ lastSeen[rows[j].rcv] # None => lastSeen[rows[j].rcv] <= now
      BY <2>1, <3>1, <3>2 DEF IInv, EndsInThePast, ClockOrder, Live
    <3>5. e <= now
      BY <3>2, <3>4 DEF OrphanEnd
    <3> HIDE DEF e
    <3>6. /\ rows'[j].rcv = rows[j].rcv /\ rows'[j].start = rows[j].start
          /\ rows'[j].end = e
      BY <2>2, <3>1 DEF SessionRow
    <3>7. e # None
      BY <3>3 DEF Time
    <3> QED
      BY <2>1, <2>4, <3>1, <3>3, <3>5, <3>6, <3>7
  <2> QED
    BY <2>3, <2>4
<1>4. MemMatchesRow' /\ DownIsBlank' /\ ClockOrder'
  BY <1>1, <1>2 DEF MemMatchesRow, DownIsBlank, ClockOrder, IInv
<1>5. OpenConfirmedIsTracked'
  BY <1>3 DEF OpenConfirmedIsTracked, Live
<1>6. ConfirmedLongEnough'
  <2> SUFFICES ASSUME NEW j \in Ids, rows'[j] # None, rows'[j].confirmed
               PROVE  rows'[j].end >= rows'[j].start + MinWatch
    BY DEF ConfirmedLongEnough, Live
  <2> QED
    BY <1>3 DEF IInv, ConfirmedLongEnough, Live
<1>7. NoOverlap'
  <2> SUFFICES ASSUME NEW j \in Ids, NEW k \in Ids, j # k,
                      rows'[j] # None, rows'[j].confirmed,
                      rows'[k] # None, rows'[k].confirmed,
                      rows'[j].rcv = rows'[k].rcv
               PROVE  Before(rows'[j], rows'[k]) \/ Before(rows'[k], rows'[j])
    BY DEF NoOverlap, Live
  <2>1. Before(rows[j], rows[k]) \/ Before(rows[k], rows[j])
    BY <1>3 DEF IInv, NoOverlap, Live
  <2> QED
    BY <1>3, <2>1 DEF Before
<1>8. EndsInThePast'
  <2> SUFFICES ASSUME NEW j \in Ids, rows'[j] # None, rows'[j].confirmed
               PROVE  /\ rows'[j].start + MinWatch <= now
                      /\ rows'[j].end # None =>
                         /\ rows'[j].end <= now
                         /\ poll[rows'[j].rcv].phase # "idle"
                               => rows'[j].end <= poll[rows'[j].rcv].at
                         /\ mem[rows'[j].rcv].sid # None
                               => rows'[j].end <= mem[rows'[j].rcv].start
    BY <1>1 DEF EndsInThePast, Live
  <2>1. rows'[j].rcv \in Receivers
    BY DEF TypeOK, SessionRow
  <2>2. rows'[j].start + MinWatch <= now
    BY <1>3 DEF IInv, EndsInThePast, Live
  <2> QED
    BY <1>2, <1>3, <2>1, <2>2
<1> QED
  BY <1>4, <1>5, <1>6, <1>7, <1>8 DEF IInv

\* Every step keeps the inductive invariant.
LEMMA StepIInv == NoFaults /\ IInv /\ [Next]_vars => IInv'
<1> SUFFICES ASSUME NoFaults, IInv, [Next]_vars
             PROVE  IInv'
  OBVIOUS
<1>0. TypeOK'
  BY StepType DEF IInv
<1>a. now \in Time /\ now >= now
  BY DEF IInv, TypeOK, Time
<1>1. ASSUME NEW r \in Receivers, PollBegin(r)
      PROVE  IInv'
  BY <1>0, <1>1, <1>a, ClockStep DEF PollBegin
<1>2. ASSUME NEW r \in Receivers, PollOn(r)
      PROVE  IInv'
  BY <1>0, <1>2, <1>a, ClockStep DEF PollOn
<1>3. ASSUME NEW r \in Receivers, PollNotOn(r)
      PROVE  IInv'
  BY <1>0, <1>3, NotOnStep
<1>4. ASSUME NEW r \in Receivers, PollOffline(r)
      PROVE  IInv'
  BY <1>0, <1>4, OfflineStep
<1>5. ASSUME NEW r \in Receivers, PollUnparsable(r)
      PROVE  IInv'
  BY <1>0, <1>5, UnparsableStep
<1>6. ASSUME NEW r \in Receivers, NEW s \in Srefs \cup {None}, PollService(r, s)
      PROVE  IInv'
  BY <1>0, <1>6, ChannelChangeStep, SameChannelStep DEF PollService
<1>7. ASSUME NEW r \in Receivers, ProbeReceiver(r)
      PROVE  IInv'
  BY <1>0, <1>7, <1>a, ClockStep DEF ProbeReceiver
<1>8. ASSUME NEW r \in Receivers, NEW found \in SUBSET Srefs,
             RefreshChannels(r, found)
      PROVE  IInv'
  BY <1>0, <1>8, <1>a, ClockStep DEF RefreshChannels
<1>9. ASSUME NEW i \in Ids, DeleteSession(i)
      PROVE  IInv'
  <2>1. rows' = [j \in Ids |-> IF j \in {i} THEN None ELSE rows[j]]
    BY <1>9 DEF DeleteSession, IInv, TypeOK
  <2>2. \A j \in {i} : ~Tracked(j)
    BY <1>9 DEF DeleteSession, NoFaults
  <2>3. {i} \in SUBSET Ids /\ UNCHANGED <<now, up, mem, poll, lastSeen>>
    BY <1>9 DEF DeleteSession
  <2> QED
    BY <1>0, <2>1, <2>2, <2>3, RemoveStep
<1>10. CASE CleanupOldSessions
  <2> DEFINE old == {j \in Ids : Live(j) /\ rows[j].start + Retention < now}
  <2>1. /\ rows' = [j \in Ids |-> IF j \in old THEN None ELSE rows[j]]
        /\ \A j \in old : ~Tracked(j)
        /\ UNCHANGED <<now, up, mem, poll, lastSeen>>
    BY <1>10 DEF CleanupOldSessions, NoFaults
  <2>2. old \in SUBSET Ids
    OBVIOUS
  <2> HIDE DEF old
  <2> QED
    BY <1>0, <2>1, <2>2, RemoveStep
<1>11. CASE Tick
  <2>1. now' \in Time /\ now' >= now
    BY <1>11 DEF Tick, IInv, TypeOK, Time
  <2> QED
    BY <1>0, <1>11, <2>1, ClockStep DEF Tick
<1>12. CASE Crash
  BY <1>0, <1>12, CrashStep
<1>13. CASE Startup
  BY <1>0, <1>13, StartupStep
<1>14. CASE UNCHANGED vars
  BY <1>0, <1>14, <1>a, ClockStep DEF vars
<1> QED
  BY <1>1, <1>2, <1>3, <1>4, <1>5, <1>6, <1>7, <1>8, <1>9, <1>10, <1>11,
     <1>12, <1>13, <1>14 DEF Next

\* The inductive invariant of the poll jobs and the session table.
THEOREM Invariance == NoFaults => (Spec => []IInv)
<1>1. Init => IInv
  BY InitIInv
<1>2. NoFaults /\ IInv /\ [Next]_vars => IInv'
  BY StepIInv
<1>3. NoFaults => [](NoFaults)
  <2> SUFFICES ASSUME NoFaults PROVE []NoFaults
    OBVIOUS
  <2> QED
    BY PTL DEF NoFaults
<1> QED
  BY <1>1, <1>2, <1>3, PTL DEF Spec

\* A confirmed session that has ended lasted at least min_watch_sec, whether a
\* channel change, standby, an offline timeout or a restart ended it
\* (poller.py:69, 87-88, 109-110, 635-639).
THEOREM ConfirmedSessionsAreLong == NoFaults => (Spec => []ConfirmedLongEnough)
<1>1. IInv => ConfirmedLongEnough
  BY DEF IInv
<1> QED
  BY <1>1, Invariance, PTL

\* Confirmed sessions of one receiver never overlap, and while the process runs
\* each one without an end is the one its poll job will end.
THEOREM ConfirmedSessionsAreDisjoint ==
    NoFaults => (Spec => [](NoOverlap /\ OpenConfirmedIsTracked /\ MemMatchesRow))
<1>1. IInv => NoOverlap /\ OpenConfirmedIsTracked /\ MemMatchesRow
  BY DEF IInv
<1> QED
  BY <1>1, Invariance, PTL

-----------------------------------------------------------------------------
(* What is watched is recorded.                                            *)

\* A session's row names the service the box is tuned to.  The polls that have
\* reported a service in a row began with the session or later, and have
\* confirmed it once they cover min_watch_sec.
Attending(m, k, rs) ==
    /\ m.sid # None => rs[m.sid].sref = m.lastSref
    /\ k.sref # None => m.lastSref = k.sref
    /\ k.sref # None /\ m.sid # None =>
          /\ m.start <= k.since
          /\ k.last >= k.since + MinWatch => m.confirmed

Attentive == \A r \in Receivers : Attending(mem[r], streak[r], rows)

\* No step changes the service of a row.
LEMMA SrefStep ==
    ASSUME NoFaults, IInv, [Next]_vars, NEW i \in Ids, Live(i), rows'[i] # None
    PROVE  rows'[i].sref = rows[i].sref
<1>1. rows \in [Ids -> SessionRow \cup {None}] /\ rows[i] \in SessionRow
  BY DEF IInv, TypeOK, Live
<1>2. \A n, t : CloseRow(rows, n, t)[i].sref = rows[i].sref
  <2> SUFFICES ASSUME NEW n, NEW t PROVE CloseRow(rows, n, t)[i].sref = rows[i].sref
    OBVIOUS
  <2>1. CloseRow(rows, n, t)[i] = rows[i] \/ CloseRow(rows, n, t)[i] = [rows[i] EXCEPT !.end = t]
    BY <1>1 DEF CloseRow
  <2> QED
    BY <1>1, <2>1 DEF SessionRow
<1>3. \A rs, seen : Commit(rs, seen) => rows' = rs
  BY DEF Commit, NoFaults
<1>4. ASSUME NEW r \in Receivers, PollNotOn(r)
      PROVE  rows'[i].sref = rows[i].sref
  BY <1>2, <1>3, <1>4 DEF PollNotOn
<1>5. ASSUME NEW r \in Receivers, PollOffline(r)
      PROVE  rows'[i].sref = rows[i].sref
  BY <1>2, <1>3, <1>5 DEF PollOffline
<1>6. ASSUME NEW r \in Receivers, NEW s \in Srefs \cup {None}, ChannelChange(r, s)
      PROVE  rows'[i].sref = rows[i].sref
  <2> DEFINE at == poll[r].at
             m == [mem[r] EXCEPT !.lastOk = at]
             ends == m.sid # None /\ m.confirmed
             ended == IF ends THEN CloseRow(rows, m.sid, at) ELSE rows
  <2>1. ended[i] # None /\ ended[i].sref = rows[i].sref
    <3>1. at \in Time
      BY DEF IInv, TypeOK
    <3>2. [rows[i] EXCEPT !.end = at] \in SessionRow
      BY <1>1, <3>1 DEF SessionRow, OptTime
    <3> QED
      BY <1>1, <1>2, <3>2 DEF CloseRow, Live
  <2>2. \A n \in NextId(ended) : n # i
    BY <2>1 DEF NextId, Ids
  <2>3. \/ rows' = ended
        \/ \E n \in NextId(ended) :
              rows' = [ended EXCEPT ![n] = [rcv |-> r, sref |-> s, start |-> at,
                                            end |-> None, confirmed |-> FALSE]]
    BY <1>3, <1>6 DEF ChannelChange, NoFaults
  <2>4. \A n, row : n # i => [ended EXCEPT ![n] = row][i] = ended[i]
    BY <1>1 DEF CloseRow
  <2> HIDE DEF ended
  <2> QED
    BY <2>1, <2>2, <2>3, <2>4
<1>7. ASSUME NEW r \in Receivers, SameChannel(r)
      PROVE  rows'[i].sref = rows[i].sref
  <2>1. PICK n : rows' = rows \/ rows' = [rows EXCEPT ![n].confirmed = TRUE]
    BY <1>3, <1>7 DEF SameChannel
  <2> QED
    BY <1>1, <2>1 DEF SessionRow
<1>8. CASE Startup
  <2>1. rows'[i] = SweepOrphan(rows[i])
    BY <1>8 DEF Startup
  <2>2. SweepOrphan(rows[i]) \in {None, rows[i]}
        \/ SweepOrphan(rows[i]) = [rows[i] EXCEPT !.end = OrphanEnd(rows[i], lastSeen[rows[i].rcv])]
    BY DEF SweepOrphan
  <2> QED
    BY <1>1, <2>1, <2>2 DEF SessionRow
<1>9. CASE CleanupOldSessions
  BY <1>9 DEF CleanupOldSessions
<1>10. ASSUME NEW j \in Ids, DeleteSession(j)
       PROVE  rows'[i].sref = rows[i].sref
  BY <1>1, <1>10 DEF DeleteSession
<1>11. CASE Tick \/ Crash \/ UNCHANGED vars
  BY <1>11 DEF Tick, Crash, vars
<1>12. ASSUME NEW r \in Receivers,
              \/ PollBegin(r) \/ PollOn(r) \/ PollUnparsable(r) \/ ProbeReceiver(r)
              \/ \E found \in SUBSET Srefs : RefreshChannels(r, found)
       PROVE  rows' = rows
  BY <1>12 DEF PollBegin, PollOn, PollUnparsable, ProbeReceiver, RefreshChannels
<1> QED
  BY <1>4, <1>5, <1>6, <1>7, <1>8, <1>9, <1>10, <1>11, <1>12 DEF Next, PollService

\* A receiver keeps its session and its channel, and no poll has reported
\* anything, unless it is the one polled.
LEMMA Unattended ==
    ASSUME NoFaults, IInv, IInv', [Next]_vars, Attentive, NEW r \in Receivers,
           mem'[r].sid \in {None, mem[r].sid},
           mem'[r].sid # None => mem'[r].lastSref = mem[r].lastSref,
           streak'[r] = NoStreak \/ (streak'[r] = streak[r] /\ mem'[r] = mem[r])
    PROVE  Attending(mem'[r], streak'[r], rows')
<1>1. ASSUME mem'[r].sid # None
      PROVE  rows'[mem'[r].sid].sref = mem'[r].lastSref
  <2> DEFINE i == mem[r].sid
  <2>1. mem'[r].sid = i /\ i # None
    BY <1>1
  <2>2. Live(i) /\ i \in Ids
    BY <2>1 DEF IInv, MemMatchesRow, TypeOK, MemState
  <2>3. rows'[i] # None
    BY <2>1 DEF IInv, MemMatchesRow, Live
  <2>4. rows[i].sref = mem[r].lastSref
    BY <2>1 DEF Attentive, Attending
  <2> QED
    BY <1>1, <2>1, <2>2, <2>3, <2>4, SrefStep
<1> QED
  BY <1>1 DEF Attending, Attentive, NoStreak

\* The poll that has an answer.
LEMMA ServiceAttends ==
    ASSUME NoFaults, MinWatch > 0, IInv, IInv', [Next]_vars, Attentive,
           NEW r \in Receivers, NEW s \in Srefs \cup {None}, PollService(r, s)
    PROVE  Attending(mem'[r], streak'[r], rows')
<1> DEFINE at == poll[r].at
           m == [mem[r] EXCEPT !.lastOk = at]
           k == streak[r]
<1>1. /\ at \in Nat /\ k.since \in Nat /\ k.last \in Nat
      /\ mem \in [Receivers -> MemState] /\ mem[r] \in MemState /\ k \in Streak
      /\ known \subseteq Srefs
  BY DEF IInv, TypeOK, Time, Streak
<1>2. m.sid = mem[r].sid /\ m.start = mem[r].start /\ m.lastSref = mem[r].lastSref
      /\ m.confirmed = mem[r].confirmed /\ m \in MemState
  BY <1>1 DEF MemState, OptTime, Time
<1>3. \A rs, seen : Commit(rs, seen) => rows' = rs
  BY DEF Commit, NoFaults
<1>4. streak'[r] = IF s \notin known THEN NoStreak
                   ELSE IF s = k.sref THEN [k EXCEPT !.last = at]
                   ELSE [sref |-> s, since |-> at, last |-> at]
  BY DEF PollService, Observe, IInv, TypeOK
<1>5. Attending(mem[r], k, rows)
  BY DEF Attentive
<1>6. CASE ChannelChange(r, s)
  <2>1. s # mem[r].lastSref
    BY <1>6 DEF ChannelChange
  <2>2. s \in known => s # k.sref
    BY <1>1, <1>5, <2>1 DEF Attending
  <2>3. CASE s \notin known
    <3>1. \/ mem' = [mem EXCEPT ![r] = ForgetWithSref(m)]
          \/ mem' = [mem EXCEPT ![r] = [[m EXCEPT !.lastSref = s, !.confirmed = FALSE]
                                          EXCEPT !.sid = None, !.start = at]]
      BY <1>6, <2>3 DEF ChannelChange
    <3>2. ForgetWithSref(m).sid = None
      BY <1>2 DEF ForgetWithSref, Forget, MemState
    <3>3. [[m EXCEPT !.lastSref = s, !.confirmed = FALSE] EXCEPT !.sid = None, !.start = at].sid = None
      BY <1>2 DEF MemState
    <3>4. mem'[r].sid = None
      BY <1>1, <3>1, <3>2, <3>3
    <3> QED
      BY <1>4, <2>3, <3>4 DEF Attending, NoStreak
  <2>4. CASE s \in known
    <3> DEFINE ended == IF m.sid # None /\ m.confirmed THEN CloseRow(rows, m.sid, at) ELSE rows
               row == [rcv |-> r, sref |-> s, start |-> at, end |-> None, confirmed |-> FALSE]
    <3>1. s # None
      BY <1>1, <2>4
    <3>2. PICK n \in NextId(ended) :
            /\ mem' = [mem EXCEPT ![r] = [[m EXCEPT !.lastSref = s, !.confirmed = FALSE]
                                             EXCEPT !.sid = n, !.start = at]]
            /\ rows' = [ended EXCEPT ![n] = row]
      BY <1>3, <1>6, <2>4, <3>1 DEF ChannelChange, NoFaults
    <3>3. mem'[r].sid = n /\ mem'[r].start = at /\ mem'[r].lastSref = s
      BY <1>1, <1>2, <3>2 DEF MemState
    <3>4. n \in Ids
      BY <3>2 DEF NextId
    <3>5. ended \in [Ids -> SessionRow \cup {None}]
      BY <1>1, <1>2, CloseRowType DEF IInv, TypeOK, MemState, Time
    <3> HIDE DEF ended
    <3>6. rows'[n].sref = s
      BY <3>2, <3>4, <3>5
    <3>7. streak'[r] = [sref |-> s, since |-> at, last |-> at]
      BY <1>4, <2>2, <2>4
    <3>8. ~(at >= at + MinWatch)
      BY <1>1
    <3> QED
      BY <1>1, <3>3, <3>6, <3>7, <3>8 DEF Attending
  <2> QED
    BY <2>3, <2>4
<1>7. CASE s = mem[r].lastSref /\ SameChannel(r)
  <2> DEFINE ripe == /\ m.sid # None /\ ~m.confirmed /\ m.start # None
                     /\ WatchedEnough(m, at)
                     /\ rows[m.sid] # None
  <2>1. mem'[r] = [m EXCEPT !.confirmed = @ \/ ripe]
    BY <1>1, <1>7 DEF SameChannel
  <2>2. /\ mem'[r].sid = mem[r].sid /\ mem'[r].lastSref = s /\ mem'[r].start = mem[r].start
        /\ mem'[r].confirmed = (m.confirmed \/ ripe)
    BY <1>2, <1>7, <2>1 DEF MemState
  <2>3. ASSUME mem[r].sid # None
        PROVE  rows'[mem[r].sid].sref = s
    <3>1. Live(mem[r].sid) /\ mem[r].sid \in Ids
      BY <1>1, <2>3 DEF IInv, MemMatchesRow, MemState
    <3>2. rows'[mem[r].sid] # None
      BY <2>2, <2>3 DEF IInv, MemMatchesRow, Live
    <3>3. rows[mem[r].sid].sref = s
      BY <1>5, <1>7, <2>3 DEF Attending
    <3> QED
      BY <3>1, <3>2, <3>3, SrefStep
  <2>4. streak'[r].sref # None => streak'[r].sref = s
    BY <1>4, <1>1 DEF NoStreak, Streak
  <2>5. ASSUME mem[r].sid # None, streak'[r].sref # None
        PROVE  /\ mem[r].start <= streak'[r].since
               /\ streak'[r].last >= streak'[r].since + MinWatch => mem'[r].confirmed
    <3>1. /\ Live(mem[r].sid) /\ mem[r].sid \in Ids
          /\ mem[r].start = rows[mem[r].sid].start
      BY <1>1, <2>5 DEF IInv, MemMatchesRow, MemState
    <3>2. mem[r].start \in Nat /\ mem[r].start # None
      BY <3>1 DEF IInv, TypeOK, SessionRow, Live, Time
    <3>3. mem[r].start <= at
      <4>1. /\ mem[r].lastOk # None /\ mem[r].start <= mem[r].lastOk
            /\ mem[r].lastOk <= poll[r].at
        BY <2>5 DEF IInv, ClockOrder, PollService
      <4>2. mem[r].lastOk \in Nat
        BY <1>1, <4>1 DEF MemState, OptTime, Time
      <4> QED
        BY <1>1, <3>2, <4>1, <4>2
    <3>4. /\ mem[r].start <= streak'[r].since /\ streak'[r].last = at
          /\ streak'[r].since \in Nat
      <4>1. s \in known
        BY <1>4, <2>5 DEF NoStreak
      <4>2. s # None
        BY <1>1, <4>1
      <4>3. CASE s = k.sref
        BY <1>1, <1>4, <1>5, <2>5, <4>1, <4>2, <4>3 DEF Attending, Streak
      <4>4. CASE s # k.sref
        BY <1>1, <1>4, <3>3, <4>1, <4>4
      <4> QED
        BY <4>3, <4>4
    <3>5. at >= streak'[r].since + MinWatch => WatchedEnough(m, at)
      BY <1>1, <1>2, <3>2, <3>4 DEF WatchedEnough
    <3>6. at >= streak'[r].since + MinWatch => m.confirmed \/ ripe
      BY <1>2, <2>5, <3>1, <3>2, <3>5 DEF Live
    <3> QED
      BY <2>2, <3>4, <3>6
  <2> QED
    BY <2>2, <2>3, <2>4, <2>5 DEF Attending
<1> QED
  BY <1>6, <1>7 DEF PollService

LEMMA AttentiveNext ==
    ASSUME NoFaults, MinWatch > 0, IInv, IInv', [Next]_vars, Attentive
    PROVE  Attentive'
<1>0. mem \in [Receivers -> MemState] /\ streak \in [Receivers -> Streak]
  BY DEF IInv, TypeOK
<1>1. ASSUME UNCHANGED <<mem, streak>>
      PROVE  Attentive'
  BY <1>1, Unattended DEF Attentive
<1>2. CASE Crash
  BY <1>2, Unattended DEF Attentive, Crash, FreshMem
<1>3. ASSUME NEW r \in Receivers, NEW s \in Srefs \cup {None},
             PollNotOn(r) \/ PollOffline(r) \/ PollUnparsable(r) \/ PollService(r, s)
      PROVE  Attentive'
  <2>1. \A q \in Receivers \ {r} : mem'[q] = mem[q] /\ streak'[q] = streak[q]
    BY <1>0, <1>3 DEF PollNotOn, PollOffline, PollUnparsable, PollService,
       ChannelChange, SameChannel, Observe, ObserveNothing
  <2>2. \A q \in Receivers \ {r} : Attending(mem'[q], streak'[q], rows')
    BY <2>1, Unattended
  <2>3. CASE PollNotOn(r) \/ PollOffline(r) \/ PollUnparsable(r)
    <3>1. streak'[r] = NoStreak
      BY <1>0, <2>3 DEF PollNotOn, PollOffline, PollUnparsable, ObserveNothing
    <3>2. /\ mem'[r].sid \in {None, mem[r].sid}
          /\ mem'[r].sid # None => mem'[r].lastSref = mem[r].lastSref
      BY <1>0, <2>3 DEF PollNotOn, PollOffline, PollUnparsable, Forget,
         ForgetWithSref, MemState
    <3> QED
      BY <2>2, <3>1, <3>2, Unattended DEF Attentive
  <2>4. CASE PollService(r, s)
    BY <2>2, <2>4, ServiceAttends DEF Attentive
  <2> QED
    BY <1>3, <2>3, <2>4
<1>4. ASSUME NEW r \in Receivers,
             \/ PollBegin(r) \/ PollOn(r) \/ ProbeReceiver(r)
             \/ \E found \in SUBSET Srefs : RefreshChannels(r, found)
      PROVE  UNCHANGED <<mem, streak>>
  BY <1>4 DEF PollBegin, PollOn, ProbeReceiver, RefreshChannels
<1>5. CASE \/ \E i \in Ids : DeleteSession(i)
           \/ CleanupOldSessions \/ Tick \/ Startup \/ UNCHANGED vars
  BY <1>1, <1>5 DEF DeleteSession, CleanupOldSessions, Tick, Startup, vars
<1> QED
  BY <1>1, <1>2, <1>3, <1>4, <1>5 DEF Next

\* What is watched for min_watch_sec is recorded, provided the poll job holds a
\* session at all.  With min_watch_sec = 0 it is recorded one poll later
\* (poller.py:125-130).
THEOREM WatchedGetsRecorded ==
    NoFaults /\ MinWatch > 0 => (Spec => []WatchedIsRecorded)
<1> SUFFICES ASSUME NoFaults, MinWatch > 0 PROVE Spec => []WatchedIsRecorded
  OBVIOUS
<1>1. Init => Attentive
  <2> SUFFICES ASSUME Init, NEW r \in Receivers PROVE Attending(mem[r], streak[r], rows)
    BY DEF Attentive
  <2>1. mem[r].sid = None /\ streak[r].sref = None
    BY DEF Init, FreshMem, NoStreak
  <2> QED
    BY <2>1 DEF Attending
<1>2. IInv /\ IInv' /\ [Next]_vars /\ Attentive => Attentive'
  BY AttentiveNext
<1>3. IInv /\ Attentive => WatchedIsRecorded
  <2> SUFFICES ASSUME IInv, Attentive, NEW r \in Receivers, WatchedLong(r), mem[r].sid # None
               PROVE  Recorded(r)
    BY DEF WatchedIsRecorded
  <2>1. mem[r].sid \in Ids
    BY DEF IInv, TypeOK, MemState
  <2>2. /\ rows[mem[r].sid].sref = streak[r].sref /\ mem[r].confirmed
    BY DEF Attentive, Attending, WatchedLong
  <2> QED
    BY <2>1, <2>2 DEF IInv, MemMatchesRow, Recorded
<1>4. Spec => []IInv
  BY Invariance
<1> QED
  BY <1>1, <1>2, <1>3, <1>4, PTL DEF Spec

-----------------------------------------------------------------------------
(* Ends and restarts.                                                      *)

\* A poll leaves an ended row alone: what it closes and confirms is the open
\* row it remembers, and a new session gets a row that is not there.
LEMMA PollSparesEnded ==
    ASSUME NoFaults, IInv, NEW r \in Receivers, NEW i \in Ids,
           Live(i), rows[i].end # None,
           \/ PollNotOn(r) \/ PollOffline(r) \/ PollUnparsable(r)
           \/ \E s \in Srefs \cup {None} : PollService(r, s)
    PROVE  rows'[i] = rows[i]
<1>1. mem[r].sid # i
  <2>1. i # None
    BY DEF Ids
  <2> QED
    BY <2>1 DEF IInv, MemMatchesRow
<1>2. \A t : CloseRow(rows, mem[r].sid, t)[i] = rows[i]
  BY <1>1 DEF CloseRow, IInv, TypeOK
<1>3. \A rs, seen : Commit(rs, seen) => rows' = rs
  BY DEF Commit, NoFaults
<1>4. CASE PollNotOn(r)
  BY <1>2, <1>3, <1>4 DEF PollNotOn
<1>5. CASE PollOffline(r)
  BY <1>2, <1>3, <1>5 DEF PollOffline
<1>6. CASE PollUnparsable(r)
  BY <1>6 DEF PollUnparsable
<1>7. ASSUME NEW s \in Srefs \cup {None}, ChannelChange(r, s)
      PROVE  rows'[i] = rows[i]
  <2> DEFINE at == poll[r].at
             m == [mem[r] EXCEPT !.lastOk = at]
             ends == m.sid # None /\ m.confirmed
             ended == IF ends THEN CloseRow(rows, m.sid, at) ELSE rows
  <2>1. m.sid = mem[r].sid
    BY DEF IInv, TypeOK, MemState
  <2>2. ended[i] = rows[i]
    BY <1>2, <2>1
  <2>3. \A n \in NextId(ended) : n # i
    BY <2>2 DEF NextId, Ids, Live
  <2>4. \/ rows' = ended
        \/ \E n \in NextId(ended) :
              rows' = [ended EXCEPT ![n] = [rcv |-> r, sref |-> s, start |-> at,
                                            end |-> None, confirmed |-> FALSE]]
    BY <1>3, <1>7 DEF ChannelChange, NoFaults
  <2>5. \A n, row : n # i => [ended EXCEPT ![n] = row][i] = ended[i]
    BY <2>2 DEF CloseRow, IInv, TypeOK
  <2> HIDE DEF ended
  <2> QED
    BY <2>2, <2>3, <2>4, <2>5
<1>8. CASE SameChannel(r)
  <2> DEFINE m == [mem[r] EXCEPT !.lastOk = poll[r].at]
  <2>1. m.sid = mem[r].sid
    BY DEF IInv, TypeOK, MemState
  <2>2. rows' = rows \/ rows' = [rows EXCEPT ![m.sid].confirmed = TRUE]
    BY <1>3, <1>8 DEF SameChannel
  <2> HIDE DEF m
  <2> QED
    BY <1>1, <2>1, <2>2 DEF IInv, TypeOK
<1> QED
  BY <1>4, <1>5, <1>6, <1>7, <1>8 DEF PollService

\* So does everything else, but for deletes.
LEMMA StepSparesEnded ==
    ASSUME NoFaults, IInv, [Next]_vars, NEW i \in Ids, Live(i), rows[i].end # None
    PROVE  rows'[i] \in {None, rows[i]}
<1>1. ASSUME NEW r \in Receivers,
             \/ PollBegin(r) \/ PollOn(r) \/ ProbeReceiver(r)
             \/ \E found \in SUBSET Srefs : RefreshChannels(r, found)
      PROVE  rows' = rows
  BY <1>1 DEF PollBegin, PollOn, ProbeReceiver, RefreshChannels
<1>2. ASSUME NEW j \in Ids, DeleteSession(j)
      PROVE  rows'[i] \in {None, rows[i]}
  BY <1>2 DEF DeleteSession, IInv, TypeOK
<1>3. CASE CleanupOldSessions
  BY <1>3 DEF CleanupOldSessions
<1>4. CASE Startup
  BY <1>4 DEF Startup, SweepOrphan
<1>5. CASE Tick \/ Crash \/ UNCHANGED vars
  BY <1>5 DEF Tick, Crash, vars
<1> QED
  BY <1>1, <1>2, <1>3, <1>4, <1>5, PollSparesEnded DEF Next

\* The end of a session is final, whatever ended it and whatever comes later: no
\* poll, restart or retention job moves it (poller.py:208-217, 611-644).
THEOREM EndsAreFinal == NoFaults => (Spec => EndIsFinal)
<1> SUFFICES ASSUME NoFaults PROVE Spec => EndIsFinal
  OBVIOUS
<1>1. IInv /\ [Next]_vars =>
        [\A i \in Ids :
           Live(i) /\ rows[i].end # None => rows'[i] \in {None, rows[i]}]_vars
  BY StepSparesEnded
<1>2. Spec => []IInv
  BY Invariance
<1> QED
  BY <1>1, <1>2, PTL DEF Spec, EndIsFinal

\* A restart keeps every confirmed session and leaves no row open, whatever has
\* failed before (poller.py:611-644).
THEOREM RestartSettles == Spec => RestartSettlesSessions
<1>1. TypeOK /\ [Next]_vars =>
        [~up /\ up' =>
           \A i \in Ids :
              /\ Live(i) /\ rows[i].confirmed => rows'[i] # None
              /\ rows'[i] # None => rows'[i].end # None]_vars
  <2> SUFFICES ASSUME TypeOK, [Next]_vars, ~up, up', NEW i \in Ids
               PROVE  /\ Live(i) /\ rows[i].confirmed => rows'[i] # None
                      /\ rows'[i] # None => rows'[i].end # None
    OBVIOUS
  <2>1. Startup
    BY DEF Next, vars, PollBegin, PollOn, PollNotOn, PollOffline, PollUnparsable,
           PollService, ProbeReceiver, RefreshChannels, DeleteSession,
           CleanupOldSessions, Tick, Crash
  <2>2. rows'[i] = SweepOrphan(rows[i])
    BY <2>1 DEF Startup
  <2>3. CASE rows[i] = None \/ rows[i].end # None \/ ~rows[i].confirmed
    BY <2>2, <2>3 DEF SweepOrphan, Live
  <2>4. CASE ~(rows[i] = None \/ rows[i].end # None \/ ~rows[i].confirmed)
    <3>1. rows[i] \in SessionRow /\ lastSeen[rows[i].rcv] \in OptTime
      BY <2>4 DEF TypeOK, SessionRow
    <3> DEFINE e == OrphanEnd(rows[i], lastSeen[rows[i].rcv])
    <3>2. e \in Time
      BY <3>1, OrphanEndType
    <3>3. rows'[i] = [rows[i] EXCEPT !.end = e]
      BY <2>2, <2>4 DEF SweepOrphan
    <3> HIDE DEF e
    <3>4. rows'[i] \in SessionRow /\ rows'[i].end = e
      BY <3>1, <3>2, <3>3 DEF SessionRow, OptTime
    <3> QED
      BY <3>2, <3>4 DEF Time
  <2> QED
    BY <2>3, <2>4
<1> QED
  BY <1>1, TypeCorrect, PTL DEF Spec, RestartSettlesSessions

\* While the process runs, no confirmed session is left open but the one that
\* its receiver's poll job will end (poller.py:69, 87, 109).
THEOREM NoneLeftOpen == NoFaults => (Spec => []OpenConfirmedIsTracked)
<1>1. IInv => OpenConfirmedIsTracked
  BY DEF IInv
<1> QED
  BY <1>1, Invariance, PTL

-----------------------------------------------------------------------------
(* What holds whatever fails, of one receiver: with two, a session id that  *)
(* is given out again belongs to two poll jobs (PollSessionAlias.cfg).     *)

\* With one receiver nobody else writes or reuses the row that its poll job
\* remembers.
OneReceiver == \A q, r \in Receivers : q = r

\* If the row that is remembered is there at all, it is open, and as old as
\* remembered; it is confirmed only if that is remembered, too.
Fits(m, rs) ==
    m.sid # None =>
        /\ m.start \in Nat
        /\ rs[m.sid] # None => /\ rs[m.sid].end = None
                               /\ rs[m.sid].start = m.start
                               /\ rs[m.sid].confirmed => m.confirmed

\* ClockOrder of one receiver at time t, as far as it concerns its session.
Timely(m, t) ==
    /\ m.lastOk # None => m.lastOk <= t
    /\ m.sid # None => m.lastOk # None /\ m.start <= m.lastOk
    /\ m.confirmed => m.sid # None /\ m.lastOk >= m.start + MinWatch

\* ConfirmedLongEnough and a step of EndIsFinal, of any tables.
Long(rs) ==
    \A i \in Ids : rs[i] # None /\ rs[i].confirmed /\ rs[i].end # None
                   => rs[i].end >= rs[i].start + MinWatch
Spared(rs, new) ==
    \A i \in Ids : rs[i] # None /\ rs[i].end # None => new[i] \in {None, rs[i]}

Table == [Ids -> SessionRow \cup {None}]

FaultyInv ==
    /\ TypeOK
    /\ DownIsBlank
    /\ Long(rows)
    /\ \A r \in Receivers :
          /\ Fits(mem[r], rows)
          /\ poll[r].at <= now /\ Timely(mem[r], now)
          /\ poll[r].phase # "idle" => Timely(mem[r], poll[r].at)

LEMMA FreshFits == \A rs, t : Fits(FreshMem, rs) /\ Timely(FreshMem, t)
BY DEF Fits, Timely, FreshMem

\* Without a session there is nothing to fit.
LEMMA ForgetFits ==
    ASSUME NEW m \in MemState, NEW t, Timely(m, t)
    PROVE  /\ Timely(Forget(m), t) /\ Timely(ForgetWithSref(m), t)
           /\ \A rs : Fits(Forget(m), rs) /\ Fits(ForgetWithSref(m), rs)
BY DEF Forget, ForgetWithSref, Fits, Timely, MemState

\* Closing the session, late enough if it is confirmed.
LEMMA CloseLong ==
    ASSUME NEW rs \in Table, Long(rs), NEW m \in MemState, Fits(m, rs), m.sid # None,
           NEW t \in Nat, m.confirmed => t >= m.start + MinWatch
    PROVE  /\ CloseRow(rs, m.sid, t) \in Table
           /\ Long(CloseRow(rs, m.sid, t)) /\ Spared(rs, CloseRow(rs, m.sid, t))
           /\ \A i \in Ids : CloseRow(rs, m.sid, t)[i] = None <=> rs[i] = None
<1> DEFINE k == m.sid
           new == CloseRow(rs, k, t)
<1>0. k \in Ids /\ m.start \in Nat
  BY DEF MemState, Fits
<1>1. new \in Table
  BY <1>0, CloseRowType DEF Table, Time
<1>2. CASE rs[k] = None
  <2>1. new = rs
    BY <1>2 DEF CloseRow
  <2> QED
    BY <1>1, <2>1 DEF Spared
<1>3. CASE rs[k] # None
  <2> DEFINE row == [rs[k] EXCEPT !.end = t]
  <2>1. /\ rs[k] \in SessionRow /\ rs[k].end = None /\ rs[k].start = m.start
        /\ rs[k].confirmed => m.confirmed
    BY <1>0, <1>3 DEF Table, Fits
  <2>2. /\ row \in SessionRow /\ row.end = t /\ row.start = rs[k].start
        /\ row.confirmed = rs[k].confirmed
    BY <2>1 DEF SessionRow, OptTime, Time
  <2> HIDE DEF row
  <2>3. new = [rs EXCEPT ![k] = row]
    BY <1>0, <1>3 DEF CloseRow, row
  <2> HIDE DEF k, new
  <2>4. new[k] = row /\ \A i \in Ids : i # k => new[i] = rs[i]
    BY <1>0, <2>3 DEF Table
  <2>5. row # None
    BY <2>2
  <2>6. Long(new)
    BY <2>1, <2>2, <2>4 DEF Long
  <2>7. Spared(rs, new)
    BY <2>1, <2>4 DEF Spared
  <2> QED
    BY <1>1, <1>3, <2>4, <2>5, <2>6, <2>7 DEF k, new
<1> QED
  BY <1>2, <1>3

\* A commit, or its rollback.
LEMMA CommitLong ==
    ASSUME Long(rows), NEW rs, NEW seen, Long(rs), Spared(rows, rs), Commit(rs, seen)
    PROVE  Long(rows') /\ Spared(rows, rows') /\ (rows' = rs \/ rows' = rows)
BY DEF Commit, Spared

\* A poll of the one receiver ends.
LEMMA PollEnds ==
    ASSUME FaultyInv, OneReceiver, TypeOK', NEW r \in Receivers,
           poll[r].phase # "idle", Finish(r), UNCHANGED <<now, up>>,
           NEW new, mem' = [mem EXCEPT ![r] = new],
           Fits(new, rows'), Timely(new, now), Long(rows')
    PROVE  FaultyInv'
<1>1. mem'[r] = new /\ poll'[r] = IdlePoll /\ \A q \in Receivers : q = r
  BY DEF OneReceiver, FaultyInv, TypeOK, Finish
<1>2. up'
  <2>1. up
    BY DEF FaultyInv, DownIsBlank, IdlePoll
  <2> QED
    BY <2>1
<1>3. IdlePoll.at = 0 /\ IdlePoll.phase = "idle" /\ now' \in Nat
  BY DEF IdlePoll, TypeOK, Time
<1>4. 0 <= now'
  BY <1>3
<1>5. DownIsBlank'
  BY <1>2 DEF DownIsBlank
<1> QED
  BY <1>1, <1>3, <1>4, <1>5 DEF FaultyInv, Fits, Timely, Long

\* What a poll of the one receiver may rely on.
LEMMA PollFacts ==
    ASSUME FaultyInv, NEW r \in Receivers, poll[r].phase # "idle"
    PROVE  /\ rows \in Table /\ Long(rows) /\ Spared(rows, rows)
           /\ mem \in [Receivers -> MemState] /\ mem[r] \in MemState
           /\ poll[r].at \in Nat /\ now \in Nat /\ poll[r].at <= now
           /\ Fits(mem[r], rows) /\ Timely(mem[r], now) /\ Timely(mem[r], poll[r].at)
BY DEF FaultyInv, TypeOK, Table, Spared, Time

LEMMA NotOnFaulty ==
    ASSUME FaultyInv, OneReceiver, TypeOK', NEW r \in Receivers, PollNotOn(r)
    PROVE  FaultyInv' /\ Spared(rows, rows')
<1> DEFINE m == mem[r]
           t == poll[r].at
<1>1. poll[r].phase # "idle" /\ Finish(r) /\ UNCHANGED <<now, up>>
  BY DEF PollNotOn
<1>2. /\ rows \in Table /\ Long(rows) /\ Spared(rows, rows)
      /\ mem \in [Receivers -> MemState] /\ m \in MemState /\ t \in Nat /\ now \in Nat
      /\ t <= now /\ Fits(m, rows) /\ Timely(m, now) /\ Timely(m, t)
  BY <1>1, PollFacts
<1>3. /\ Timely(Forget(m), now) /\ Timely(ForgetWithSref(m), now)
      /\ Fits(Forget(m), rows') /\ Fits(ForgetWithSref(m), rows')
  BY <1>2, ForgetFits
<1>4. CASE m.sid = None
  <2>1. mem' = [mem EXCEPT ![r] = m] /\ rows' = rows
    BY <1>2, <1>4 DEF PollNotOn, Commit
  <2> HIDE DEF m
  <2> QED
    BY <1>1, <1>2, <2>1, PollEnds
<1>5. CASE m.sid # None /\ m.confirmed
  <2> DEFINE rs == CloseRow(rows, m.sid, t)
  <2>1. mem' = [mem EXCEPT ![r] = Forget(m)] /\ Commit(rs, lastSeen)
    BY <1>5 DEF PollNotOn
  <2>2. t >= m.start + MinWatch
    <3>1. m.lastOk \in Nat /\ m.start \in Nat /\ m.lastOk <= t /\ m.lastOk >= m.start + MinWatch
      BY <1>2, <1>5 DEF Timely, Fits, MemState, OptTime, Time
    <3> QED
      BY <1>2, <3>1
  <2>3. Long(rs) /\ Spared(rows, rs)
    BY <1>2, <1>5, <2>2, CloseLong
  <2> HIDE DEF rs, m
  <2>4. Long(rows') /\ Spared(rows, rows')
    BY <1>2, <2>1, <2>3, CommitLong
  <2> QED
    BY <1>1, <1>3, <2>1, <2>4, PollEnds
<1>6. CASE m.sid # None /\ ~m.confirmed
  <2>1. mem' = [mem EXCEPT ![r] = ForgetWithSref(m)] /\ rows' = rows
    BY <1>6 DEF PollNotOn, Commit
  <2> HIDE DEF m
  <2> QED
    BY <1>1, <1>2, <1>3, <2>1, PollEnds
<1> QED
  BY <1>4, <1>5, <1>6

LEMMA OfflineFaulty ==
    ASSUME FaultyInv, OneReceiver, TypeOK', NEW r \in Receivers, PollOffline(r)
    PROVE  FaultyInv' /\ Spared(rows, rows')
<1> DEFINE m == mem[r]
           t == m.lastOk + PollInterval
<1>1. poll[r].phase # "idle" /\ Finish(r) /\ UNCHANGED <<now, up>>
  BY DEF PollOffline
<1>2. /\ rows \in Table /\ Long(rows) /\ Spared(rows, rows)
      /\ mem \in [Receivers -> MemState] /\ m \in MemState /\ now \in Nat
      /\ Fits(m, rows) /\ Timely(m, now)
  BY <1>1, PollFacts
<1>3. Timely(Forget(m), now) /\ Fits(Forget(m), rows')
  BY <1>2, ForgetFits
<1>4. CASE /\ m.lastOk # None /\ m.sid # None
           /\ mem' = [mem EXCEPT ![r] = Forget(m)]
           /\ Commit(CloseRow(rows, m.sid, t), lastSeen)
  <2> DEFINE rs == CloseRow(rows, m.sid, t)
  <2>1. t \in Nat /\ (m.confirmed => t >= m.start + MinWatch)
    <3>1. /\ m.lastOk \in Nat /\ m.start \in Nat
          /\ m.confirmed => m.lastOk >= m.start + MinWatch
      BY <1>2, <1>4 DEF Timely, Fits, MemState, OptTime, Time
    <3> QED
      BY <3>1
  <2> HIDE DEF t
  <2>2. Long(rs) /\ Spared(rows, rs)
    BY <1>2, <1>4, <2>1, CloseLong
  <2> HIDE DEF rs, m
  <2>3. Long(rows') /\ Spared(rows, rows')
    BY <1>2, <1>4, <2>2, CommitLong DEF rs
  <2> QED
    BY <1>1, <1>3, <1>4, <2>3, PollEnds
<1>5. CASE UNCHANGED <<mem, rows, lastSeen>>
  <2>1. mem' = [mem EXCEPT ![r] = m] /\ rows' = rows
    BY <1>2, <1>5
  <2> HIDE DEF m
  <2> QED
    BY <1>1, <1>2, <2>1, PollEnds
<1> QED
  BY <1>4, <1>5 DEF PollOffline

\* The poll has reached the box.
LEMMA ReachedFits ==
    ASSUME NEW m \in MemState, NEW t \in Nat, NEW later \in Nat, t <= later,
           Timely(m, t), NEW rs, Fits(m, rs),
           NEW n, n = [m EXCEPT !.lastOk = t]
    PROVE  /\ n \in MemState /\ Fits(n, rs) /\ Timely(n, t) /\ Timely(n, later)
           /\ n.sid = m.sid /\ n.start = m.start /\ n.confirmed = m.confirmed
           /\ n.lastOk = t
<1>1. /\ n \in MemState /\ n.sid = m.sid /\ n.start = m.start
      /\ n.confirmed = m.confirmed /\ n.lastOk = t
  BY DEF MemState, OptTime, Time
<1>2. Fits(n, rs)
  BY <1>1 DEF Fits
<1>3. m.sid # None => m.start \in Nat /\ m.lastOk \in Nat
  BY DEF Fits, Timely, MemState, OptTime, Time
<1>4. Timely(n, t) /\ Timely(n, later)
  BY <1>1, <1>3 DEF Timely
<1> QED
  BY <1>1, <1>2, <1>4

LEMMA UnparsableFaulty ==
    ASSUME FaultyInv, OneReceiver, TypeOK', NEW r \in Receivers, PollUnparsable(r)
    PROVE  FaultyInv' /\ Spared(rows, rows')
<1> DEFINE m == mem[r]
           t == poll[r].at
           n == [m EXCEPT !.lastOk = t]
<1>1. poll[r].phase # "idle" /\ Finish(r) /\ UNCHANGED <<now, up, rows>>
  BY DEF PollUnparsable
<1>2. /\ Long(rows) /\ Spared(rows, rows) /\ mem \in [Receivers -> MemState]
      /\ m \in MemState /\ t \in Nat /\ now \in Nat /\ t <= now
      /\ Fits(m, rows) /\ Timely(m, t)
  BY <1>1, PollFacts
<1>3. Fits(n, rows) /\ Timely(n, now)
  BY <1>2, ReachedFits
<1>4. mem' = [mem EXCEPT ![r] = n]
  BY DEF PollUnparsable
<1> HIDE DEF n
<1> QED
  BY <1>1, <1>2, <1>3, <1>4, PollEnds

\* A channel change: the row of the new session takes an id that is free, with
\* or without the commit that ends the old session.
LEMMA ChangeFaulty ==
    ASSUME FaultyInv, NEW r \in Receivers, poll[r].phase # "idle",
           NEW s \in Srefs \cup {None}, ChannelChange(r, s)
    PROVE  /\ mem' = [mem EXCEPT ![r] = mem'[r]]
           /\ Fits(mem'[r], rows') /\ Timely(mem'[r], now)
           /\ Long(rows') /\ Spared(rows, rows')
<1> DEFINE at == poll[r].at
           m == [mem[r] EXCEPT !.lastOk = at]
           ends == m.sid # None /\ m.confirmed
           ended == IF ends THEN CloseRow(rows, m.sid, at) ELSE rows
           tuned == [m EXCEPT !.lastSref = s, !.confirmed = FALSE]
           seen == [lastSeen EXCEPT ![r] = at]
           Becomes(n) == mem' = [mem EXCEPT ![r] = n]
<1>1. /\ rows \in Table /\ Long(rows) /\ Spared(rows, rows)
      /\ mem \in [Receivers -> MemState] /\ mem[r] \in MemState /\ at \in Nat
      /\ now \in Nat /\ at <= now /\ Fits(mem[r], rows) /\ Timely(mem[r], at)
  BY PollFacts
<1>2. \A n : Becomes(n) => mem' = [mem EXCEPT ![r] = mem'[r]] /\ mem'[r] = n
  BY <1>1
<1>3. /\ m \in MemState /\ Fits(m, rows) /\ Timely(m, at) /\ Timely(m, now)
      /\ m.lastOk = at
  <2>1. m = [mem[r] EXCEPT !.lastOk = at]
    OBVIOUS
  <2> HIDE DEF m, at
  <2> QED
    BY <1>1, <2>1, ReachedFits
<1>4. /\ ended \in Table /\ Long(ended) /\ Spared(rows, ended)
      /\ \A i \in Ids : ended[i] = None <=> rows[i] = None
  <2>1. CASE ends
    <3>1. at >= m.start + MinWatch
      BY <1>3, <2>1 DEF Timely
    <3> HIDE DEF m, at
    <3> QED
      BY <1>1, <1>3, <2>1, <3>1, CloseLong
  <2>2. CASE ~ends
    BY <1>1, <2>2
  <2> QED
    BY <2>1, <2>2
<1>5. /\ Timely(Forget(m), now) /\ Timely(ForgetWithSref(m), now)
      /\ Fits(Forget(m), rows') /\ Fits(ForgetWithSref(m), rows')
  <2> HIDE DEF m
  <2> QED
    BY <1>3, ForgetFits
<1>6. /\ tuned \in MemState /\ tuned.lastOk = at /\ tuned.confirmed = FALSE
  <2> HIDE DEF m
  <2> QED
    BY <1>3 DEF MemState
<1>7. CASE Becomes(ForgetWithSref(m)) /\ Commit(ended, seen)
  <2> HIDE DEF m, ended, Becomes, seen, at
  <2> QED
    BY <1>2, <1>4, <1>5, <1>1, <1>7, CommitLong
<1>8. CASE Becomes([tuned EXCEPT !.sid = None, !.start = at]) /\ Commit(ended, seen)
  <2> DEFINE n == [tuned EXCEPT !.sid = None, !.start = at]
  <2> HIDE DEF tuned, ended, Becomes, seen, at
  <2>1. n.sid = None /\ n.lastOk = at /\ n.confirmed = FALSE
    BY <1>6 DEF MemState
  <2> HIDE DEF n
  <2>2. Fits(n, rows') /\ Timely(n, now)
    BY <1>1, <2>1 DEF Fits, Timely
  <2>3. Becomes(n)
    BY <1>8 DEF n
  <2> QED
    BY <1>2, <1>4, <1>1, <1>8, <2>2, <2>3, CommitLong
<1>9. ASSUME s \in known, NEW i \in NextId(ended),
             Becomes([tuned EXCEPT !.sid = i, !.start = at]),
             Commit([ended EXCEPT ![i] = [rcv |-> r, sref |-> s, start |-> at,
                                  end |-> None, confirmed |-> FALSE]], seen)
      PROVE  /\ mem' = [mem EXCEPT ![r] = mem'[r]]
             /\ Fits(mem'[r], rows') /\ Timely(mem'[r], now)
             /\ Long(rows') /\ Spared(rows, rows')
  <2> DEFINE row == [rcv |-> r, sref |-> s, start |-> at, end |-> None,
                     confirmed |-> FALSE]
             new == [ended EXCEPT ![i] = row]
             n == [tuned EXCEPT !.sid = i, !.start = at]
  <2>1. Becomes(n) /\ Commit(new, seen)
    BY <1>9
  <2>2. row.start = at /\ row.end = None /\ row.confirmed = FALSE
    OBVIOUS
  <2> HIDE DEF row, seen, Becomes
  <2>3. i \in Ids /\ ended[i] = None
    <3> HIDE DEF ended
    <3>1. i \in Ids /\ (ended[i] # None => i < i)
      BY DEF NextId
    <3> QED
      BY <3>1 DEF Ids
  <2>4. rows[i] = None
    BY <1>4, <2>3
  <2>5. n.sid = i /\ n.start = at /\ n.lastOk = at /\ n.confirmed = FALSE
    <3> HIDE DEF tuned, at
    <3> QED
      BY <1>6 DEF MemState
  <2> HIDE DEF n
  <2>6. new[i] = row /\ \A j \in Ids : j # i => new[j] = ended[j]
    BY <1>4, <2>3 DEF Table
  <2> HIDE DEF new
  <2>7. Long(new)
    BY <1>4, <2>2, <2>6 DEF Long
  <2>8. Spared(rows, new)
    BY <1>4, <2>4, <2>6 DEF Spared
  <2>9. Fits(n, new) /\ Fits(n, rows)
    BY <1>1, <2>2, <2>4, <2>5, <2>6 DEF Fits
  <2>10. Timely(n, now)
    <3>1. at # None
      BY <1>1
    <3> QED
      BY <1>1, <2>5, <3>1 DEF Timely
  <2>11. Long(rows') /\ Spared(rows, rows') /\ (rows' = new \/ rows' = rows)
    BY <1>1, <2>1, <2>7, <2>8, CommitLong
  <2> QED
    BY <1>2, <2>1, <2>9, <2>10, <2>11
<1>10. CASE Becomes(IF ends THEN Forget(m) ELSE m) /\ rows' = rows
  <2> HIDE DEF m, Becomes
  <2>1. CASE ends
    BY <1>1, <1>2, <1>5, <1>10, <2>1
  <2>2. CASE ~ends
    BY <1>1, <1>2, <1>3, <1>10, <2>2
  <2> QED
    BY <2>1, <2>2
<1> QED
  BY <1>7, <1>8, <1>9, <1>10 DEF ChannelChange

\* The same channel again: what gets confirmed has been watched long enough.
LEMMA SameFaulty ==
    ASSUME FaultyInv, NEW r \in Receivers, poll[r].phase # "idle", SameChannel(r)
    PROVE  /\ mem' = [mem EXCEPT ![r] = mem'[r]]
           /\ Fits(mem'[r], rows') /\ Timely(mem'[r], now)
           /\ Long(rows') /\ Spared(rows, rows')
<1> DEFINE at == poll[r].at
           m == [mem[r] EXCEPT !.lastOk = at]
           ripe == /\ m.sid # None /\ ~m.confirmed /\ m.start # None
                   /\ WatchedEnough(m, at)
                   /\ rows[m.sid] # None
           set == IF ripe THEN [rows EXCEPT ![m.sid].confirmed = TRUE] ELSE rows
           seen == [lastSeen EXCEPT ![r] = at]
           n == [m EXCEPT !.confirmed = @ \/ ripe]
<1>1. /\ rows \in Table /\ Long(rows) /\ Spared(rows, rows)
      /\ mem \in [Receivers -> MemState] /\ mem[r] \in MemState /\ at \in Nat
      /\ now \in Nat /\ at <= now /\ Fits(mem[r], rows) /\ Timely(mem[r], at)
  BY PollFacts
<1>2. mem' = [mem EXCEPT ![r] = n] /\ Commit(set, seen)
  BY DEF SameChannel
<1>3. /\ m \in MemState /\ Fits(m, rows) /\ Timely(m, at) /\ Timely(m, now)
      /\ m.lastOk = at
  <2>1. m = [mem[r] EXCEPT !.lastOk = at]
    OBVIOUS
  <2> HIDE DEF m, at
  <2> QED
    BY <1>1, <2>1, ReachedFits
<1> HIDE DEF m, at, seen
<1>4. ripe \in BOOLEAN
  BY DEF WatchedEnough
<1>5. ripe => at >= m.start + MinWatch
  BY DEF WatchedEnough
<1> HIDE DEF n
<1>6. /\ n.sid = m.sid /\ n.start = m.start /\ n.lastOk = at
      /\ n.confirmed = (m.confirmed \/ ripe)
  <2> HIDE DEF ripe
  <2> QED
    BY <1>3, <1>4 DEF MemState, n
<1>7. Timely(n, now)
  BY <1>3, <1>5, <1>6 DEF Timely
<1>8. Long(set) /\ Spared(rows, set) /\ Fits(n, set) /\ Fits(n, rows)
  <2>1. CASE ripe
    <3> DEFINE k == m.sid
               row == [rows[k] EXCEPT !.confirmed = TRUE]
    <3>1. /\ k \in Ids /\ rows[k] \in SessionRow /\ rows[k].end = None
          /\ rows[k].start = m.start /\ m.start \in Nat
      BY <1>1, <1>3, <2>1 DEF Table, Fits, MemState
    <3>2. row.end = None /\ row.start = m.start /\ row.confirmed = TRUE
      BY <3>1 DEF SessionRow
    <3>3. set = [rows EXCEPT ![k] = row]
      BY <2>1, <3>1
    <3> HIDE DEF row, set
    <3>4. set[k] = row /\ \A j \in Ids : j # k => set[j] = rows[j]
      BY <1>1, <3>1, <3>3 DEF Table
    <3> HIDE DEF k
    <3>5. Long(set)
      BY <1>1, <3>2, <3>4 DEF Long
    <3>6. Spared(rows, set)
      BY <3>1, <3>4 DEF Spared
    <3>7. Fits(n, set) /\ Fits(n, rows)
      BY <1>3, <1>6, <2>1, <3>1, <3>2, <3>4 DEF Fits, k
    <3> QED
      BY <3>5, <3>6, <3>7
  <2>2. CASE ~ripe
    <3>1. set = rows /\ n.confirmed = m.confirmed
      BY <1>6, <2>2, <1>3 DEF MemState
    <3> HIDE DEF set, ripe
    <3> QED
      BY <1>1, <1>3, <1>6, <3>1 DEF Fits
  <2> QED
    BY <2>1, <2>2
<1> HIDE DEF set, ripe
<1>9. Long(rows') /\ Spared(rows, rows') /\ (rows' = set \/ rows' = rows)
  BY <1>1, <1>2, <1>8, CommitLong
<1>10. mem' = [mem EXCEPT ![r] = mem'[r]] /\ mem'[r] = n
  BY <1>1, <1>2
<1> QED
  BY <1>7, <1>8, <1>9, <1>10

LEMMA ServiceFaulty ==
    ASSUME FaultyInv, OneReceiver, TypeOK', NEW r \in Receivers,
           NEW s \in Srefs \cup {None}, PollService(r, s)
    PROVE  FaultyInv' /\ Spared(rows, rows')
<1>1. poll[r].phase # "idle" /\ Finish(r) /\ UNCHANGED <<now, up>>
  BY DEF PollService
<1>2. /\ mem' = [mem EXCEPT ![r] = mem'[r]]
      /\ Fits(mem'[r], rows') /\ Timely(mem'[r], now)
      /\ Long(rows') /\ Spared(rows, rows')
  BY <1>1, ChangeFaulty, SameFaulty DEF PollService
<1> QED
  BY <1>1, <1>2, PollEnds

\* A step that leaves the table alone, and nothing of what is remembered.
LEMMA IdleFaulty ==
    ASSUME FaultyInv, TypeOK', up' = up, mem' = mem, rows' = rows, now <= now',
           \A r \in Receivers : \/ poll'[r] = poll[r]
                                \/ up /\ poll'[r].at = now /\ now' = now
                                \/ /\ poll'[r].at = poll[r].at
                                   /\ up /\ poll[r].phase # "idle"
    PROVE  FaultyInv' /\ Spared(rows, rows')
<1>1. Spared(rows, rows') /\ Long(rows)' /\ DownIsBlank'
  BY DEF FaultyInv, DownIsBlank, Spared, Long
<1>2. now \in Nat /\ now' \in Nat
  BY DEF FaultyInv, TypeOK, Time
<1>3. ASSUME NEW r \in Receivers
      PROVE  /\ Fits(mem[r], rows)' /\ poll'[r].at <= now' /\ Timely(mem[r], now)'
             /\ poll'[r].phase # "idle" => Timely(mem'[r], poll'[r].at)
  <2>1. /\ Fits(mem[r], rows) /\ poll[r].at <= now /\ Timely(mem[r], now)
        /\ poll[r].phase # "idle" => Timely(mem[r], poll[r].at)
        /\ poll[r].at \in Nat /\ mem[r] \in MemState
    BY DEF FaultyInv, TypeOK, Time
  <2>2. Timely(mem[r], now')
    <3>1. mem[r].lastOk # None => mem[r].lastOk \in Nat
      BY <2>1 DEF MemState, OptTime, Time
    <3> QED
      BY <1>2, <2>1, <3>1 DEF Timely
  <2>3. poll'[r].at <= now'
    BY <1>2, <2>1
  <2>4. Fits(mem[r], rows)' /\ Timely(mem[r], now)'
    BY <2>1, <2>2 DEF Fits, Timely
  <2>5. poll'[r].phase # "idle" => Timely(mem'[r], poll'[r].at)
    BY <2>1
  <2> QED
    BY <2>3, <2>4, <2>5
<1> QED
  BY <1>1, <1>3 DEF FaultyInv

\* Rows are removed.
LEMMA RemovedFaulty ==
    ASSUME FaultyInv, TypeOK', UNCHANGED <<now, up, mem, poll>>,
           \A i \in Ids : rows'[i] \in {None, rows[i]}
    PROVE  FaultyInv' /\ Spared(rows, rows')
<1>1. Spared(rows, rows') /\ DownIsBlank'
  BY DEF FaultyInv, DownIsBlank, Spared
<1>2. Long(rows)'
  BY DEF FaultyInv, Long
<1>3. ASSUME NEW r \in Receivers
      PROVE  Fits(mem[r], rows)'
  <2>1. Fits(mem[r], rows) /\ mem[r].sid \in Ids \cup {None}
    BY DEF FaultyInv, TypeOK, MemState
  <2> QED
    BY <2>1 DEF Fits
<1>4. ASSUME NEW r \in Receivers
      PROVE  /\ poll'[r].at <= now' /\ Timely(mem[r], now)'
             /\ poll'[r].phase # "idle" => Timely(mem'[r], poll'[r].at)
  BY DEF FaultyInv, Timely
<1> QED
  BY <1>1, <1>2, <1>3, <1>4 DEF FaultyInv

\* Nothing is remembered, before and after: what the orphan sweep closes lasted
\* min_watch_sec, too.
LEMMA BlankFaulty ==
    ASSUME TypeOK', now' \in Nat,
           \A r \in Receivers : mem'[r] = FreshMem /\ poll'[r] = IdlePoll,
           Long(rows')
    PROVE  FaultyInv'
<1>1. ASSUME NEW r \in Receivers
      PROVE  /\ Fits(mem[r], rows)' /\ poll'[r].at <= now' /\ Timely(mem[r], now)'
             /\ poll'[r].phase # "idle" => Timely(mem'[r], poll'[r].at)
  <2>1. Fits(mem[r], rows)' /\ Timely(mem[r], now)'
    BY DEF Fits, Timely, FreshMem
  <2> QED
    BY <2>1 DEF IdlePoll
<1>2. DownIsBlank' /\ Long(rows)'
  BY DEF DownIsBlank, Long
<1> QED
  BY <1>1, <1>2 DEF FaultyInv

LEMMA StartupFaulty ==
    ASSUME FaultyInv, TypeOK', Startup
    PROVE  FaultyInv' /\ Spared(rows, rows')
<1>1. /\ \A r \in Receivers : mem'[r] = FreshMem /\ poll'[r] = IdlePoll
      /\ now' \in Nat
  BY DEF FaultyInv, DownIsBlank, Startup, TypeOK, Time
<1>2. Spared(rows, rows')
  BY DEF Startup, SweepOrphan, Spared
<1>3. Long(rows')
  <2> SUFFICES ASSUME NEW i \in Ids, rows'[i] # None, rows'[i].confirmed,
                      rows'[i].end # None
               PROVE  rows'[i].end >= rows'[i].start + MinWatch
    BY DEF Long
  <2>1. rows'[i] = SweepOrphan(rows[i])
    BY DEF Startup
  <2>2. CASE rows[i] = None \/ rows[i].end # None \/ ~rows[i].confirmed
    BY <2>1, <2>2 DEF SweepOrphan, FaultyInv, Long
  <2>3. CASE ~(rows[i] = None \/ rows[i].end # None \/ ~rows[i].confirmed)
    <3> DEFINE e == OrphanEnd(rows[i], lastSeen[rows[i].rcv])
    <3>1. rows[i] \in SessionRow /\ lastSeen[rows[i].rcv] \in OptTime
      BY <2>3 DEF FaultyInv, TypeOK, SessionRow
    <3>2. e \in Time /\ e >= rows[i].start + MinWatch
      BY <3>1, OrphanEndType
    <3>3. rows'[i] = [rows[i] EXCEPT !.end = e]
      BY <2>1, <2>3 DEF SweepOrphan
    <3> HIDE DEF e
    <3>4. rows'[i].end = e /\ rows'[i].start = rows[i].start
      BY <3>1, <3>3 DEF SessionRow
    <3> QED
      BY <3>2, <3>4
  <2> QED
    BY <2>2, <2>3
<1> QED
  BY <1>1, <1>2, <1>3, BlankFaulty

LEMMA StepFaulty ==
    OneReceiver /\ FaultyInv /\ [Next]_vars => FaultyInv' /\ Spared(rows, rows')
<1> SUFFICES ASSUME OneReceiver, FaultyInv, [Next]_vars
             PROVE  FaultyInv' /\ Spared(rows, rows')
  OBVIOUS
<1>1. TypeOK' /\ now \in Nat
  BY StepType DEF FaultyInv, TypeOK, Time
<1>2. ASSUME NEW r \in Receivers, PollBegin(r) \/ PollOn(r)
      PROVE  FaultyInv' /\ Spared(rows, rows')
  <2>1. /\ UNCHANGED <<now, up, mem, rows>> /\ now <= now'
        /\ poll \in [Receivers -> [phase : Phases, at : Time]]
    BY <1>1, <1>2 DEF PollBegin, PollOn, FaultyInv, TypeOK
  <2>2. CASE PollBegin(r)
    BY <2>1, <2>2, <1>1, IdleFaulty DEF PollBegin
  <2>3. CASE PollOn(r)
    <3>1. up
      BY <2>3 DEF FaultyInv, DownIsBlank, PollOn, IdlePoll
    <3> QED
      BY <2>1, <2>3, <3>1, <1>1, IdleFaulty DEF PollOn
  <2> QED
    BY <1>2, <2>2, <2>3
<1>3. ASSUME NEW r \in Receivers, NEW s \in Srefs \cup {None},
             PollNotOn(r) \/ PollOffline(r) \/ PollUnparsable(r) \/ PollService(r, s)
      PROVE  FaultyInv' /\ Spared(rows, rows')
  BY <1>1, <1>3, NotOnFaulty, OfflineFaulty, UnparsableFaulty, ServiceFaulty
<1>4. ASSUME NEW r \in Receivers,
             \/ ProbeReceiver(r)
             \/ \E found \in SUBSET Srefs : RefreshChannels(r, found)
      PROVE  FaultyInv' /\ Spared(rows, rows')
  <2>1. UNCHANGED <<now, up, mem, poll, rows>> /\ now <= now'
    BY <1>1, <1>4 DEF ProbeReceiver, RefreshChannels
  <2> QED
    BY <1>1, <2>1, IdleFaulty
<1>5. ASSUME NEW i \in Ids, DeleteSession(i)
      PROVE  FaultyInv' /\ Spared(rows, rows')
  <2>1. \A j \in Ids : rows'[j] \in {None, rows[j]}
    BY <1>5 DEF DeleteSession, FaultyInv, TypeOK
  <2> QED
    BY <1>1, <1>5, <2>1, RemovedFaulty DEF DeleteSession
<1>6. CASE CleanupOldSessions
  <2>1. \A j \in Ids : rows'[j] \in {None, rows[j]}
    BY <1>6 DEF CleanupOldSessions
  <2> QED
    BY <1>1, <1>6, <2>1, RemovedFaulty DEF CleanupOldSessions
<1>7. CASE Tick \/ UNCHANGED vars
  <2>1. UNCHANGED <<up, mem, poll, rows>> /\ now <= now'
    BY <1>1, <1>7 DEF Tick, vars
  <2> QED
    BY <1>1, <2>1, IdleFaulty
<1>8. CASE Crash
  <2>1. /\ \A r \in Receivers : mem'[r] = FreshMem /\ poll'[r] = IdlePoll
        /\ now' \in Nat /\ rows' = rows
    BY <1>1, <1>8 DEF Crash
  <2>2. Long(rows') /\ Spared(rows, rows')
    BY <2>1 DEF FaultyInv, Long, Spared
  <2> QED
    BY <1>1, <2>1, <2>2, BlankFaulty
<1>9. CASE Startup
  BY <1>1, <1>9, StartupFaulty
<1> QED
  BY <1>2, <1>3, <1>4, <1>5, <1>6, <1>7, <1>8, <1>9 DEF Next

\* With one receiver what its poll job remembers is in step with the table as
\* far as that matters, whatever commit fails and whoever deletes its row.
LEMMA FaultyInvariance == OneReceiver => (Spec => []FaultyInv)
<1>1. Init => FaultyInv
  <2> SUFFICES ASSUME Init PROVE FaultyInv
    OBVIOUS
  <2>1. /\ TypeOK /\ now = 0
        /\ \A i \in Ids : rows[i] = None
        /\ \A r \in Receivers : mem[r] = FreshMem /\ poll[r] = IdlePoll
    BY InitType DEF Init
  <2>2. \A r \in Receivers : Fits(mem[r], rows) /\ Timely(mem[r], now)
    BY <2>1, FreshFits
  <2>3. Long(rows) /\ DownIsBlank
    BY <2>1 DEF Long, DownIsBlank
  <2> QED
    BY <2>1, <2>2, <2>3 DEF FaultyInv, IdlePoll
<1>2. SUFFICES ASSUME OneReceiver PROVE Spec => []FaultyInv
  OBVIOUS
<1>3. FaultyInv /\ [Next]_vars => FaultyInv'
  BY <1>2, StepFaulty
<1> QED
  BY <1>1, <1>3, PTL DEF Spec

\* With one receiver a confirmed session lasted min_watch_sec even where commits
\* fail and tracked rows are deleted: an end is computed from what the poll job
\* remembers, and a row it finds was written with that (poller.py:69, 87-88,
\* 109-110, 635-639).
THEOREM LongWhateverFails == OneReceiver => (Spec => []ConfirmedLongEnough)
<1>1. FaultyInv => ConfirmedLongEnough
  BY DEF FaultyInv, Long, ConfirmedLongEnough, Live
<1> QED
  BY <1>1, FaultyInvariance, PTL

\* So is the end of a session final: the row of a poll job that forgot, or never
\* committed, its session is not written again before a restart settles it
\* (poller.py:208-217, 611-644).
THEOREM EndsAreFinalWhateverFails == OneReceiver => (Spec => EndIsFinal)
<1> SUFFICES ASSUME OneReceiver PROVE Spec => EndIsFinal
  OBVIOUS
<1>1. FaultyInv /\ [Next]_vars =>
        [\A i \in Ids :
           Live(i) /\ rows[i].end # None => rows'[i] \in {None, rows[i]}]_vars
  BY StepFaulty DEF Spared, Live
<1>2. Spec => []FaultyInv
  BY FaultyInvariance
<1> QED
  BY <1>1, <1>2, PTL DEF Spec, EndIsFinal

=============================================================================
