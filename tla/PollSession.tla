----------------------------- MODULE PollSession -----------------------------
(***************************************************************************)
(* Viewing sessions: the per-receiver polling state machine of             *)
(* app/services/poller.py, the viewing_sessions rows it writes, and what a *)
(* restart, an administrator or the retention job does to those rows.      *)
(*                                                                         *)
(* A poll of one receiver is a coroutine with two awaits (the power probe  *)
(* and getcurrent).  Everything between two awaits is one action; the other*)
(* receivers' polls, the clock, HTTP handlers and a crash happen in the    *)
(* gaps.  `now` is read once, before the awaits (poller.py:58), so a poll  *)
(* works with poll[r].at, which may lag behind the clock.                  *)
(*                                                                         *)
(* Abstracted: attribution and the EPG link of a confirmed session (data   *)
(* written in the same step), the power_state column, duration_sec (it is  *)
(* end - start, written together with end), forensics and logging.         *)
(***************************************************************************)
EXTENDS Naturals

CONSTANTS
    Receivers,           \* receivers with a poll job
    Srefs,               \* service references a box can report
    KnownAtStart,        \* those that already have a channel row
    None,                \* Python's None / SQL NULL, and an absent row
    MinWatch,            \* settings.min_watch_sec
    OfflineAfter,        \* the 600 s of poller.py:87
    PollInterval,        \* settings.poll_interval_sec
    Retention,           \* settings.session_retention_days
    MaxTime,             \* bound on the clock
    MaxRows,             \* bound on row ids
    CommitMayFail,       \* may a flush or commit of a poll raise?
    TrackedMayBeDeleted  \* may a row a poll job still refers to be deleted?

ASSUME TimesAssumption ==
    /\ MinWatch \in Nat
    /\ OfflineAfter \in Nat
    /\ PollInterval \in Nat
    /\ Retention \in Nat
    /\ MaxTime \in Nat
    /\ MaxRows \in Nat
    /\ PollInterval <= OfflineAfter

ASSUME NoneAssumption == None \notin Nat /\ None \notin Srefs

ASSUME KnownAssumption == KnownAtStart \subseteq Srefs

ASSUME FaultsAssumption ==
    CommitMayFail \in BOOLEAN /\ TrackedMayBeDeleted \in BOOLEAN

VARIABLES
    now,       \* the clock, in ticks
    up,        \* is the process running?
    mem,       \* poller._state: per receiver, lost in a crash
    poll,      \* the coroutine of each receiver's poll job
    rows,      \* table viewing_sessions
    lastSeen,  \* column receivers.last_seen
    known,     \* service references with a row in table channels
    streak     \* history: what consecutive successful polls have reported

vars == <<now, up, mem, poll, rows, lastSeen, known, streak>>

Ids == 1..MaxRows
Time == Nat
OptTime == Time \cup {None}

SessionRow == [rcv : Receivers, sref : Srefs, start : Time, end : OptTime,
               confirmed : BOOLEAN]

ASSUME RowAssumption == None \notin SessionRow

MemState == [lastSref : Srefs \cup {None}, sid : Ids \cup {None},
             start : OptTime, confirmed : BOOLEAN, lastOk : OptTime]

Phases == {"idle", "power", "current"}

Streak == [sref : Srefs \cup {None}, since : Time, last : Time]

TypeOK ==
    /\ now \in Time
    /\ up \in BOOLEAN
    /\ mem \in [Receivers -> MemState]
    /\ poll \in [Receivers -> [phase : Phases, at : Time]]
    /\ rows \in [Ids -> SessionRow \cup {None}]
    /\ lastSeen \in [Receivers -> OptTime]
    /\ known \in SUBSET Srefs
    /\ streak \in [Receivers -> Streak]

-----------------------------------------------------------------------------
(* Vocabulary.                                                             *)

Live(i) == rows[i] # None

FreshMem == [lastSref |-> None, sid |-> None, start |-> None,
             confirmed |-> FALSE, lastOk |-> None]
IdlePoll == [phase |-> "idle", at |-> 0]
NoStreak == [sref |-> None, since |-> 0, last |-> 0]

\* Does some poll job's memory still refer to row i?
Tracked(i) == \E r \in Receivers : mem[r].sid = i

\* SQLite gives a new row the id after the largest one in the table: the
\* primary key is no AUTOINCREMENT, so the id of a deleted or rolled back
\* last row is given out again.
NextId(rs) ==
    {i \in Ids : /\ \A j \in Ids : rs[j] # None => j < i
                 /\ i = 1 \/ rs[i - 1] # None}

\* Mutant: the id outlives the session.
ForgetKeepsId(m) == [m EXCEPT !.start = None, !.confirmed = FALSE]

\* The state's session fields after a close or a discard.
Forget(m) == [m EXCEPT !.sid = None, !.start = None, !.confirmed = FALSE]

ForgetWithSref(m) == [Forget(m) EXCEPT !.lastSref = None]

\* Mutant: only sessions that never got confirmed get an end.
CloseRowUnlessConfirmed(rs, i, t) ==
    IF i # None /\ rs[i] # None /\ ~rs[i].confirmed
    THEN [rs EXCEPT ![i].end = t] ELSE rs

\* _close_session's effect on the table: nothing when the row is gone.
CloseRow(rs, i, t) ==
    IF i # None /\ rs[i] # None THEN [rs EXCEPT ![i].end = t] ELSE rs

\* Mutants: the comparison with min_watch_sec off by one, either way.
WatchedEnoughEarly(m, at) == at + 1 >= m.start + MinWatch
WatchedEnoughLate(m, at) == at > m.start + MinWatch

WatchedEnough(m, at) == at >= m.start + MinWatch

OrphanEnd(row, seen) ==
    LET least == row.start + MinWatch IN
    IF seen # None /\ seen > row.start /\ seen > least THEN seen ELSE least

\* The poll's single commit: both writes, or (rollback) neither.  The
\* in-memory state is not part of the transaction.
Commit(rs, seen) ==
    \/ rows' = rs /\ lastSeen' = seen
    \/ CommitMayFail /\ UNCHANGED <<rows, lastSeen>>

Finish(r) == poll' = [poll EXCEPT ![r] = IdlePoll]

Observe(r, s, at) ==
    streak' = [streak EXCEPT ![r] =
        IF s \notin known THEN NoStreak
        ELSE IF s = @.sref THEN [@ EXCEPT !.last = at]
        ELSE [sref |-> s, since |-> at, last |-> at]]

ObserveNothing(r) == streak' = [streak EXCEPT ![r] = NoStreak]

-----------------------------------------------------------------------------
(* No session yet, no receiver seen; channels may be there from an earlier  *)
(* installation.                                                           *)

Init ==
    /\ now = 0
    /\ up = TRUE
    /\ mem = [r \in Receivers |-> FreshMem]
    /\ poll = [r \in Receivers |-> IdlePoll]
    /\ rows = [i \in Ids |-> None]
    /\ lastSeen = [r \in Receivers |-> None]
    /\ known = KnownAtStart
    /\ streak = [r \in Receivers |-> NoStreak]

-----------------------------------------------------------------------------
(* One poll of receiver r (max_instances=1: never two at a time).          *)

PollBegin(r) ==
    /\ up
    /\ poll[r].phase = "idle"
    /\ poll' = [poll EXCEPT ![r] = [phase |-> "power", at |-> now]]
    /\ UNCHANGED <<now, up, mem, rows, lastSeen, known, streak>>

PollOn(r) ==
    /\ poll[r].phase = "power"
    /\ poll' = [poll EXCEPT ![r].phase = "current"]
    /\ UNCHANGED <<now, up, mem, rows, lastSeen, known, streak>>

\* The probe answers standby, or fails: a confirmed session ends now, an
\* unconfirmed one is dropped from memory (its row stays behind, open).
PollNotOn(r) ==
    LET m == mem[r] IN
    /\ poll[r].phase = "power"
    /\ IF m.sid = None
       THEN mem' = mem /\ Commit(rows, lastSeen)
       ELSE IF m.confirmed
       THEN /\ mem' = [mem EXCEPT ![r] = Forget(m)]
            /\ Commit(CloseRow(rows, m.sid, poll[r].at), lastSeen)
       ELSE /\ mem' = [mem EXCEPT ![r] = ForgetWithSref(m)]
            /\ Commit(rows, lastSeen)
    /\ Finish(r)
    /\ ObserveNothing(r)
    /\ UNCHANGED <<now, up, known>>

\* getcurrent fails although the power probe answered.  A session, confirmed
\* or not, is closed once the last success is too long ago.
PollOffline(r) ==
    LET m == mem[r] IN
    /\ poll[r].phase = "current"
    /\ IF /\ m.lastOk # None
          /\ poll[r].at > m.lastOk + OfflineAfter
          /\ m.sid # None
       THEN /\ mem' = [mem EXCEPT ![r] = Forget(m)]
            /\ Commit(CloseRow(rows, m.sid, m.lastOk + PollInterval), lastSeen)
       ELSE UNCHANGED <<mem, rows, lastSeen>>
    /\ Finish(r)
    /\ ObserveNothing(r)
    /\ UNCHANGED <<now, up, known>>

\* The answer cannot be parsed: the handler returns before its commit.
PollUnparsable(r) ==
    /\ poll[r].phase = "current"
    /\ mem' = [mem EXCEPT ![r].lastOk = poll[r].at]
    /\ Finish(r)
    /\ ObserveNothing(r)
    /\ UNCHANGED <<now, up, rows, lastSeen, known>>

\* The box reports s, not the service of the last poll (s = None: no service).
ChannelChange(r, s) ==
    LET at == poll[r].at
        m == [mem[r] EXCEPT !.lastOk = at]
        ends == m.sid # None /\ m.confirmed
        ended == IF ends THEN CloseRow(rows, m.sid, at) ELSE rows
        tuned == [m EXCEPT !.lastSref = s, !.confirmed = FALSE]
        seen == [lastSeen EXCEPT ![r] = at]
    IN  /\ s # mem[r].lastSref
        /\ \/ /\ s = None
              /\ mem' = [mem EXCEPT ![r] = ForgetWithSref(m)]
              /\ Commit(ended, seen)
           \/ /\ s # None /\ s \notin known
              /\ mem' = [mem EXCEPT ![r] =
                            [tuned EXCEPT !.sid = None, !.start = at]]
              /\ Commit(ended, seen)
           \/ /\ s \in known
              /\ \E i \in NextId(ended) :
                    /\ mem' = [mem EXCEPT ![r] =
                                  [tuned EXCEPT !.sid = i, !.start = at]]
                    /\ Commit([ended EXCEPT ![i] =
                                  [rcv |-> r, sref |-> s, start |-> at,
                                   end |-> None, confirmed |-> FALSE]], seen)
           \/ /\ s \in known /\ CommitMayFail    \* the flush itself raises
              /\ mem' = [mem EXCEPT ![r] = IF ends THEN Forget(m) ELSE m]
              /\ UNCHANGED <<rows, lastSeen>>

\* _confirm_session: a row that is gone is not confirmed, nor is the state.
SameChannel(r) ==
    LET at == poll[r].at
        m == [mem[r] EXCEPT !.lastOk = at]
        ripe == /\ m.sid # None /\ ~m.confirmed /\ m.start # None
                /\ WatchedEnough(m, at)
                /\ rows[m.sid] # None
    IN  /\ mem' = [mem EXCEPT ![r] = [m EXCEPT !.confirmed = @ \/ ripe]]
        /\ Commit(IF ripe THEN [rows EXCEPT ![m.sid].confirmed = TRUE] ELSE rows,
                  [lastSeen EXCEPT ![r] = at])

PollService(r, s) ==
    /\ poll[r].phase = "current"
    /\ \/ ChannelChange(r, s)
       \/ s = mem[r].lastSref /\ SameChannel(r)
    /\ Finish(r)
    /\ Observe(r, s, poll[r].at)
    /\ UNCHANGED <<now, up, known>>

-----------------------------------------------------------------------------
(* The surroundings of the poll jobs.                                      *)

Tick ==
    /\ now < MaxTime
    /\ now' = now + 1
    /\ UNCHANGED <<up, mem, poll, rows, lastSeen, known, streak>>

\* GET /api/admin/receivers/probe finds the box online.
ProbeReceiver(r) ==
    /\ up
    /\ lastSeen' = [lastSeen EXCEPT ![r] = now]
    /\ UNCHANGED <<now, up, mem, poll, rows, known, streak>>

\* refresh_channels: upserts only, no channel is ever removed.
RefreshChannels(r, found) ==
    /\ up
    /\ known' = known \cup found
    /\ lastSeen' = [lastSeen EXCEPT ![r] = now]
    /\ UNCHANGED <<now, up, mem, poll, rows, streak>>

\* DELETE /api/admin/sessions/{id}.
DeleteSession(i) ==
    /\ up
    /\ Live(i)
    /\ Tracked(i) => TrackedMayBeDeleted
    /\ rows' = [rows EXCEPT ![i] = None]
    /\ UNCHANGED <<now, up, mem, poll, lastSeen, known, streak>>

\* The nightly retention job; open rows are not spared.
CleanupOldSessions ==
    LET old == {i \in Ids : Live(i) /\ rows[i].start + Retention < now} IN
    /\ up
    /\ (\E i \in old : Tracked(i)) => TrackedMayBeDeleted
    /\ rows' = [i \in Ids |-> IF i \in old THEN None ELSE rows[i]]
    /\ UNCHANGED <<now, up, mem, poll, lastSeen, known, streak>>

Crash ==
    /\ up
    /\ up' = FALSE
    /\ mem' = [r \in Receivers |-> FreshMem]
    /\ poll' = [r \in Receivers |-> IdlePoll]
    /\ streak' = [r \in Receivers |-> NoStreak]
    /\ UNCHANGED <<now, rows, lastSeen, known>>

\* Mutants: the sweep nulls what it should delete; leaves confirmed rows open;
\* does not look at ended_at; deletes confirmed rows, too.
SweepOrphanNulls(row) ==
    IF row = None \/ row.end # None THEN row
    ELSE IF ~row.confirmed THEN [row EXCEPT !.confirmed = None]
    ELSE [row EXCEPT !.end = OrphanEnd(row, lastSeen[row.rcv])]
SweepOrphanSkipsConfirmed(row) ==
    IF row = None \/ row.end # None \/ row.confirmed THEN row ELSE None
SweepOrphanAgain(row) ==
    IF row = None THEN row
    ELSE IF ~row.confirmed THEN None
    ELSE [row EXCEPT !.end = OrphanEnd(row, lastSeen[row.rcv])]
SweepOrphanDiscards(row) ==
    IF row = None \/ row.end # None THEN row ELSE None

\* _close_orphan_sessions on one row.
SweepOrphan(row) ==
    IF row = None \/ row.end # None THEN row
    ELSE IF ~row.confirmed THEN None
    ELSE [row EXCEPT !.end = OrphanEnd(row, lastSeen[row.rcv])]

\* start_scheduler: the orphan sweep, then the poll jobs may run.
Startup ==
    /\ ~up
    /\ up' = TRUE
    /\ rows' = [i \in Ids |-> SweepOrphan(rows[i])]
    /\ UNCHANGED <<now, mem, poll, lastSeen, known, streak>>

Next ==
    \/ \E r \in Receivers :
         \/ PollBegin(r)
         \/ PollOn(r)
         \/ PollNotOn(r)
         \/ PollOffline(r)
         \/ PollUnparsable(r)
         \/ \E s \in Srefs \cup {None} : PollService(r, s)
         \/ ProbeReceiver(r)
         \/ \E found \in SUBSET Srefs : RefreshChannels(r, found)
    \/ \E i \in Ids : DeleteSession(i)
    \/ CleanupOldSessions
    \/ Tick
    \/ Crash
    \/ Startup

Spec == Init /\ [][Next]_vars

-----------------------------------------------------------------------------
(* Properties.                                                             *)

\* A confirmed session that has ended lasted at least min_watch_sec, however
\* it ended: channel change, standby, offline timeout or the orphan sweep of a
\* restart (poller.py:69, 87-88, 109-110, 635-639).
ConfirmedLongEnough ==
    \A i \in Ids :
        Live(i) /\ rows[i].confirmed /\ rows[i].end # None
            => rows[i].end >= rows[i].start + MinWatch

\* While the process runs, a confirmed session without an end is the current
\* session of its receiver's poll job: none is left open for ever
\* (poller.py:69, 87, 109).
OpenConfirmedIsTracked ==
    up => \A i \in Ids :
            Live(i) /\ rows[i].confirmed /\ rows[i].end = None
                => mem[rows[i].rcv].sid = i /\ mem[rows[i].rcv].confirmed

\* Two confirmed sessions of one receiver never overlap in time, restarts and
\* backdated ends (poller.py:88, 635-638) included.
Before(a, b) == a.end # None /\ a.end <= b.start
NoOverlap ==
    \A i, j \in Ids :
        /\ i # j
        /\ Live(i) /\ rows[i].confirmed
        /\ Live(j) /\ rows[j].confirmed
        /\ rows[i].rcv = rows[j].rcv
        => Before(rows[i], rows[j]) \/ Before(rows[j], rows[i])

\* What a poll job remembers as its current session is an open row of its own
\* receiver, with the same start and the same confirmed flag (poller.py:114-116,
\* 165, 202).
MemMatchesRow ==
    \A r \in Receivers :
        LET m == mem[r] IN
        m.sid # None =>
            /\ Live(m.sid)
            /\ rows[m.sid].rcv = r
            /\ rows[m.sid].end = None
            /\ rows[m.sid].start = m.start
            /\ rows[m.sid].confirmed = m.confirmed

\* A receiver that successive polls have found on one known channel for
\* min_watch_sec has an open confirmed session on it, provided its poll job
\* holds a session at all (poller.py:125-130).
Recorded(r) ==
    \E i \in Ids :
        /\ Live(i) /\ rows[i].rcv = r /\ rows[i].sref = streak[r].sref
        /\ rows[i].confirmed /\ rows[i].end = None
WatchedLong(r) ==
    streak[r].sref # None /\ streak[r].last >= streak[r].since + MinWatch
WatchedIsRecorded ==
    \A r \in Receivers : WatchedLong(r) /\ mem[r].sid # None => Recorded(r)

\* The same without the proviso: watching a known channel for min_watch_sec is
\* always recorded (docs/user-guide.md:90, docs/deploy.md:394).
WatchedIsAlwaysRecorded ==
    \A r \in Receivers : WatchedLong(r) => Recorded(r)

\* The end of a session is final: no later poll, restart or job moves it or
\* reopens the row (poller.py:208-217, 611-644); the row may only be deleted.
EndIsFinal ==
    [][\A i \in Ids :
         Live(i) /\ rows[i].end # None => rows'[i] \in {None, rows[i]}]_vars

\* The log of confirmed sessions, and the whole promise to its readers: see
\* SessionLog (poller.py:69, 87-88, 109-116, 125-130, 611-644, admin.py:577-595).
Book == [i \in Ids |-> IF Live(i) /\ rows[i].confirmed THEN rows[i] ELSE None]
Log == INSTANCE SessionLog WITH book <- Book
LogIsKept == Log!Spec

\* A restart keeps every confirmed session and leaves no row open
\* (poller.py:611-644).
RestartSettlesSessions ==
    [][~up /\ up' =>
         \A i \in Ids :
            /\ Live(i) /\ rows[i].confirmed => rows'[i] # None
            /\ rows'[i] # None => rows'[i].end # None]_vars

-----------------------------------------------------------------------------
(* The inductive invariant behind the theorems of PollSessionProofs, when  *)
(* no commit fails and no tracked row is deleted.                          *)

\* A stopped process remembers nothing and polls nothing.
DownIsBlank ==
    ~up => \A r \in Receivers : mem[r] = FreshMem /\ poll[r] = IdlePoll

\* What is remembered lies in the past of the poll in flight, and a confirmed
\* session was last seen alive min_watch_sec after its start.
ClockOrder ==
    \A r \in Receivers :
        LET m == mem[r] IN
        /\ poll[r].at <= now
        /\ lastSeen[r] # None => lastSeen[r] <= now
        /\ m.lastOk # None =>
              /\ m.lastOk <= now
              /\ poll[r].phase # "idle" => m.lastOk <= poll[r].at
        /\ m.sid # None => m.lastOk # None /\ m.start <= m.lastOk
        /\ m.confirmed => m.sid # None /\ m.lastOk >= m.start + MinWatch

\* A confirmed session's min_watch_sec are over, and an ended one ended before
\* anything its receiver's poll job does next.
EndsInThePast ==
    \A i \in Ids :
        Live(i) /\ rows[i].confirmed =>
            LET r == rows[i].rcv IN
            /\ rows[i].start + MinWatch <= now
            /\ rows[i].end # None =>
                  /\ rows[i].end <= now
                  /\ poll[r].phase # "idle" => rows[i].end <= poll[r].at
                  /\ mem[r].sid # None => rows[i].end <= mem[r].start

IInv ==
    /\ TypeOK
    /\ MemMatchesRow
    /\ OpenConfirmedIsTracked
    /\ ConfirmedLongEnough
    /\ NoOverlap
    /\ DownIsBlank
    /\ ClockOrder
    /\ EndsInThePast

=============================================================================
