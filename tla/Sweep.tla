-------------------------------- MODULE Sweep --------------------------------
(***************************************************************************)
(* _refresh_all_epg of app/services/poller.py, which fetches the EPG of     *)
(* every box that answers, with its bookkeeping of complete sweeps and      *)
(* skipped channels; and the forecast of the next forced scan               *)
(* (epg_coverage and days_until_forced_scan of app/services/epg.py) that    *)
(* the administrator sees and the nightly job acts on.                      *)
(*                                                                         *)
(* Several jobs run it, at the same time if it so happens: the hourly one   *)
(* and the one an administrator starts sweep a box only if its last sweep   *)
(* is overdue, the nightly one sweeps all.  Each await is a fetch, and      *)
(* between fetches boxes come and go.                                       *)
(*                                                                         *)
(* Abstracted: the events, of which only the time up to a channel's last    *)
(* one matters, in half days; the clock, of which only the days matter, so  *)
(* that a sweep is overdue the day after.  How the nightly job wakes boxes  *)
(* and puts them back to sleep is EpgWake's subject.                        *)
(***************************************************************************)
EXTENDS Integers, FiniteSets

CONSTANTS
    Boxes,        \* receivers, as numbers in the order they are visited in
    Channels,     \* channel ids, in the order of their rows
    Lineup,       \* per box, the channels of its bouquets
    Jobs,         \* what runs _refresh_all_epg: "hourly", "admin", "night"
    Depths,       \* how far ahead a broadcaster may send, in half days
    Important,    \* important_channel_ids
    Threshold,    \* settings.epg_night_wake_below_coverage, in percent
    CoverHalves,  \* settings.epg_coverage_hours, in half days
    MaxDays,      \* max_days of days_until_forced_scan
    MaxRestarts,  \* bound on restarts
    Raisers       \* channels whose events may fail to be stored, for a like
                  \* of an event that is to be deleted (epg.py:141)

ASSUME LineupAssumption ==
    /\ Boxes \subseteq Nat \ {0} /\ Boxes # {} /\ Channels \subseteq Nat
    /\ Lineup \in [Boxes -> (SUBSET Channels) \ {{}}]   \* bouquets are known
    /\ Raisers \subseteq Channels
    /\ Jobs \subseteq {"hourly", "admin", "night"}

ASSUME ForecastAssumption ==
    /\ Depths \subseteq Nat /\ Depths # {}
    /\ Important \subseteq Channels /\ Important # {} /\ IsFiniteSet(Important)
    /\ {Threshold, CoverHalves, MaxDays, MaxRestarts} \subseteq Nat

VARIABLES
    online,    \* the boxes that answer
    ahead,     \* per channel, half days up to its last event, 0 if it is past
    swept,     \* boxes whose _last_full_sweep_at is not overdue
    skipped,   \* _skipped_channels
    job,       \* per job, its run of _refresh_all_epg
    restarts   \* number of restarts so far

vars == <<online, ahead, swept, skipped, job, restarts>>

\* look: boxes not yet asked if they are online.  boxes: those found online
\* and not yet swept.  box, rest, prev, skip: the sweep of one box, what it
\* has still to fetch, prev_skipped and skipped.  overnight: does the run go
\* on since yesterday?
Run == [phase : {"idle", "look", "sweep"}, look : SUBSET Boxes, boxes : SUBSET Boxes,
        box : Boxes \cup {0}, rest : SUBSET Channels, prev : SUBSET Channels,
        skip : SUBSET Channels, overnight : BOOLEAN]

TypeOK ==
    /\ online \subseteq Boxes
    /\ ahead \in [Channels -> Nat]
    /\ swept \subseteq Boxes
    /\ skipped \in [Boxes -> SUBSET Channels]
    /\ job \in [Jobs -> Run]
    /\ restarts \in 0..MaxRestarts

Idle == [phase |-> "idle", look |-> {}, boxes |-> {}, box |-> 0, rest |-> {},
         prev |-> {}, skip |-> {}, overnight |-> FALSE]

Init ==
    /\ online \in SUBSET Boxes
    /\ ahead \in [Channels -> Depths \cup {0}]
    /\ swept = {}
    /\ skipped = [b \in Boxes |-> {}]
    /\ job = [j \in Jobs |-> Idle]
    /\ restarts = 0

First(S) == CHOOSE x \in S : \A y \in S : x <= y

-----------------------------------------------------------------------------
(* Coverage and forecast.                                                  *)

\* The important channels whose EPG still reaches far enough in d days.
Covered(d) == {c \in Important : ahead[c] >= CoverHalves + 2 * d}

\* round(part / whole, 2) in percent; exactly half goes to the even one.
Percent(part, whole) ==
    LET doubled == (200 * part) \div whole
    IN  IF doubled * whole = 200 * part /\ doubled % 2 = 1
        THEN 2 * ((doubled + 1) \div 4)
        ELSE (doubled + 1) \div 2

\* _nightly_full_sweep_locked: too little is covered (epg_coverage rounds).
NightWakes == Percent(Cardinality(Covered(0)), Cardinality(Important)) < Threshold

\* Mutant: the day before the threshold is breached.
DayBefore ==
    LET late == {d \in 1..MaxDays :
                   100 * Cardinality(Covered(d)) < Threshold * Cardinality(Important)}
    IN  IF late = {} THEN MaxDays ELSE First(late) - 1

\* days_until_forced_scan (for which None and max_days are the same here)
DaysUntilForcedScan ==
    LET breached == {d \in 0..MaxDays :
                       100 * Cardinality(Covered(d)) < Threshold * Cardinality(Important)}
    IN  IF breached = {} THEN MaxDays ELSE First(breached)

-----------------------------------------------------------------------------
(* _refresh_all_epg.                                                       *)

\* Mutant: only the nightly job sweeps.
NightOnly(j, b, done) == j = "night"

\* Does job j sweep box b, given the boxes already swept?  The nightly job
\* passes full=True.
Wanted(j, b, done) == j = "night" \/ b \notin done

\* Run r of job j goes on with its boxes: those that need no sweep are passed
\* over, and the sweep of the next one begins.
Onward(j, r, done, skips) ==
    LET wanted == {b \in r.boxes : Wanted(j, b, done)}
    IN  IF wanted = {} THEN Idle
        ELSE LET b == First(wanted)
             IN  [r EXCEPT !.phase = "sweep", !.boxes = {d \in @ : d > b}, !.box = b,
                           !.rest = Lineup[b], !.prev = skips[b], !.skip = {}]

\* The hourly job, or an administrator's POST /api/admin/refresh.
RefreshStarts(j) ==
    /\ j # "night" /\ job[j] = Idle
    /\ job' = [job EXCEPT ![j].phase = "look", ![j].look = Boxes]
    /\ UNCHANGED <<online, ahead, swept, skipped, restarts>>

\* The nightly job has decided, and woken those of the boxes it could.
NightStarts(j) ==
    /\ j = "night" /\ job[j] = Idle
    /\ \E up \in IF NightWakes THEN SUBSET (Boxes \ online) ELSE {{}} :
          online' = online \cup up
    /\ job' = [job EXCEPT ![j].phase = "look", ![j].look = Boxes]
    /\ UNCHANGED <<ahead, swept, skipped, restarts>>

\* is_online, and the now/next refresh of a box that is (what it stores
\* reaches less than half a day ahead).  After the last box the sweeps begin.
LooksAt(j) ==
    LET b == First(job[j].look)
        r == [job[j] EXCEPT !.look = @ \ {b},
                            !.boxes = IF b \in online THEN @ \cup {b} ELSE @]
    IN  /\ job[j].phase = "look"
        /\ job' = [job EXCEPT ![j] =
                     IF r.look = {} THEN Onward(j, r, swept, skipped) ELSE r]
        /\ UNCHANGED <<online, ahead, swept, skipped, restarts>>

\* Mutant: in the order of their rows.
RowOrder(r) == First(r.rest)

\* The channel that is fetched next: those skipped by the last sweep first.
NextChannel(r) ==
    IF r.rest \cap r.prev # {} THEN First(r.rest \cap r.prev) ELSE First(r.rest)

\* Run r of job j is done with channel c of its box.  After the last one the
\* sweep is booked as complete, and the run goes on to the next box.
ChannelDone(j, r, c, skip) ==
    IF r.rest # {c}
    THEN /\ job' = [job EXCEPT ![j].rest = @ \ {c}, ![j].skip = skip]
         /\ UNCHANGED <<swept, skipped>>
    ELSE /\ skipped' = [skipped EXCEPT ![r.box] = skip]
         /\ swept' = swept \cup {r.box}
         /\ job' = [job EXCEPT ![j] = Onward(j, r, swept', skipped')]

\* refresh_epg_service stores the events of a channel.
Fetches(j) ==
    LET r == job[j]
        c == NextChannel(r)
    IN  /\ r.phase = "sweep" /\ r.box \in online
        /\ \E d \in Depths :
              ahead' = [ahead EXCEPT ![c] = IF d > @ THEN d ELSE @]
        /\ ChannelDone(j, r, c, r.skip)
        /\ UNCHANGED <<online, restarts>>

\* It stores nothing: no answer, one it cannot parse, or too few events.
Skips(j) ==
    LET r == job[j]
        c == NextChannel(r)
    IN  /\ r.phase = "sweep"
        /\ ChannelDone(j, r, c, r.skip \cup {c})
        /\ UNCHANGED <<online, ahead, restarts>>

\* Mutant: the exception is caught where the bookkeeping still happens.
BookedAnyway(j) == swept' = swept \cup ({job[j].box} \cap Boxes)

\* Whatever was not booked before the exception is not booked at all.
NotBooked(j) == UNCHANGED swept

\* Storing fails, in a sweep or in the now/next refresh before it: the whole
\* run is over, for the other boxes, too.
RunRaises(j) ==
    LET r == job[j]
    IN  /\ \/ /\ r.phase = "sweep" /\ r.box \in online
              /\ NextChannel(r) \in Raisers
           \/ /\ r.phase = "look" /\ First(r.look) \in online
              /\ Lineup[First(r.look)] \cap Raisers # {}
        /\ job' = [job EXCEPT ![j] = Idle]
        /\ NotBooked(j)
        /\ UNCHANGED <<online, ahead, skipped, restarts>>

-----------------------------------------------------------------------------
(* The boxes, the days, and the process.                                   *)

BoxSwitched(b) ==
    /\ online' = IF b \in online THEN online \ {b} ELSE online \cup {b}
    /\ UNCHANGED <<ahead, swept, skipped, job, restarts>>

\* Mutant: times in the past count as negative.
AgedBelowZero(h) == h - 2

\* Time up to an event, a day later
Aged(h) == IF h < 2 THEN 0 ELSE h - 2

\* A day goes by; no run takes longer than that.
Day ==
    /\ \A j \in Jobs : ~job[j].overnight
    /\ ahead' = [c \in Channels |-> Aged(ahead[c])]
    /\ swept' = {}
    /\ job' = [j \in Jobs |-> [job[j] EXCEPT !.overnight = job[j] # Idle]]
    /\ UNCHANGED <<online, skipped, restarts>>

\* All bookkeeping is in memory.
Restart ==
    /\ restarts < MaxRestarts
    /\ restarts' = restarts + 1
    /\ swept' = {}
    /\ skipped' = [b \in Boxes |-> {}]
    /\ job' = [j \in Jobs |-> Idle]
    /\ UNCHANGED <<online, ahead>>

Next ==
    \/ \E j \in Jobs :
          \/ RefreshStarts(j) \/ NightStarts(j)
          \/ LooksAt(j) \/ Fetches(j) \/ Skips(j) \/ RunRaises(j)
    \/ \E b \in Boxes : BoxSwitched(b)
    \/ Day
    \/ Restart

Spec == Init /\ [][Next]_vars

\* The scheduler starts the hourly job, and every fetch ends.
FairSpec ==
    /\ Spec
    /\ WF_vars(RefreshStarts("hourly"))
    /\ \A j \in Jobs : WF_vars(LooksAt(j) \/ Fetches(j) \/ Skips(j) \/ RunRaises(j))

-----------------------------------------------------------------------------
(* Properties.                                                             *)

\* If a sweep is booked for today, so that none catches up on it: every
\* channel of the box has the EPG its broadcaster sends (of yesterday, if the
\* sweep went on over night), or is down for the next sweep to begin with.
\* Neither exceptions, nor boxes that go in between, nor two runs that sweep
\* the same box break that.
SweptMeansData ==
    \A b \in swept : \A c \in Lineup[b] :
        c \in skipped[b] \/ ahead[c] + 2 >= First(Depths)

\* A channel that was skipped is not skipped for long: a sweep of a box
\* fetches the channels its last sweep had skipped before any other.
RetriedFirst ==
    [][\A j \in Jobs, c \in Channels :
          /\ job[j].phase = "sweep" /\ c \in job[j].rest
          /\ job'[j].box = job[j].box /\ c \notin job'[j].rest
          => c \in job[j].prev \/ job[j].rest \cap job[j].prev = {}]_vars

\* The administrator is told in how many days the boxes will have to be
\* woken: the number counts down by one a day, unless EPG comes in, and the
\* night it says 0 they are.
ForecastKept ==
    [][/\ Day => \/ DaysUntilForcedScan' + 1 = DaysUntilForcedScan
                 \/ DaysUntilForcedScan' = 0 /\ DaysUntilForcedScan = 0
       /\ \A j \in Jobs : NightStarts(j) => (NightWakes <=> DaysUntilForcedScan = 0)]_vars

\* A box that stays online is swept again and again, by the hourly job if the
\* nightly one never runs; provided that no box that is online has a channel
\* whose events cannot be stored.
SweptDaily ==
    \A b \in Boxes :
        <>[](b \in online /\ \A d \in online : Lineup[d] \cap Raisers = {})
        => []<>(b \in swept)

\* Does not hold: one such channel anywhere ends every run, and with it the
\* sweeps of all boxes.
SweptDailyAll ==
    \A b \in Boxes : Lineup[b] \cap Raisers = {}
                     => (<>[](b \in online) => []<>(b \in swept))
=============================================================================
