------------------------------ MODULE SweepProofs ------------------------------
(***************************************************************************)
(* Proofs that what Sweep books as swept has data, that skipped channels    *)
(* are retried first, and that the forecast of the next forced scan is kept.*)
(***************************************************************************)
EXTENDS Sweep, TLAPS, WellFoundedInduction, FiniteSetTheorems

\* First picks the smallest of a set of numbers.
LEMMA FirstIsLeast ==
    ASSUME NEW S \in SUBSET Nat, S # {}
    PROVE  First(S) \in S /\ \A y \in S : First(S) <= y
<1>1. PICK x \in S : \A y \in S : <<y, x>> \notin OpToRel(<, Nat)
  BY NatLessThanWellFounded, WFMin
<1>2. \A y \in S : ~(y < x)
  BY <1>1 DEF OpToRel
<1>3. \A y \in S : x <= y
  BY <1>2
<1> QED
  BY <1>3 DEF First

-----------------------------------------------------------------------------
(* The sweep of one box.                                                   *)

\* A sweep in progress has its box and a channel left.
BusyRun(r) == r.phase = "sweep" => r.box \in Boxes /\ r.rest # {} /\ r.rest \subseteq Lineup[r.box]

\* A run that still looks has boxes to look at.
LookingRun(r) == r.phase = "look" => r.look # {}

\* Half days that may have gone since a run fetched a channel.
Lost(r) == IF r.overnight THEN 2 ELSE 0

\* The channels of its box that a sweep is done with were skipped by it, or
\* have data.
DoneRun(r, hours) ==
    r.phase = "sweep" =>
        \A c \in Lineup[r.box] \ r.rest : c \in r.skip \/ hours[c] + Lost(r) >= First(Depths)

\* One sweep is in order.
InOrder(r, hours) == r \in Run /\ BusyRun(r) /\ LookingRun(r) /\ DoneRun(r, hours)

\* The data of swept boxes, as SweptMeansData says it.
Booked(done, skips, hours) ==
    \A b \in done : \A c \in Lineup[b] :
        c \in skips[b] \/ hours[c] + 2 >= First(Depths)

SweepInv ==
    /\ TypeOK
    /\ SweptMeansData
    /\ \A j \in Jobs : InOrder(job[j], ahead)

LEMMA DepthFacts ==
    First(Depths) \in Nat /\ \A d \in Depths : d \in Nat /\ First(Depths) <= d
BY FirstIsLeast, ForecastAssumption

LEMMA IdleInOrder ==
    ASSUME NEW hours
    PROVE  InOrder(Idle, hours)
BY DEF InOrder, Idle, Run, BusyRun, LookingRun, DoneRun

\* Onward begins a sweep that is in order, or ends the run.
LEMMA OnwardInOrder ==
    ASSUME NEW j \in Jobs, NEW r \in Run, NEW done, NEW skips \in [Boxes -> SUBSET Channels],
           NEW hours
    PROVE  /\ InOrder(Onward(j, r, done, skips), hours)
           /\ Onward(j, r, done, skips) = Idle
              \/ Onward(j, r, done, skips).box \in r.boxes
<1> DEFINE wanted == {b \in r.boxes : Wanted(j, b, done)}
           b == First(wanted)
<1>1. CASE wanted = {}
  BY <1>1, IdleInOrder DEF Onward
<1>2. CASE wanted # {}
  <2>1. wanted \subseteq Boxes /\ r.boxes \subseteq Boxes
    BY DEF Run
  <2>2. b \in wanted
    BY <1>2, <2>1, FirstIsLeast, LineupAssumption
  <2> DEFINE n == [r EXCEPT !.phase = "sweep", !.boxes = {d \in @ : d > b}, !.box = b,
                            !.rest = Lineup[b], !.prev = skips[b], !.skip = {}]
  <2>3. Onward(j, r, done, skips) = n
    BY <1>2 DEF Onward
  <2>4. Lineup[b] # {} /\ Lineup[b] \subseteq Channels /\ skips[b] \subseteq Channels
    BY <2>1, <2>2, LineupAssumption
  <2> HIDE DEF wanted, b
  <2>5. /\ n.phase = "sweep" /\ n.box = b /\ n.rest = Lineup[b]
        /\ n \in Run
    BY <2>1, <2>2, <2>4 DEF Run, wanted
  <2> HIDE DEF n
  <2>6. InOrder(n, hours)
    BY <2>1, <2>2, <2>4, <2>5 DEF InOrder, BusyRun, LookingRun, DoneRun
  <2> QED
    BY <2>2, <2>3, <2>5, <2>6 DEF wanted
<1> QED
  BY <1>1, <1>2

\* The next channel is one that is left, of those skipped before if there is
\* one.
LEMMA NextIsLeft ==
    ASSUME NEW r \in Run, r.rest # {}
    PROVE  /\ NextChannel(r) \in r.rest
           /\ NextChannel(r) \in r.prev \/ r.rest \cap r.prev = {}
<1>1. r.rest \subseteq Nat /\ r.rest \cap r.prev \subseteq Nat
  BY LineupAssumption DEF Run
<1>2. CASE r.rest \cap r.prev # {}
  BY <1>1, <1>2, FirstIsLeast DEF NextChannel
<1>3. CASE r.rest \cap r.prev = {}
  BY <1>1, <1>3, FirstIsLeast DEF NextChannel
<1> QED
  BY <1>2, <1>3

\* If channel c is skipped now or has data, ChannelDone keeps the sweeps and
\* the books in order.
LEMMA DoneInOrder ==
    ASSUME NEW j \in Jobs, SweepInv, job[j].phase = "sweep",
           NEW c \in job[j].rest, NEW skip \in SUBSET Channels,
           job[j].skip \subseteq skip,
           ahead' \in [Channels -> Nat], \A d \in Channels : ahead'[d] >= ahead[d],
           c \in skip \/ ahead'[c] >= First(Depths),
           ChannelDone(j, job[j], c, skip)
    PROVE  /\ swept' \subseteq Boxes /\ skipped' \in [Boxes -> SUBSET Channels]
           /\ Booked(swept', skipped', ahead')
           /\ \A i \in Jobs : InOrder(job'[i], ahead')
<1> DEFINE r == job[j]
<1>1. /\ r \in Run /\ r.box \in Boxes /\ r.rest \subseteq Lineup[r.box]
      /\ r.rest \subseteq Channels /\ Lineup[r.box] \subseteq Channels
      /\ ahead \in [Channels -> Nat]
  BY LineupAssumption DEF SweepInv, InOrder, BusyRun, TypeOK, Run
<1>2. First(Depths) \in Nat
  BY DepthFacts
<1>3. \A i \in Jobs : InOrder(job[i], ahead')
  <2> SUFFICES ASSUME NEW i \in Jobs PROVE InOrder(job[i], ahead')
    OBVIOUS
  <2>1. InOrder(job[i], ahead)
    BY DEF SweepInv
  <2> SUFFICES ASSUME job[i].phase = "sweep", NEW d \in Lineup[job[i].box] \ job[i].rest
               PROVE  d \in job[i].skip \/ ahead'[d] + Lost(job[i]) >= First(Depths)
    BY <2>1 DEF InOrder, DoneRun
  <2>2. d \in Channels
    BY <2>1, LineupAssumption DEF InOrder, BusyRun
  <2>3. ahead'[d] >= ahead[d] /\ ahead[d] \in Nat /\ ahead'[d] \in Nat
    BY <1>1, <2>2
  <2>4. d \in job[i].skip \/ ahead[d] + Lost(job[i]) >= First(Depths)
    BY <2>1 DEF InOrder, DoneRun
  <2> QED
    BY <1>2, <2>3, <2>4 DEF Lost
<1>4. \A d \in Lineup[r.box] \ (r.rest \ {c}) :
         d \in skip \/ ahead'[d] + Lost(r) >= First(Depths)
  <2> SUFFICES ASSUME NEW d \in Lineup[r.box] \ (r.rest \ {c})
               PROVE  d \in skip \/ ahead'[d] + Lost(r) >= First(Depths)
    OBVIOUS
  <2>1. CASE d = c
    BY <1>1, <1>2, <2>1 DEF Lost
  <2>2. CASE d # c
    BY <1>3, <2>2 DEF InOrder, DoneRun
  <2> QED
    BY <2>1, <2>2
<1>5. Booked(swept, skipped, ahead')
  <2> SUFFICES ASSUME NEW b \in swept, NEW d \in Lineup[b]
               PROVE  d \in skipped[b] \/ ahead'[d] + 2 >= First(Depths)
    BY DEF Booked
  <2>1. d \in Channels
    BY LineupAssumption DEF SweepInv, TypeOK
  <2>2. d \in skipped[b] \/ ahead[d] + 2 >= First(Depths)
    BY DEF SweepInv, SweptMeansData
  <2> QED
    BY <1>1, <1>2, <2>1, <2>2
<1>6. CASE r.rest # {c}
  <2> DEFINE n == [r EXCEPT !.rest = @ \ {c}, !.skip = skip]
  <2>1. job' = [job EXCEPT ![j] = n] /\ UNCHANGED <<swept, skipped>>
    BY <1>6 DEF ChannelDone
  <2>2. /\ n \in Run /\ n.phase = "sweep" /\ n.box = r.box /\ n.rest = r.rest \ {c}
        /\ n.skip = skip /\ n.overnight = r.overnight
    BY <1>1 DEF Run
  <2> HIDE DEF n
  <2>3. InOrder(n, ahead')
    BY <1>1, <1>4, <1>6, <2>2 DEF InOrder, BusyRun, LookingRun, DoneRun, Lost
  <2> QED
    BY <1>3, <1>5, <2>1, <2>3 DEF SweepInv, TypeOK
<1>7. CASE r.rest = {c}
  <2>1. /\ skipped' = [skipped EXCEPT ![r.box] = skip]
        /\ swept' = swept \cup {r.box}
        /\ job' = [job EXCEPT ![j] = Onward(j, r, swept', skipped')]
    BY <1>7 DEF ChannelDone
  <2>2. swept' \subseteq Boxes /\ skipped' \in [Boxes -> SUBSET Channels]
    BY <1>1, <2>1 DEF SweepInv, TypeOK
  <2>3. Booked(swept', skipped', ahead')
    <3> SUFFICES ASSUME NEW b \in swept', NEW d \in Lineup[b]
                 PROVE  d \in skipped'[b] \/ ahead'[d] + 2 >= First(Depths)
      BY DEF Booked
    <3>1. CASE b = r.box
      <4>1. d \in skip \/ ahead'[d] + Lost(r) >= First(Depths)
        BY <1>4, <1>7, <3>1
      <4>2. d \in Channels /\ ahead'[d] \in Nat
        BY <1>1, <3>1
      <4>3. skipped'[b] = skip
        BY <1>1, <2>1, <3>1 DEF SweepInv, TypeOK
      <4> QED
        BY <1>2, <4>1, <4>2, <4>3 DEF Lost
    <3>2. CASE b # r.box
      BY <1>5, <2>1, <2>2, <3>2 DEF Booked, SweepInv, TypeOK
    <3> QED
      BY <3>1, <3>2
  <2>4. InOrder(Onward(j, r, swept', skipped'), ahead')
    BY <1>1, <2>2, OnwardInOrder
  <2> QED
    BY <1>3, <2>1, <2>2, <2>3, <2>4 DEF SweepInv, TypeOK
<1> QED
  BY <1>6, <1>7

-----------------------------------------------------------------------------
(* The actions.                                                            *)

LEMMA SweepInvInit == Init => SweepInv
<1> SUFFICES ASSUME Init PROVE SweepInv
  OBVIOUS
<1>1. TypeOK
  <2>1. Depths \subseteq Nat /\ MaxRestarts \in Nat
    BY ForecastAssumption
  <2>2. Idle \in Run
    BY IdleInOrder DEF InOrder
  <2>3. ahead \in [Channels -> Nat]
    <3>1. ahead \in [Channels -> Depths \cup {0}]
      BY DEF Init
    <3>2. Depths \cup {0} \subseteq Nat
      BY <2>1
    <3> QED
      BY <3>1, <3>2
  <2>4. 0 \in 0..MaxRestarts
    BY <2>1
  <2> QED
    BY <2>2, <2>3, <2>4 DEF Init, TypeOK
<1> QED
  BY <1>1, IdleInOrder DEF SweepInv, Init, SweptMeansData

LEMMA StartKeeps ==
    ASSUME SweepInv, NEW j \in Jobs, RefreshStarts(j) \/ NightStarts(j)
    PROVE  SweepInv'
<1> DEFINE n == [job[j] EXCEPT !.phase = "look", !.look = Boxes]
<1>1. job' = [job EXCEPT ![j] = n]
  BY DEF RefreshStarts, NightStarts, SweepInv, TypeOK
<1>2. online' \subseteq Boxes /\ UNCHANGED <<ahead, swept, skipped, restarts>>
  BY DEF RefreshStarts, NightStarts, SweepInv, TypeOK
<1>3. n \in Run /\ n.phase = "look" /\ n.look = Boxes
  <2>1. job[j] \in Run
    BY DEF SweepInv, TypeOK
  <2> QED
    BY <2>1 DEF Run
<1> HIDE DEF n
<1>4. InOrder(n, ahead)
  BY <1>3, LineupAssumption DEF InOrder, BusyRun, LookingRun, DoneRun
<1> QED
  BY <1>1, <1>2, <1>3, <1>4 DEF SweepInv, TypeOK, SweptMeansData

LEMMA LookKeeps ==
    ASSUME SweepInv, NEW j \in Jobs, LooksAt(j)
    PROVE  SweepInv'
<1> DEFINE b == First(job[j].look)
           r == [job[j] EXCEPT !.look = @ \ {b},
                               !.boxes = IF b \in online THEN @ \cup {b} ELSE @]
           n == IF r.look = {} THEN Onward(j, r, swept, skipped) ELSE r
<1>1. /\ job[j] \in Run /\ job[j].phase = "look" /\ job[j].look # {}
      /\ job' = [job EXCEPT ![j] = n]
      /\ UNCHANGED <<online, ahead, swept, skipped, restarts>>
  BY DEF LooksAt, SweepInv, InOrder, LookingRun
<1>2. b \in Boxes
  BY <1>1, FirstIsLeast, LineupAssumption DEF Run
<1>3. r \in Run /\ r.phase = "look"
  BY <1>1, <1>2 DEF Run
<1> HIDE DEF r
<1>4. InOrder(n, ahead)
  <2>1. CASE r.look = {}
    BY <1>3, <2>1, OnwardInOrder DEF SweepInv, TypeOK
  <2>2. CASE r.look # {}
    BY <1>3, <2>2 DEF InOrder, BusyRun, LookingRun, DoneRun
  <2> QED
    BY <2>1, <2>2
<1>5. n \in Run
  BY <1>4 DEF InOrder
<1> HIDE DEF n
<1> QED
  BY <1>1, <1>4, <1>5 DEF SweepInv, TypeOK, SweptMeansData

LEMMA FetchKeeps ==
    ASSUME SweepInv, NEW j \in Jobs, Fetches(j)
    PROVE  SweepInv'
<1> DEFINE r == job[j]
           c == NextChannel(r)
<1>1. r \in Run /\ r.phase = "sweep" /\ r.rest # {} /\ r.skip \subseteq Channels
  BY DEF Fetches, SweepInv, InOrder, BusyRun, Run
<1>2. c \in r.rest /\ c \in Channels
  BY <1>1, NextIsLeft DEF Run
<1>3. PICK d \in Depths : ahead' = [ahead EXCEPT ![c] = IF d > @ THEN d ELSE @]
  BY DEF Fetches
<1>4. d \in Nat /\ d >= First(Depths) /\ First(Depths) \in Nat /\ ahead \in [Channels -> Nat]
  BY DepthFacts DEF SweepInv, TypeOK
<1>5. /\ ahead' \in [Channels -> Nat] /\ ahead'[c] >= First(Depths)
      /\ \A e \in Channels : ahead'[e] >= ahead[e]
  BY <1>2, <1>3, <1>4
<1>6. ChannelDone(j, r, c, r.skip) /\ UNCHANGED <<online, restarts>>
  BY DEF Fetches
<1>7. /\ swept' \subseteq Boxes /\ skipped' \in [Boxes -> SUBSET Channels]
      /\ Booked(swept', skipped', ahead')
      /\ \A i \in Jobs : InOrder(job'[i], ahead')
  <2> HIDE DEF c
  <2> QED
    BY <1>1, <1>2, <1>5, <1>6, DoneInOrder
<1>8. job' \in [Jobs -> Run]
  BY <1>6, <1>7 DEF ChannelDone, SweepInv, TypeOK, InOrder
<1> QED
  BY <1>5, <1>6, <1>7, <1>8 DEF SweepInv, TypeOK, SweptMeansData, Booked

LEMMA SkipKeeps ==
    ASSUME SweepInv, NEW j \in Jobs, Skips(j)
    PROVE  SweepInv'
<1> DEFINE r == job[j]
           c == NextChannel(r)
<1>1. r \in Run /\ r.phase = "sweep" /\ r.rest # {} /\ r.skip \subseteq Channels
  BY DEF Skips, SweepInv, InOrder, BusyRun, Run
<1>2. c \in r.rest /\ c \in Channels
  BY <1>1, NextIsLeft DEF Run
<1>3. /\ ahead' \in [Channels -> Nat]
      /\ \A e \in Channels : ahead'[e] >= ahead[e]
  BY DEF Skips, SweepInv, TypeOK
<1>4. ChannelDone(j, r, c, r.skip \cup {c}) /\ UNCHANGED <<online, ahead, restarts>>
  BY DEF Skips
<1>5. /\ swept' \subseteq Boxes /\ skipped' \in [Boxes -> SUBSET Channels]
      /\ Booked(swept', skipped', ahead')
      /\ \A i \in Jobs : InOrder(job'[i], ahead')
  <2> HIDE DEF c
  <2> QED
    BY <1>1, <1>2, <1>3, <1>4, DoneInOrder
<1>6. job' \in [Jobs -> Run]
  BY <1>4, <1>5 DEF ChannelDone, SweepInv, TypeOK, InOrder
<1> QED
  BY <1>3, <1>4, <1>5, <1>6 DEF SweepInv, TypeOK, SweptMeansData, Booked

LEMMA RaiseKeeps ==
    ASSUME SweepInv, NEW j \in Jobs, RunRaises(j)
    PROVE  SweepInv'
<1>1. job' = [job EXCEPT ![j] = Idle] /\ UNCHANGED <<online, ahead, swept, skipped, restarts>>
  BY DEF RunRaises, NotBooked
<1>2. InOrder(Idle, ahead) /\ Idle \in Run
  BY IdleInOrder DEF InOrder
<1> QED
  BY <1>1, <1>2 DEF SweepInv, TypeOK, SweptMeansData

\* A day may take two half days from a channel, and a run that it finds under
\* way has the night to show for it.
LEMMA DayKeeps ==
    ASSUME SweepInv, Day
    PROVE  SweepInv'
<1>1. ahead \in [Channels -> Nat] /\ First(Depths) \in Nat
  BY DepthFacts DEF SweepInv, TypeOK
<1>2. /\ ahead' \in [Channels -> Nat]
      /\ \A c \in Channels : ahead'[c] + 2 >= ahead[c]
  BY <1>1 DEF Day, Aged
<1>3. ASSUME NEW j \in Jobs
      PROVE  InOrder(job'[j], ahead') /\ job'[j] \in Run
  <2>1. /\ InOrder(job[j], ahead) /\ job[j] \in Run /\ ~job[j].overnight
        /\ job'[j] = [job[j] EXCEPT !.overnight = job[j] # Idle]
    BY DEF Day, SweepInv, TypeOK
  <2>2. job'[j] \in Run
    BY <2>1 DEF Run
  <2>3. UNCHANGED <<job[j].phase, job[j].box, job[j].rest, job[j].skip, job[j].look>>
    BY <2>1 DEF Run
  <2>4. job[j].phase = "sweep" => job'[j].overnight
    <3>1. job[j].phase = "sweep" => job[j] # Idle
      BY DEF Idle
    <3>2. job'[j].overnight = (job[j] # Idle)
      BY <2>1 DEF Run
    <3> QED
      BY <3>1, <3>2
  <2>5. DoneRun(job'[j], ahead')
    <3> SUFFICES ASSUME job[j].phase = "sweep", NEW c \in Lineup[job[j].box] \ job[j].rest
                 PROVE  c \in job[j].skip \/ ahead'[c] + Lost(job'[j]) >= First(Depths)
      BY <2>3 DEF DoneRun
    <3>1. c \in job[j].skip \/ ahead[c] >= First(Depths)
      <4>1. c \in job[j].skip \/ ahead[c] + Lost(job[j]) >= First(Depths)
        BY <2>1 DEF InOrder, DoneRun
      <4>2. Lost(job[j]) = 0
        BY <2>1 DEF Lost
      <4>3. c \in Channels
        BY <2>1, LineupAssumption DEF InOrder, BusyRun
      <4> QED
        BY <1>1, <4>1, <4>2, <4>3
    <3>2. c \in Channels
      BY <2>1, LineupAssumption DEF InOrder, BusyRun
    <3> QED
      BY <1>1, <1>2, <2>4, <3>1, <3>2 DEF Lost
  <2> QED
    BY <2>1, <2>2, <2>3, <2>5 DEF InOrder, BusyRun, LookingRun
<1> QED
  BY <1>2, <1>3 DEF Day, SweepInv, TypeOK, SweptMeansData

LEMMA OthersKeep ==
    ASSUME SweepInv, Restart \/ (\E b \in Boxes : BoxSwitched(b)) \/ UNCHANGED vars
    PROVE  SweepInv'
<1>1. CASE Restart
  <2>1. InOrder(Idle, ahead) /\ Idle \in Run
    BY IdleInOrder DEF InOrder
  <2>2. restarts' \in 0..MaxRestarts
    BY <1>1, ForecastAssumption DEF Restart, SweepInv, TypeOK
  <2> QED
    BY <1>1, <2>1, <2>2 DEF Restart, SweepInv, TypeOK, SweptMeansData
<1>2. CASE \E b \in Boxes : BoxSwitched(b)
  BY <1>2 DEF BoxSwitched, SweepInv, TypeOK, SweptMeansData
<1>3. CASE UNCHANGED vars
  BY <1>3 DEF vars, SweepInv, TypeOK, SweptMeansData
<1> QED
  BY <1>1, <1>2, <1>3

LEMMA SweepInvNext == SweepInv /\ [Next]_vars => SweepInv'
BY StartKeeps, LookKeeps, FetchKeeps, SkipKeeps, RaiseKeeps, DayKeeps, OthersKeep DEF Next

THEOREM SweepInvariant == Spec => []SweepInv
<1> QED
  BY SweepInvInit, SweepInvNext, PTL DEF Spec

\* _refresh_all_epg books a box as swept only if each of its channels has the
\* EPG its broadcaster sends, or is down for the next sweep (poller.py), for
\* any boxes, line-ups, jobs and channels that raise.
THEOREM SweptData == Spec => []SweptMeansData
BY SweepInvariant, PTL DEF SweepInv

\* A sweep fetches the channels that the last sweep of the box skipped before
\* any other (poller.py).
THEOREM SkippedFirst == Spec => RetriedFirst
<1>1. SweepInv /\ [Next]_vars =>
        [\A j \in Jobs, c \in Channels :
           /\ job[j].phase = "sweep" /\ c \in job[j].rest
           /\ job'[j].box = job[j].box /\ c \notin job'[j].rest
           => c \in job[j].prev \/ job[j].rest \cap job[j].prev = {}]_vars
  <2> SUFFICES ASSUME SweepInv, [Next]_vars, NEW j \in Jobs, NEW c \in Channels,
                      job[j].phase = "sweep", c \in job[j].rest,
                      job'[j].box = job[j].box, c \notin job'[j].rest
               PROVE  c \in job[j].prev \/ job[j].rest \cap job[j].prev = {}
    OBVIOUS
  <2>1. /\ job[j] \in Run /\ job[j].rest # {} /\ job[j].box \in Boxes
        /\ job \in [Jobs -> Run] /\ job[j] # Idle
    BY DEF SweepInv, InOrder, BusyRun, TypeOK, Idle
  <2>2. job'[j] # Idle /\ job'[j] # job[j]
    BY <2>1, LineupAssumption DEF Idle
  <2>3. ASSUME NEW i \in Jobs, NEW skip \in SUBSET Channels,
               ChannelDone(i, job[i], NextChannel(job[i]), skip)
        PROVE  c \in job[j].prev \/ job[j].rest \cap job[j].prev = {}
    <3>1. i = j
      BY <2>1, <2>2, <2>3 DEF ChannelDone
    <3>2. CASE job[j].rest # {NextChannel(job[j])}
      <4>1. job' = [job EXCEPT ![j].rest = @ \ {NextChannel(job[j])}, ![j].skip = skip]
        BY <2>3, <3>1, <3>2 DEF ChannelDone
      <4>2. job'[j].rest = job[j].rest \ {NextChannel(job[j])}
        BY <2>1, <4>1 DEF Run
      <4>3. c = NextChannel(job[j])
        BY <4>2
      <4> QED
        BY <2>1, <4>3, NextIsLeft
    <3>3. CASE job[j].rest = {NextChannel(job[j])}
      <4>1. c = NextChannel(job[j])
        BY <3>3
      <4> QED
        BY <2>1, <4>1, NextIsLeft
    <3> QED
      BY <3>2, <3>3
  <2>4. CASE \E i \in Jobs : Fetches(i) \/ Skips(i)
    <3>1. PICK i \in Jobs : Fetches(i) \/ Skips(i)
      BY <2>4
    <3>2. job[i] \in Run /\ job[i].rest # {}
      BY <3>1 DEF SweepInv, InOrder, BusyRun, Fetches, Skips
    <3>3. NextChannel(job[i]) \in Channels /\ job[i].skip \subseteq Channels
      BY <3>2, NextIsLeft DEF Run
    <3> QED
      BY <2>3, <3>1, <3>3 DEF Fetches, Skips
  <2>5. CASE \E i \in Jobs : RefreshStarts(i) \/ NightStarts(i) \/ LooksAt(i) \/ RunRaises(i)
    BY <2>1, <2>2, <2>5 DEF RefreshStarts, NightStarts, LooksAt, RunRaises
  <2>6. CASE (\E b \in Boxes : BoxSwitched(b)) \/ Day \/ Restart \/ UNCHANGED vars
    BY <2>1, <2>2, <2>6 DEF BoxSwitched, Day, Restart, vars, Run
  <2> QED
    BY <2>4, <2>5, <2>6 DEF Next
<1> QED
  BY <1>1, SweepInvariant, PTL DEF Spec, RetriedFirst

-----------------------------------------------------------------------------
(* The forecast.                                                           *)

\* No share of the important channels is less than half a percent below the
\* threshold, where epg_coverage, which rounds, would take it for reached.
NoNearMiss ==
    \A n \in 0..Cardinality(Important) :
        100 * n < Threshold * Cardinality(Important)
        => 200 * n < (2 * Threshold - 1) * Cardinality(Important)

\* Settings for which there is something to forecast, and max_days is far
\* enough to see it: without new EPG all of it is used up by then.
Foreseeable ==
    /\ Threshold > 0 /\ CoverHalves > 0
    /\ \A d \in Depths : d < CoverHalves + 2 * MaxDays

\* The same for channels that have so much ahead.
CoveredBy(hours, d) == {c \in Important : hours[c] >= CoverHalves + 2 * d}
Breached(hours, d) ==
    100 * Cardinality(CoveredBy(hours, d)) < Threshold * Cardinality(Important)
Forecast(hours) ==
    LET breached == {d \in 0..MaxDays : Breached(hours, d)}
    IN  IF breached = {} THEN MaxDays ELSE First(breached)

LEMMA Parameters ==
    /\ Threshold \in Nat /\ CoverHalves \in Nat /\ MaxDays \in Nat /\ Depths \subseteq Nat
    /\ Important \subseteq Channels /\ IsFiniteSet(Important)
    /\ Cardinality(Important) \in Nat \ {0}
<1>1. Cardinality(Important) \in Nat /\ Cardinality(Important) # 0
  BY ForecastAssumption, FS_CardinalityType, FS_EmptySet
<1> QED
  BY <1>1, ForecastAssumption

LEMMA ForecastIs ==
    /\ DaysUntilForcedScan = Forecast(ahead) /\ DaysUntilForcedScan' = Forecast(ahead')
    /\ \A d : Covered(d) = CoveredBy(ahead, d)
BY DEF DaysUntilForcedScan, Forecast, Breached, Covered, CoveredBy

\* The further one looks, the less is covered.
LEMMA CoverageFalls ==
    ASSUME NEW hours \in [Channels -> Nat], NEW d \in Nat
    PROVE  /\ Cardinality(CoveredBy(hours, d)) \in 0..Cardinality(Important)
           /\ Breached(hours, d) => Breached(hours, d + 1)
<1>1. /\ CoveredBy(hours, d) \subseteq Important
      /\ CoveredBy(hours, d + 1) \subseteq CoveredBy(hours, d)
  <2>1. \A c \in Important : hours[c] >= CoverHalves + 2 * (d + 1) => hours[c] >= CoverHalves + 2 * d
    BY Parameters
  <2> QED
    BY <2>1 DEF CoveredBy
<1> DEFINE n == Cardinality(CoveredBy(hours, d))
           m == Cardinality(CoveredBy(hours, d + 1))
           N == Cardinality(Important)
<1>2. IsFiniteSet(CoveredBy(hours, d)) /\ n \in Nat /\ n <= N
  BY <1>1, Parameters, FS_Subset, FS_CardinalityType
<1>3. m \in Nat /\ m <= n
  BY <1>1, <1>2, FS_Subset, FS_CardinalityType
<1>4. N \in Nat /\ Threshold \in Nat
  BY Parameters
<1>5. Breached(hours, d) <=> 100 * n < Threshold * N
  BY DEF Breached
<1>6. Breached(hours, d + 1) <=> 100 * m < Threshold * N
  BY DEF Breached
<1> HIDE DEF n, m, N
<1>7. ASSUME 100 * n < Threshold * N PROVE 100 * m < Threshold * N
  <2>1. 100 * m <= 100 * n /\ Threshold * N \in Nat
    BY <1>2, <1>3, <1>4
  <2> QED
    BY <1>2, <1>3, <1>7, <2>1
<1> QED
  BY <1>2, <1>4, <1>5, <1>6, <1>7 DEF n, N

\* After a day, what had been a day further is covered.
LEMMA DayLater ==
    ASSUME Foreseeable, NEW hours \in [Channels -> Nat],
           NEW later, later = [c \in Channels |-> Aged(hours[c])], NEW d \in Nat
    PROVE  Breached(later, d) <=> Breached(hours, d + 1)
<1>1. ASSUME NEW h \in Nat
      PROVE  Aged(h) >= CoverHalves + 2 * d <=> h >= CoverHalves + 2 * (d + 1)
  BY Parameters DEF Aged, Foreseeable
<1>2. \A c \in Important : later[c] = Aged(hours[c]) /\ hours[c] \in Nat
  BY Parameters
<1>3. CoveredBy(later, d) = CoveredBy(hours, d + 1)
  BY <1>1, <1>2 DEF CoveredBy
<1> QED
  BY <1>3 DEF Breached

\* EPG reaches no further than broadcasters send it.
InReach(hours) == \A c \in Channels : hours[c] < CoverHalves + 2 * MaxDays

LEMMA ForecastFacts ==
    ASSUME Foreseeable, NEW hours \in [Channels -> Nat], InReach(hours)
    PROVE  /\ Forecast(hours) \in 0..MaxDays /\ Breached(hours, Forecast(hours))
           /\ \A d \in 0..MaxDays : Breached(hours, d) => Forecast(hours) <= d
<1> DEFINE breached == {d \in 0..MaxDays : Breached(hours, d)}
<1>1. CoveredBy(hours, MaxDays) = {}
  <2>1. ASSUME NEW c \in Important PROVE ~(hours[c] >= CoverHalves + 2 * MaxDays)
    <3>1. hours[c] < CoverHalves + 2 * MaxDays /\ hours[c] \in Nat
      BY Parameters DEF InReach
    <3> QED
      BY <3>1, Parameters
  <2> QED
    BY <2>1 DEF CoveredBy
<1>2. Breached(hours, MaxDays)
  <2>1. Cardinality(CoveredBy(hours, MaxDays)) = 0
    BY <1>1, FS_EmptySet
  <2>2. ASSUME NEW t \in Nat, t > 0, NEW N \in Nat \ {0} PROVE t * N > 0
    BY <2>2
  <2>3. Threshold * Cardinality(Important) > 0
    BY <2>2, Parameters DEF Foreseeable
  <2> QED
    BY <2>1, <2>3 DEF Breached
<1>3. MaxDays \in breached /\ breached \in SUBSET Nat
  BY <1>2, Parameters
<1>4. Forecast(hours) = First(breached)
  BY <1>3 DEF Forecast
<1>5. First(breached) \in breached /\ \A d \in breached : First(breached) <= d
  BY <1>3, FirstIsLeast
<1> QED
  BY <1>4, <1>5

\* The number counts down.
LEMMA CountsDown ==
    ASSUME Foreseeable, NEW hours \in [Channels -> Nat], InReach(hours),
           NEW later \in [Channels -> Nat], InReach(later),
           later = [c \in Channels |-> Aged(hours[c])]
    PROVE  \/ Forecast(later) + 1 = Forecast(hours)
           \/ Forecast(later) = 0 /\ Forecast(hours) = 0
<1> DEFINE before == Forecast(hours)
           after == Forecast(later)
<1>1. /\ before \in 0..MaxDays /\ Breached(hours, before)
      /\ \A d \in 0..MaxDays : Breached(hours, d) => before <= d
  BY ForecastFacts
<1>2. /\ after \in 0..MaxDays /\ Breached(later, after)
      /\ \A d \in 0..MaxDays : Breached(later, d) => after <= d
  BY ForecastFacts
<1>3. \A d \in Nat : Breached(later, d) <=> Breached(hours, d + 1)
  BY DayLater
<1> HIDE DEF before, after
<1>4. CASE before = 0
  <2>1. Breached(hours, 0 + 1)
    BY <1>1, <1>4, CoverageFalls
  <2>2. Breached(later, 0) /\ 0 \in 0..MaxDays
    BY <1>3, <2>1, Parameters
  <2> QED
    BY <1>2, <1>4, <2>2 DEF before, after
<1>5. CASE before # 0
  <2>1. before - 1 \in 0..MaxDays /\ before - 1 \in Nat /\ (before - 1) + 1 = before
    BY <1>1, <1>5, Parameters
  <2>2. Breached(later, before - 1)
    BY <1>1, <1>3, <2>1
  <2>3. after <= before - 1
    BY <1>2, <2>1, <2>2
  <2>4. Breached(hours, after + 1) /\ after \in Nat
    BY <1>2, <1>3, Parameters
  <2>5. after + 1 \in 0..MaxDays
    BY <1>1, <1>2, <2>3, Parameters
  <2>6. before <= after + 1
    BY <1>1, <2>4, <2>5
  <2> QED
    BY <1>1, <1>2, <2>3, <2>6, Parameters DEF before, after
<1> QED
  BY <1>4, <1>5

\* Rounding a share that reaches the threshold never puts it below, and one
\* that misses it by more than half a percent stays below.
LEMMA PercentFacts ==
    ASSUME NEW n \in Nat, NEW N \in Nat \ {0}, NEW t \in Nat
    PROVE  /\ 100 * n >= t * N => Percent(n, N) >= t
           /\ 200 * n < (2 * t - 1) * N => Percent(n, N) < t
<1> DEFINE doubled == (200 * n) \div N
           p == Percent(n, N)
<1>1. doubled \in Int /\ N * doubled <= 200 * n /\ 200 * n < N * (doubled + 1)
  OBVIOUS
<1> HIDE DEF doubled
<1>2. p = IF doubled * N = 200 * n /\ doubled % 2 = 1
          THEN 2 * ((doubled + 1) \div 4) ELSE (doubled + 1) \div 2
  BY DEF Percent, doubled
<1> HIDE DEF p
<1>3. ASSUME 100 * n >= t * N PROVE doubled >= 2 * t
  <2> SUFFICES ASSUME doubled + 1 <= 2 * t PROVE FALSE
    BY <1>1
  <2>1. N * (doubled + 1) <= N * (2 * t)
    BY <1>1
  <2>2. N * (2 * t) = 2 * (t * N) /\ t * N \in Nat
    OBVIOUS
  <2> QED
    BY <1>1, <1>3, <2>1, <2>2
<1>4. ASSUME 200 * n < (2 * t - 1) * N PROVE doubled < 2 * t - 1
  <2> SUFFICES ASSUME doubled >= 2 * t - 1 PROVE FALSE
    BY <1>1
  <2>1. N * doubled >= N * (2 * t - 1)
    BY <1>1
  <2>2. N * (2 * t - 1) = (2 * t - 1) * N
    OBVIOUS
  <2> QED
    BY <1>1, <1>4, <2>1, <2>2
<1>5. ASSUME doubled >= 2 * t PROVE p >= t
  BY <1>1, <1>2, <1>5
<1>6. ASSUME doubled < 2 * t - 1 PROVE p < t
  BY <1>1, <1>2, <1>6
<1> QED
  BY <1>3, <1>4, <1>5, <1>6 DEF p

LEMMA ReachStart == Foreseeable /\ Init => InReach(ahead)
<1> SUFFICES ASSUME Foreseeable, Init, NEW c \in Channels
             PROVE  ahead[c] < CoverHalves + 2 * MaxDays
  BY DEF InReach
<1>1. ahead[c] \in Depths \cup {0}
  BY DEF Init
<1>2. 0 < CoverHalves + 2 * MaxDays
  BY Parameters DEF Foreseeable
<1> QED
  BY <1>1, <1>2 DEF Foreseeable

LEMMA ReachStep == Foreseeable /\ SweepInv /\ InReach(ahead) /\ [Next]_vars => InReach(ahead')
<1> SUFFICES ASSUME Foreseeable, SweepInv, InReach(ahead), [Next]_vars
             PROVE  InReach(ahead')
  OBVIOUS
<1>1. ahead \in [Channels -> Nat]
  BY DEF SweepInv, TypeOK
<1>2. ASSUME NEW j \in Jobs, Fetches(j) PROVE InReach(ahead')
  <2>1. PICK d \in Depths :
           ahead' = [ahead EXCEPT ![NextChannel(job[j])] =
                        IF d > ahead[NextChannel(job[j])] THEN d
                        ELSE ahead[NextChannel(job[j])]]
    BY <1>2 DEF Fetches
  <2>2. d < CoverHalves + 2 * MaxDays
    BY DEF Foreseeable
  <2> QED
    BY <1>1, <2>1, <2>2 DEF InReach
<1>3. CASE Day
  <2>1. \A h \in Nat : Aged(h) \in Nat /\ Aged(h) <= h
    BY DEF Aged
  <2>2. ASSUME NEW c \in Channels PROVE ahead'[c] < CoverHalves + 2 * MaxDays
    <3>1. ahead'[c] = Aged(ahead[c]) /\ ahead[c] \in Nat
      BY <1>1, <1>3 DEF Day
    <3>2. ahead[c] < CoverHalves + 2 * MaxDays
      BY DEF InReach
    <3>3. ahead'[c] \in Nat /\ ahead'[c] <= ahead[c]
      BY <2>1, <3>1
    <3> QED
      BY <3>1, <3>2, <3>3, Parameters
  <2> QED
    BY <2>2 DEF InReach
<1>4. CASE UNCHANGED ahead
  BY <1>4 DEF InReach
<1> QED
  BY <1>2, <1>3, <1>4 DEF Next, RefreshStarts, NightStarts, LooksAt, Skips, RunRaises,
                          BoxSwitched, Restart, vars

\* The night the forecast is 0 is one in which too little is covered.
LEMMA NightOfForecast ==
    ASSUME Foreseeable, SweepInv, InReach(ahead)
    PROVE  /\ NightWakes => DaysUntilForcedScan = 0
           /\ NoNearMiss => (NightWakes <=> DaysUntilForcedScan = 0)
<1> DEFINE n == Cardinality(CoveredBy(ahead, 0))
           N == Cardinality(Important)
<1>1. ahead \in [Channels -> Nat]
  BY DEF SweepInv, TypeOK
<1>2. n \in 0..N /\ N \in Nat \ {0} /\ n \in Nat /\ Threshold \in Nat
  BY <1>1, CoverageFalls, Parameters
<1>3. DaysUntilForcedScan = 0 <=> Breached(ahead, 0)
  <2>1. /\ DaysUntilForcedScan \in 0..MaxDays /\ Breached(ahead, DaysUntilForcedScan)
        /\ \A d \in 0..MaxDays : Breached(ahead, d) => DaysUntilForcedScan <= d
    BY <1>1, ForecastFacts, ForecastIs
  <2>2. 0 \in 0..MaxDays
    BY Parameters
  <2> QED
    BY <2>1, <2>2
<1>4. Breached(ahead, 0) <=> 100 * n < Threshold * N
  BY DEF Breached
<1>5. NightWakes <=> Percent(n, N) < Threshold
  BY ForecastIs DEF NightWakes
<1> HIDE DEF n
<1>6. /\ 100 * n >= Threshold * N => Percent(n, N) >= Threshold
      /\ 200 * n < (2 * Threshold - 1) * N => Percent(n, N) < Threshold
  BY <1>2, PercentFacts
<1>7. Percent(n, N) \in Int
  <2>1. (200 * n) \div N \in Int
    BY <1>2
  <2> QED
    BY <2>1 DEF Percent
<1>8. NightWakes => Breached(ahead, 0)
  <2>1. ASSUME 100 * n >= Threshold * N PROVE ~NightWakes
    BY <1>2, <1>5, <1>6, <1>7, <2>1
  <2>2. 100 * n \in Nat /\ Threshold * N \in Nat
    BY <1>2
  <2> QED
    BY <1>4, <2>1, <2>2
<1>9. ASSUME NoNearMiss, Breached(ahead, 0) PROVE NightWakes
  BY <1>2, <1>4, <1>5, <1>6, <1>9 DEF NoNearMiss
<1> QED
  BY <1>3, <1>8, <1>9

ForecastStep ==
    /\ Day => \/ DaysUntilForcedScan' + 1 = DaysUntilForcedScan
              \/ DaysUntilForcedScan' = 0 /\ DaysUntilForcedScan = 0
    /\ \A j \in Jobs : NightStarts(j) => (NightWakes <=> DaysUntilForcedScan = 0)

Reach == InReach(ahead)

LEMMA ReachInvariant == Foreseeable => (Spec => []Reach)
<1>1. Foreseeable /\ Init => Reach
  BY ReachStart DEF Reach
<1>2. Foreseeable /\ SweepInv /\ Reach /\ [Next]_vars => Reach'
  BY ReachStep DEF Reach, InReach
<1>3. Foreseeable => []Foreseeable
  <2> SUFFICES ASSUME Foreseeable PROVE []Foreseeable
    OBVIOUS
  <2> QED
    BY PTL DEF Foreseeable
<1> QED
  BY <1>1, <1>2, <1>3, SweepInvariant, PTL DEF Spec

\* The number the administrator is told counts down by one a day, unless EPG
\* comes in, and the nightly job wakes boxes exactly when it says 0, for any
\* boxes, line-ups, important channels and broadcasters whose schedules max_days
\* can see the end of, if no share of the important channels is within half a
\* percent below the threshold (epg.py:489-553, poller.py:345-361).
THEOREM ForecastIsKept == Foreseeable /\ NoNearMiss => (Spec => ForecastKept)
<1>1. Foreseeable /\ NoNearMiss /\ SweepInv /\ Reach /\ SweepInv' /\ Reach' => ForecastStep
  <2> SUFFICES ASSUME Foreseeable, NoNearMiss, SweepInv, Reach, SweepInv', Reach'
               PROVE  ForecastStep
    OBVIOUS
  <2>1. /\ ahead \in [Channels -> Nat] /\ ahead' \in [Channels -> Nat]
        /\ InReach(ahead) /\ InReach(ahead')
    BY DEF SweepInv, TypeOK, Reach, InReach
  <2>2. Day => ahead' = [c \in Channels |-> Aged(ahead[c])]
    BY DEF Day
  <2>3. Day => \/ DaysUntilForcedScan' + 1 = DaysUntilForcedScan
               \/ DaysUntilForcedScan' = 0 /\ DaysUntilForcedScan = 0
    BY <2>1, <2>2, CountsDown, ForecastIs
  <2> QED
    BY <2>1, <2>3, NightOfForecast DEF ForecastStep
<1>2. Foreseeable /\ NoNearMiss => [](Foreseeable /\ NoNearMiss)
  <2> SUFFICES ASSUME Foreseeable /\ NoNearMiss PROVE [](Foreseeable /\ NoNearMiss)
    OBVIOUS
  <2> QED
    BY PTL DEF Foreseeable, NoNearMiss
<1>3. (Spec => [][ForecastStep]_vars) => (Spec => ForecastKept)
  BY DEF ForecastStep, ForecastKept
<1> QED
  BY <1>1, <1>2, <1>3, SweepInvariant, ReachInvariant, PTL

\* However coverage is rounded, the nightly job wakes no box while the forecast
\* still gives it a day (epg.py:489-553, poller.py:345-361).
THEOREM NoWakeBeforeForecast ==
    Foreseeable => (Spec => [](NightWakes => DaysUntilForcedScan = 0))
<1>1. Foreseeable /\ SweepInv /\ Reach => (NightWakes => DaysUntilForcedScan = 0)
  BY NightOfForecast DEF Reach
<1>2. Foreseeable => []Foreseeable
  <2> SUFFICES ASSUME Foreseeable PROVE []Foreseeable
    OBVIOUS
  <2> QED
    BY PTL DEF Foreseeable
<1> QED
  BY <1>1, <1>2, SweepInvariant, ReachInvariant, PTL

=============================================================================
