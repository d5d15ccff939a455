---------------------------- MODULE EpgWakeProofs ----------------------------
(***************************************************************************)
(* Proofs about EpgWake: types and mutual exclusion of the two jobs in     *)
(* general; that no job touches a box in use when no answer is lost and    *)
(* nobody acts between a check and what rests on it; that no box stays on. *)
(***************************************************************************)
EXTENDS EpgWake, TLAPS

\* At changes what it says and nothing else.
LEMMA AtTyped ==
    ASSUME NEW j \in JobState, NEW p \in Phases, NEW c \in Receivers \cup {None},
           NEW t \in SUBSET Receivers
    PROVE  /\ At(j, p, c, t) \in JobState
           /\ At(j, p, c, t).phase = p
           /\ At(j, p, c, t).cur = c
           /\ At(j, p, c, t).todo = t
  <1>1. (c # None /\ ~Up(c)) \in BOOLEAN
    OBVIOUS
  <1> QED
    BY <1>1 DEF At, JobState

\* At a box, a job is blind if the box is silent.
LEMMA AtBlind ==
    ASSUME NEW j, NEW p, NEW c \in Receivers, NEW t
    PROVE  At(j, p, c, t).blind <=> ~Up(c)
  <1>1. c # None
    BY ReceiversAssumption
  <1> QED
    BY <1>1 DEF At

LEMMA IdleTyped == Idle \in JobState /\ Idle.phase = "idle"
  BY DEF Idle, JobState, Phases

LEMMA FieldsTyped ==
    ASSUME NEW j \in JobState
    PROVE  /\ j.phase \in Phases
           /\ j.cur \in Receivers \cup {None}
           /\ j.todo \in SUBSET Receivers
           /\ j.woken \in SUBSET Receivers
  BY DEF JobState

LEMMA GoTyped ==
    ASSUME NEW k \in Jobs, NEW j \in JobState, TypeOK, Go(k, j)
    PROVE  job' \in [Jobs -> JobState]
  BY DEF TypeOK, Go

\* Where a job goes from the end of a tour.
LEMMA TourOverTyped ==
    ASSUME NEW k \in Jobs, NEW a \in BOOLEAN, TypeOK, TourOver(k, a)
    PROVE  /\ job' \in [Jobs -> JobState]
           /\ cool' \in [Receivers -> BOOLEAN]
           /\ harvested' \in [Receivers -> BOOLEAN]
  <1>1. job[k] \in JobState
    BY DEF TypeOK
  <1> DEFINE n == At(job[k], "prime", None, job[k].todo \ {job[k].cur})
             s == At(job[k], IF a THEN "sweepCut" ELSE "sweep", job[k].cur, job[k].todo)
  <1>2. n \in JobState
    <2>1. job[k].todo \ {job[k].cur} \in SUBSET Receivers
      BY <1>1, FieldsTyped
    <2> QED
      BY <1>1, <2>1, AtTyped DEF Phases
  <1>3. s \in JobState
    <2>1. (IF a THEN "sweepCut" ELSE "sweep") \in Phases
      BY DEF Phases
    <2> QED
      BY <1>1, <2>1, AtTyped, FieldsTyped
  <1>4. CASE k = "nightly"
    <2>1. Go(k, n) /\ cool' = [cool EXCEPT ![job[k].cur] = TRUE]
          /\ harvested' = [harvested EXCEPT ![job[k].cur] = @ \/ ~a]
      BY <1>4 DEF TourOver
    <2>2. cool' \in [Receivers -> BOOLEAN]
      BY <2>1 DEF TypeOK
    <2>3. harvested' \in [Receivers -> BOOLEAN]
      BY <2>1 DEF TypeOK
    <2> QED
      BY <1>2, <2>1, <2>2, <2>3, GoTyped
  <1>5. CASE k # "nightly"
    <2>1. Go(k, s) /\ UNCHANGED <<cool, harvested>>
      BY <1>5 DEF TourOver
    <2> QED
      BY <1>3, <2>1, GoTyped DEF TypeOK
  <1> QED
    BY <1>4, <1>5


\* Every step of the two jobs leaves their states well-typed.
LEMMA JobsTyped ==
    ASSUME TypeOK, Next
    PROVE  job' \in [Jobs -> JobState]
  <1> DEFINE n == job["nightly"]
             o == job["opportunistic"]
  <1>1. /\ n \in JobState /\ o \in JobState /\ Idle \in JobState
        /\ "nightly" \in Jobs /\ "opportunistic" \in Jobs
    BY IdleTyped DEF TypeOK, Jobs
  <1>2. \A j \in JobState, p \in Phases, c \in Receivers \cup {None},
           t \in SUBSET Receivers : At(j, p, c, t) \in JobState
    BY AtTyped
  <1>3. \A j \in JobState : /\ j.phase \in Phases
                            /\ j.cur \in Receivers \cup {None}
                            /\ j.todo \in SUBSET Receivers
                            /\ j.woken \in SUBSET Receivers
                            /\ \A r \in Receivers : j.todo \ {r} \in SUBSET Receivers
    BY FieldsTyped
  <1>4. \A k \in Jobs, j \in JobState : Go(k, j) => job' \in [Jobs -> JobState]
    BY GoTyped
  <1>5. job \in [Jobs -> JobState]
    BY DEF TypeOK
  <1>6. \A k \in Jobs, a \in BOOLEAN : TourOver(k, a) => job' \in [Jobs -> JobState]
    BY TourOverTyped

  <1>7. CASE NightBegins
    BY <1>1, <1>2, <1>3, <1>4, <1>7 DEF NightBegins, Phases

  <1>8. CASE NightTakesLock
    BY <1>1, <1>2, <1>3, <1>4, <1>8 DEF NightTakesLock, Phases

  <1>9. CASE NightPrimes
    BY <1>1, <1>2, <1>3, <1>4, <1>9 DEF NightPrimes, Phases

  <1>10. CASE NightSwept
    BY <1>1, <1>2, <1>3, <1>4, <1>10 DEF NightSwept, Phases

  <1>11. CASE NightEnds
    BY <1>1, <1>2, <1>3, <1>4, <1>11 DEF NightEnds, Phases

  <1>12. CASE TourBegins
    BY <1>1, <1>2, <1>3, <1>4, <1>12 DEF TourBegins, Phases

  <1>13. CASE TourAsksFirst
    BY <1>1, <1>2, <1>3, <1>4, <1>13 DEF TourAsksFirst, Phases

  <1>14. CASE TourSwept
    BY <1>1, <1>2, <1>3, <1>4, <1>14 DEF TourSwept, Phases

  <1>15. CASE TourRoundEnds
    BY <1>1, <1>2, <1>3, <1>4, <1>15 DEF TourRoundEnds, Phases

  <1>16. ASSUME NEW r \in Receivers, NightSkipsOnline(r) PROVE job' \in [Jobs -> JobState]
    BY <1>1, <1>2, <1>3, <1>4, <1>5, <1>16 DEF NightSkipsOnline, Phases

  <1>17. ASSUME NEW r \in Receivers, NightPowersOn(r) PROVE job' \in [Jobs -> JobState]
    BY <1>1, <1>2, <1>3, <1>4, <1>5, <1>17 DEF NightPowersOn, Phases

  <1>18. ASSUME NEW r \in Receivers, NightResends(r) PROVE job' \in [Jobs -> JobState]
    BY <1>1, <1>2, <1>3, <1>4, <1>5, <1>18 DEF NightResends, Phases

  <1>19. ASSUME NEW r \in Receivers, NightPutsInStandby(r) PROVE job' \in [Jobs -> JobState]
    <2> DEFINE a == At(n, "wake", None, n.todo \ {r})
    <2>1. a \in JobState
      BY <1>1, <1>2, <1>3 DEF Phases
    <2>2. WithWoken(n, r) \in SUBSET Receivers
      BY <1>1, <1>3 DEF WithWoken
    <2>3. Go("nightly", [a EXCEPT !.woken = WithWoken(n, r)])
      BY <1>19 DEF NightPutsInStandby
    <2> HIDE DEF a
    <2>4. [a EXCEPT !.woken = WithWoken(n, r)] \in JobState
      BY <2>1, <2>2 DEF JobState
    <2> QED
      BY <1>1, <1>4, <2>3, <2>4

  <1>20. ASSUME NEW r \in Receivers, NightGivesUp(r) PROVE job' \in [Jobs -> JobState]
    BY <1>1, <1>2, <1>3, <1>4, <1>5, <1>20 DEF NightGivesUp, Phases

  <1>21. ASSUME NEW r \in Receivers, CutsMains(r) PROVE job' \in [Jobs -> JobState]
    BY <1>1, <1>2, <1>3, <1>4, <1>5, <1>21 DEF CutsMains, Phases

  <1>22. ASSUME NEW r \in Receivers, NightAsksPower(r) PROVE job' \in [Jobs -> JobState]
    BY <1>1, <1>2, <1>3, <1>4, <1>5, <1>22 DEF NightAsksPower, Phases

  <1>23. ASSUME NEW r \in Receivers, NightAsksRecording(r) PROVE job' \in [Jobs -> JobState]
    BY <1>1, <1>2, <1>3, <1>4, <1>5, <1>23 DEF NightAsksRecording, Phases

  <1>24. ASSUME NEW r \in Receivers, TourSkips(r) PROVE job' \in [Jobs -> JobState]
    BY <1>1, <1>2, <1>3, <1>4, <1>5, <1>24 DEF TourSkips, Phases

  <1>25. ASSUME NEW r \in Receivers, TourPicks(r) PROVE job' \in [Jobs -> JobState]
    BY <1>1, <1>2, <1>3, <1>4, <1>5, <1>25 DEF TourPicks, Phases

  <1>26. ASSUME NEW r \in Receivers, CooldownEnds(r) PROVE job' \in [Jobs -> JobState]
    BY <1>1, <1>2, <1>3, <1>4, <1>5, <1>26 DEF CooldownEnds, Phases

  <1>27. ASSUME NEW r \in Receivers, Booted(r) PROVE job' \in [Jobs -> JobState]
    BY <1>1, <1>2, <1>3, <1>4, <1>5, <1>27 DEF Booted, Phases

  <1>28. ASSUME NEW r \in Receivers, UserSwitchesOn(r) PROVE job' \in [Jobs -> JobState]
    BY <1>1, <1>2, <1>3, <1>4, <1>5, <1>28 DEF UserSwitchesOn, Phases

  <1>29. ASSUME NEW r \in Receivers, UserSwitchesOff(r) PROVE job' \in [Jobs -> JobState]
    BY <1>1, <1>2, <1>3, <1>4, <1>5, <1>29 DEF UserSwitchesOff, Phases

  <1>30. ASSUME NEW r \in Receivers, TimerStarts(r) PROVE job' \in [Jobs -> JobState]
    BY <1>1, <1>2, <1>3, <1>4, <1>5, <1>30 DEF TimerStarts, Phases

  <1>31. ASSUME NEW r \in Receivers, TimerEnds(r) PROVE job' \in [Jobs -> JobState]
    BY <1>1, <1>2, <1>3, <1>4, <1>5, <1>31 DEF TimerEnds, Phases

  <1>32. ASSUME NEW k \in Jobs, TourAsksPower(k) PROVE job' \in [Jobs -> JobState]
    BY <1>2, <1>3, <1>4, <1>5, <1>6, <1>32 DEF TourAsksPower, Phases

  <1>33. ASSUME NEW k \in Jobs, TourZaps(k) PROVE job' \in [Jobs -> JobState]
    BY <1>2, <1>3, <1>4, <1>5, <1>6, <1>33 DEF TourZaps, Phases

  <1>34. ASSUME NEW k \in Jobs, TourGoesOn(k) PROVE job' \in [Jobs -> JobState]
    BY <1>2, <1>3, <1>4, <1>5, <1>6, <1>34 DEF TourGoesOn, Phases

  <1>35. ASSUME NEW k \in Jobs, TourEnds(k) PROVE job' \in [Jobs -> JobState]
    BY <1>2, <1>3, <1>4, <1>5, <1>6, <1>35 DEF TourEnds, Phases

  <1>36. ASSUME NEW k \in Jobs, TourFails(k) PROVE job' \in [Jobs -> JobState]
    BY <1>2, <1>3, <1>4, <1>5, <1>6, <1>36 DEF TourFails, Phases

  <1>37. CASE Restart
    BY <1>1, <1>37 DEF Restart

  <1> QED
    BY <1>7, <1>8, <1>9, <1>10, <1>11, <1>12, <1>13, <1>14, <1>15, <1>16, <1>17, <1>18, <1>19, <1>20, <1>21, <1>22, <1>23, <1>24, <1>25, <1>26, <1>27, <1>28, <1>29, <1>30, <1>31, <1>32, <1>33, <1>34, <1>35, <1>36, <1>37 DEF Next, Night, Opportunistic, Touring, Outside


\* Every step leaves the boxes and the rest well-typed.
LEMMA RestTyped ==
    ASSUME TypeOK, Next
    PROVE  /\ box' \in [Receivers -> {"off", "booting", "on", "standby", "deep"}]
           /\ watching' \in [Receivers -> BOOLEAN]
           /\ rec' \in [Receivers -> BOOLEAN]
           /\ ours' \in [Receivers -> BOOLEAN]
           /\ lock' \in Jobs \cup {None}
           /\ cool' \in [Receivers -> BOOLEAN]
           /\ harvested' \in [Receivers -> BOOLEAN]
           /\ crashes' \in 0..MaxCrashes
  <1> DEFINE States == {"off", "booting", "on", "standby", "deep"}
             BoxesTyped == /\ box' \in [Receivers -> States]
                           /\ watching' \in [Receivers -> BOOLEAN]
                           /\ rec' \in [Receivers -> BOOLEAN]
                           /\ ours' \in [Receivers -> BOOLEAN]
             HarvestTyped == /\ cool' \in [Receivers -> BOOLEAN]
                             /\ harvested' \in [Receivers -> BOOLEAN]
             LockTyped == lock' \in Jobs \cup {None} /\ crashes' \in 0..MaxCrashes
             Typed == BoxesTyped /\ HarvestTyped /\ LockTyped
  <1> SUFFICES Typed
    OBVIOUS
  <1>1. SameBoxes => BoxesTyped
    BY DEF SameBoxes, TypeOK
  <1>2. UNCHANGED <<cool, harvested>> => HarvestTyped
    BY DEF TypeOK
  <1>3. UNCHANGED <<lock, crashes>> => LockTyped
    BY DEF TypeOK
  <1>4. \A r \in Receivers : Standby(r) => /\ box' \in [Receivers -> States]
                                           /\ watching' \in [Receivers -> BOOLEAN]
    BY DEF Standby, Box, TypeOK
  <1>5. \A r \in Receivers : PowerOn(r) => /\ box' \in [Receivers -> States]
                                           /\ ours' \in [Receivers -> BOOLEAN]
    BY DEF PowerOn, Box, TypeOK
  <1>6. \A r \in Receivers : RetireSent(r) => /\ box' \in [Receivers -> States]
                                              /\ watching' \in [Receivers -> BOOLEAN]
                                              /\ rec' \in [Receivers -> BOOLEAN]
    BY <1>4 DEF RetireSent, Retire, Box, TypeOK
  <1>7. CASE NightBegins \/ NightPrimes \/ NightSwept \/ TourAsksFirst
    BY <1>1, <1>2, <1>3, <1>7 DEF NightBegins, NightPrimes, NightSwept, TourAsksFirst
  <1>8. CASE NightTakesLock \/ NightEnds \/ TourBegins \/ TourRoundEnds
    BY <1>1, <1>2, <1>8 DEF NightTakesLock, NightEnds, TourBegins, TourRoundEnds, Jobs, TypeOK
  <1>9. CASE TourSwept
    BY <1>1, <1>3, <1>9 DEF TourSwept, TypeOK
  <1>10. CASE Restart
    BY <1>1, <1>10, EnvironmentAssumption DEF Restart, TypeOK
  <1>11. ASSUME NEW r \in Receivers,
                \/ NightSkipsOnline(r) \/ NightAsksPower(r)
                \/ TourSkips(r) \/ TourPicks(r)
         PROVE  Typed
    BY <1>1, <1>2, <1>3, <1>11
       DEF NightSkipsOnline, NightAsksPower, TourSkips, TourPicks
  <1>12. ASSUME NEW r \in Receivers, NightPowersOn(r) \/ NightResends(r)
         PROVE  Typed
    BY <1>2, <1>3, <1>5, <1>12 DEF NightPowersOn, NightResends, TypeOK
  <1>13. ASSUME NEW r \in Receivers, NightPutsInStandby(r)
         PROVE  Typed
    BY <1>2, <1>3, <1>4, <1>13 DEF NightPutsInStandby, TypeOK
  <1>14. ASSUME NEW r \in Receivers, NightGivesUp(r) PROVE Typed
    BY <1>2, <1>3, <1>6, <1>14 DEF NightGivesUp, TypeOK
  <1>15. ASSUME NEW r \in Receivers, NightAsksRecording(r) PROVE Typed
    BY <1>2, <1>3, <1>6, <1>15 DEF NightAsksRecording, TypeOK
  <1>16. ASSUME NEW r \in Receivers, CutsMains(r) PROVE Typed
    BY <1>1, <1>2, <1>3, <1>16 DEF CutsMains, Box, TypeOK
  <1>17. ASSUME NEW r \in Receivers, CooldownEnds(r) PROVE Typed
    BY <1>1, <1>3, <1>17 DEF CooldownEnds, TypeOK
  <1>18. ASSUME NEW r \in Receivers,
                \/ Booted(r) \/ UserSwitchesOn(r) \/ UserSwitchesOff(r)
                \/ TimerStarts(r) \/ TimerEnds(r)
         PROVE  Typed
    BY <1>2, <1>3, <1>18
       DEF Booted, UserSwitchesOn, UserSwitchesOff, TimerStarts, TimerEnds, Box, TypeOK
  <1>19. ASSUME NEW k \in Jobs,
                \/ TourAsksPower(k) \/ TourZaps(k) \/ TourGoesOn(k)
                \/ TourEnds(k) \/ TourFails(k)
         PROVE  Typed
    <2>1. \A a \in BOOLEAN : TourOver(k, a) => HarvestTyped
      BY TourOverTyped
    <2> QED
      BY <1>1, <1>2, <1>3, <1>19, <2>1
         DEF TourAsksPower, TourZaps, TourGoesOn, TourEnds, TourFails
  <1> HIDE DEF BoxesTyped, HarvestTyped, LockTyped
  <1>20. CASE Night
    BY <1>7, <1>8, <1>11, <1>12, <1>13, <1>14, <1>15, <1>16, <1>20 DEF Night
  <1>21. CASE Opportunistic
    BY <1>7, <1>8, <1>9, <1>11, <1>21 DEF Opportunistic
  <1>22. CASE Touring
    BY <1>19, <1>22 DEF Touring
  <1>23. CASE Outside
    BY <1>10, <1>17, <1>18, <1>23 DEF Outside
  <1> QED
    BY <1>20, <1>21, <1>22, <1>23 DEF Next

LEMMA InitTyped == Init => TypeOK
  BY IdleTyped, EnvironmentAssumption, ReceiversAssumption DEF Init, TypeOK

LEMMA StepTyped == TypeOK /\ [Next]_vars => TypeOK'
  <1> SUFFICES ASSUME TypeOK, [Next]_vars PROVE TypeOK'
    OBVIOUS
  <1>1. CASE Next
    BY <1>1, JobsTyped, RestTyped DEF TypeOK
  <1>2. CASE UNCHANGED vars
    BY <1>2 DEF TypeOK, vars
  <1> QED
    BY <1>1, <1>2

\* The boxes, the people, the lock and the two coroutines stay in their types,
\* whatever is lost and whoever acts when: no job ends up with a box that is
\* not one of the receivers to wake (poller.py:332-454).
THEOREM TypeCorrect == Spec => []TypeOK
  BY InitTyped, StepTyped, PTL DEF Spec


LEMMA NoneIsNoJob == None \notin Jobs
  BY ReceiversAssumption

\* What a step of one job does to the states of both.
LEMMA GoMoves ==
    ASSUME NEW k \in Jobs, NEW j \in JobState, TypeOK, Go(k, j)
    PROVE  job'[k] = j /\ \A o \in Jobs \ {k} : job'[o] = job[o]
  BY DEF Go, TypeOK

\* A step of the job that has the lock keeps it.
LEMMA LockKept ==
    ASSUME NEW k \in Jobs, NEW j \in JobState, TypeOK, OneTour, Go(k, j),
           Busy(k), j.phase \notin {"idle", "lock"}, lock' = lock
    PROVE  OneTour'
  BY GoMoves DEF OneTour, Busy, Jobs

LEMMA StepOneTour ==
    ASSUME TypeOK, OneTour, Next
    PROVE  OneTour'
  <1> DEFINE n == job["nightly"]
             o == job["opportunistic"]
             Still == {"idle", "lock"}
  <1>1. /\ n \in JobState /\ o \in JobState /\ Idle \in JobState
        /\ "nightly" \in Jobs /\ "opportunistic" \in Jobs
        /\ Idle.phase = "idle"
    BY IdleTyped DEF TypeOK, Jobs
  <1>2. \A j \in JobState, p \in Phases, c \in Receivers \cup {None},
           t \in SUBSET Receivers :
           At(j, p, c, t) \in JobState /\ At(j, p, c, t).phase = p
    BY AtTyped
  <1>3. \A j \in JobState : /\ j.phase \in Phases
                            /\ j.cur \in Receivers \cup {None}
                            /\ j.todo \in SUBSET Receivers
                            /\ j.woken \in SUBSET Receivers
                            /\ \A r \in Receivers : j.todo \ {r} \in SUBSET Receivers
    BY FieldsTyped
  <1>4. \A k \in Jobs, j \in JobState, p \in Phases, c \in Receivers \cup {None},
           t \in SUBSET Receivers :
           Go(k, At(j, p, c, t)) => (Busy(k) /\ lock' = lock /\ p \notin Still => OneTour')
    BY <1>2, LockKept
  <1>5. UNCHANGED <<job, lock>> => OneTour'
    BY DEF OneTour, Busy
  <1>6. \A k \in Jobs : job[k] \in JobState
    BY DEF TypeOK
  <1>7. \A k \in Jobs, j \in JobState :
           Go(k, j) => job'[k] = j /\ \A b \in Jobs \ {k} : job'[b] = job[b]
    BY GoMoves

  <1>8. CASE NightBegins
    <2>1. Go("nightly", At(Idle, "lock", None, {})) /\ lock' = lock /\ n.phase = "idle"
      BY <1>8 DEF NightBegins
    <2>2. job'["nightly"].phase = "lock" /\ job'["opportunistic"] = o
      BY <1>1, <1>2, <1>7, <2>1 DEF Phases, Jobs
    <2> QED
      BY <2>1, <2>2 DEF OneTour, Busy, Jobs
  <1>9. CASE NightTakesLock
    <2>1. lock' = "nightly" /\ lock = None
      BY <1>9 DEF NightTakesLock
    <2>2. job'["nightly"].phase \in {"sweep", "wake"} /\ job'["opportunistic"] = o
      BY <1>1, <1>2, <1>7, <1>9 DEF NightTakesLock, Phases, Jobs
    <2> QED
      BY <2>1, <2>2, NoneIsNoJob DEF OneTour, Busy, Jobs
  <1>10. CASE NightEnds
    <2>1. job'["nightly"] = Idle /\ job'["opportunistic"] = o
      BY <1>1, <1>7, <1>10 DEF NightEnds, Jobs
    <2>2. Busy("nightly") /\ lock' = None
      BY <1>10 DEF NightEnds, Busy
    <2> QED
      BY <1>1, <2>1, <2>2, NoneIsNoJob DEF OneTour, Busy, Jobs
  <1>11. CASE TourBegins
    <2>1. lock' = "opportunistic" /\ lock = None
      BY <1>11 DEF TourBegins, LockFree
    <2>2. job'["opportunistic"].phase = "wake" /\ job'["nightly"] = n
      BY <1>1, <1>2, <1>7, <1>11 DEF TourBegins, Phases, Jobs
    <2> QED
      BY <2>1, <2>2, NoneIsNoJob DEF OneTour, Busy, Jobs
  <1>12. CASE TourRoundEnds
    <2>1. job'["opportunistic"] = Idle /\ job'["nightly"] = n
      BY <1>1, <1>7, <1>12 DEF TourRoundEnds, Jobs
    <2>2. Busy("opportunistic") /\ lock' = None
      BY <1>12 DEF TourRoundEnds, Busy
    <2> QED
      BY <1>1, <2>1, <2>2, NoneIsNoJob DEF OneTour, Busy, Jobs
  <1>13. CASE Restart
    <2>1. \A k \in Jobs : ~Busy(k)'
      BY <1>1, <1>13 DEF Restart, Busy
    <2> QED
      BY <2>1, <1>13, NoneIsNoJob DEF OneTour, Restart, Jobs

  <1>14. CASE NightPrimes
    BY <1>1, <1>3, <1>4, <1>14 DEF NightPrimes, Phases, Busy
  <1>15. CASE NightSwept
    BY <1>1, <1>3, <1>4, <1>15 DEF NightSwept, Phases, Busy
  <1>16. CASE TourAsksFirst
    <2> DEFINE skip == At(o, "wake", None, o.todo \ {o.cur})
    <2>1. \/ Go("opportunistic", skip)
          \/ Go("opportunistic", At(o, "claimRec", o.cur, o.todo))
          \/ Go("opportunistic", At(o, "tour", o.cur, o.todo))
      BY <1>16 DEF TourAsksFirst
    <2>2. /\ o.todo \ {o.cur} \in SUBSET Receivers
          /\ o.todo \in SUBSET Receivers /\ o.cur \in Receivers \cup {None}
          /\ {"wake", "claimRec", "tour"} \subseteq Phases \ Still
      BY <1>1, <1>3 DEF Phases
    <2>3. Busy("opportunistic") /\ lock' = lock
      BY <1>16 DEF TourAsksFirst, Busy
    <2>4. CASE Go("opportunistic", skip)
      BY <1>1, <1>4, <2>2, <2>3, <2>4
    <2> HIDE DEF skip
    <2> QED
      BY <1>1, <1>4, <2>1, <2>2, <2>3, <2>4
  <1>17. CASE TourSwept
    <2>1. o.todo \ {o.cur} \in SUBSET Receivers
      BY <1>1, <1>3
    <2>2. /\ Go("opportunistic", At(o, "wake", None, o.todo \ {o.cur}))
          /\ Busy("opportunistic") /\ lock' = lock
      BY <1>17 DEF TourSwept, Busy
    <2> QED
      BY <1>1, <1>4, <2>1, <2>2 DEF Phases
  <1>18. ASSUME NEW r \in Receivers, NightSkipsOnline(r) PROVE OneTour'
    BY <1>1, <1>3, <1>4, <1>18 DEF NightSkipsOnline, Phases, Busy
  <1>19. ASSUME NEW r \in Receivers, NightPowersOn(r) PROVE OneTour'
    BY <1>1, <1>3, <1>4, <1>19 DEF NightPowersOn, Phases, Busy
  <1>20. ASSUME NEW r \in Receivers, NightGivesUp(r) PROVE OneTour'
    BY <1>1, <1>3, <1>4, <1>20 DEF NightGivesUp, Phases, Busy
  <1>21. ASSUME NEW r \in Receivers, CutsMains(r) PROVE OneTour'
    BY <1>1, <1>3, <1>4, <1>21 DEF CutsMains, Phases, Busy
  <1>22. ASSUME NEW r \in Receivers, NightAsksPower(r) PROVE OneTour'
    BY <1>1, <1>3, <1>4, <1>22 DEF NightAsksPower, Phases, Busy
  <1>23. ASSUME NEW r \in Receivers, NightAsksRecording(r) PROVE OneTour'
    BY <1>1, <1>3, <1>4, <1>23 DEF NightAsksRecording, Phases, Busy
  <1>24. ASSUME NEW r \in Receivers, TourSkips(r) PROVE OneTour'
    BY <1>1, <1>3, <1>4, <1>24 DEF TourSkips, Phases, Busy
  <1>25. ASSUME NEW r \in Receivers, TourPicks(r) PROVE OneTour'
    BY <1>1, <1>3, <1>4, <1>25 DEF TourPicks, Phases, Busy
  <1>26. ASSUME NEW r \in Receivers, NightPutsInStandby(r) PROVE OneTour'
    <2> DEFINE a == At(n, "wake", None, n.todo \ {r})
               b == [a EXCEPT !.woken = WithWoken(n, r)]
    <2>1. a \in JobState /\ a.phase = "wake"
      <3>1. n.todo \ {r} \in SUBSET Receivers /\ "wake" \in Phases
        BY <1>1, <1>3 DEF Phases
      <3> QED
        BY <1>1, <3>1, AtTyped
    <2>2. WithWoken(n, r) \in SUBSET Receivers
      BY <1>1, <1>3 DEF WithWoken
    <2>3. Go("nightly", b) /\ n.phase = "boot" /\ lock' = lock
      BY <1>26 DEF NightPutsInStandby
    <2> HIDE DEF a
    <2>4. b \in JobState /\ b.phase = "wake"
      BY <2>1, <2>2 DEF JobState
    <2> HIDE DEF b
    <2> QED
      BY <1>1, <2>3, <2>4, LockKept DEF Busy
  <1>27. ASSUME NEW r \in Receivers,
                \/ NightResends(r) \/ CooldownEnds(r) \/ Booted(r)
                \/ UserSwitchesOn(r) \/ UserSwitchesOff(r)
                \/ TimerStarts(r) \/ TimerEnds(r)
         PROVE  OneTour'
    BY <1>5, <1>27 DEF NightResends, CooldownEnds, Booted, UserSwitchesOn, UserSwitchesOff, TimerStarts, TimerEnds
  <1>28. ASSUME NEW k \in Jobs,
                \/ TourAsksPower(k) \/ TourZaps(k) \/ TourGoesOn(k)
                \/ TourEnds(k) \/ TourFails(k)
         PROVE  OneTour'
    <2>1. job[k].phase \in {"tour", "tourRec", "dwell"} /\ lock' = lock
      BY <1>28 DEF TourAsksPower, TourZaps, TourGoesOn, TourEnds, TourFails
    <2>2. ASSUME NEW a \in BOOLEAN, TourOver(k, a) PROVE OneTour'
      <3>1. PICK p \in {"prime", "sweep", "sweepCut"}, c \in Receivers \cup {None},
                 t \in SUBSET Receivers : Go(k, At(job[k], p, c, t))
        <4>1. job[k].todo \ {job[k].cur} \in SUBSET Receivers
          BY <1>3, <1>6
        <4> QED
          BY <1>3, <1>6, <2>2, <4>1 DEF TourOver
      <3> QED
        BY <1>4, <1>6, <2>1, <3>1 DEF Phases, Busy
    <2>3. ASSUME NEW p \in {"tour", "tourRec", "dwell"},
                 Go(k, At(job[k], p, job[k].cur, job[k].todo))
          PROVE  OneTour'
      BY <1>3, <1>4, <1>6, <2>1, <2>3 DEF Phases, Busy
    <2> QED
      BY <1>28, <2>2, <2>3
         DEF TourAsksPower, TourZaps, TourGoesOn, TourEnds, TourFails
  <1>a. CASE Night
    BY <1>8, <1>9, <1>10, <1>14, <1>15, <1>18, <1>19, <1>20, <1>21,
       <1>22, <1>23, <1>26, <1>27, <1>a DEF Night
  <1>b. CASE Opportunistic
    BY <1>11, <1>12, <1>16, <1>17, <1>24, <1>25, <1>b DEF Opportunistic
  <1>c. CASE Touring
    BY <1>28, <1>c DEF Touring
  <1>d. CASE Outside
    BY <1>13, <1>27, <1>d DEF Outside
  <1> QED
    BY <1>a, <1>b, <1>c, <1>d DEF Next

LEMMA InitOneTour == Init => OneTour
  BY IdleTyped, NoneIsNoJob DEF Init, OneTour, Busy, Jobs

\* The nightly job and the opportunistic one never handle boxes at the same
\* time, whatever is lost, whoever acts when and however often the process is
\* restarted (poller.py:27-29, 341, 418-420).
THEOREM MutualExclusion == Spec => []OneTour
  <1>1. TypeOK /\ OneTour /\ [Next]_vars => OneTour'
    <2> SUFFICES ASSUME TypeOK, OneTour, [Next]_vars PROVE OneTour'
      OBVIOUS
    <2>1. CASE Next
      BY <2>1, StepOneTour
    <2>2. CASE UNCHANGED vars
      BY <2>2 DEF OneTour, Busy, vars
    <2> QED
      BY <2>1, <2>2
  <1> QED
    BY <1>1, InitOneTour, TypeCorrect, PTL DEF Spec

-----------------------------------------------------------------------------
(* Nobody's picture and nobody's recording.                                *)

\* No answer is lost, and nobody acts between a check and what rests on it.
Orderly == ~Losses /\ ~UserMidCheck

LEMMA JobNames == "nightly" \in Jobs /\ "opportunistic" \in Jobs
  BY DEF Jobs

LEMMA Unused ==
    ASSUME UseNeedsPower, NEW r \in Receivers
    PROVE  /\ box[r] \in {"off", "deep", "standby"} => ~watching[r]
           /\ box[r] \in {"off", "deep"} => ~rec[r]
  <1>1. watching[r] => box[r] = "on" \/ box[r] = "booting"
    BY Zenon DEF UseNeedsPower
  <1>2. rec[r] => box[r] = "on" \/ box[r] = "standby"
    BY Zenon DEF UseNeedsPower, Up
  <1> QED
    BY <1>1, <1>2

\* No step turns a box on for a viewer, or lets one record, that has no power.
LEMMA StepUse ==
    ASSUME TypeOK, UseNeedsPower, Next
    PROVE  UseNeedsPower'
  <1>1. SameBoxes => UseNeedsPower'
    BY DEF SameBoxes, UseNeedsPower, Up
  <1>2. UNCHANGED <<box, watching, rec>> => UseNeedsPower'
    BY DEF UseNeedsPower, Up
  <1>3. ASSUME NEW r \in Receivers, Standby(r), UNCHANGED rec
        PROVE  UseNeedsPower'
    BY <1>3 DEF Standby, Box, UseNeedsPower, Up, TypeOK
  <1>4. ASSUME NEW r \in Receivers, PowerOn(r), UNCHANGED <<watching, rec>>
        PROVE  UseNeedsPower'
    <2>1. CASE UNCHANGED box
      BY <1>2, <1>4, <2>1
    <2>2. CASE box[r] \in {"off", "deep"} /\ Box(r, "booting")
      <3>1. ~rec[r] /\ ~watching[r]
        BY <2>2, Unused
      <3>2. \A q \in Receivers : box'[q] = IF q = r THEN "booting" ELSE box[q]
        BY <2>2 DEF Box, TypeOK
      <3> QED
        BY <1>4, <3>1, <3>2 DEF UseNeedsPower, Up
    <2> QED
      BY <1>4, <2>1, <2>2 DEF PowerOn
  <1>5. ASSUME NEW r \in Receivers, RetireSent(r)
        PROVE  UseNeedsPower'
    BY <1>2, <1>3, <1>5 DEF RetireSent, Retire, Box, UseNeedsPower, Up, TypeOK
  <1>6. CASE NightBegins \/ NightPrimes \/ NightSwept \/ NightTakesLock \/ NightEnds
             \/ TourAsksFirst \/ TourBegins \/ TourRoundEnds \/ TourSwept \/ Restart
    BY <1>1, <1>6 DEF NightBegins, NightPrimes, NightSwept, NightTakesLock, NightEnds,
       TourAsksFirst, TourBegins, TourRoundEnds, TourSwept, Restart
  <1>7. ASSUME NEW r \in Receivers,
               \/ NightSkipsOnline(r) \/ NightAsksPower(r)
               \/ TourSkips(r) \/ TourPicks(r) \/ CooldownEnds(r)
        PROVE  UseNeedsPower'
    BY <1>1, <1>7 DEF NightSkipsOnline, NightAsksPower, TourSkips, TourPicks, CooldownEnds
  <1>8. ASSUME NEW r \in Receivers, NightPowersOn(r) \/ NightResends(r)
        PROVE  UseNeedsPower'
    BY <1>2, <1>4, <1>8 DEF NightPowersOn, NightResends
  <1>9. ASSUME NEW r \in Receivers, NightPutsInStandby(r)
        PROVE  UseNeedsPower'
    BY <1>2, <1>3, <1>9 DEF NightPutsInStandby
  <1>10. ASSUME NEW r \in Receivers, NightGivesUp(r) \/ NightAsksRecording(r)
         PROVE  UseNeedsPower'
    BY <1>2, <1>5, <1>10 DEF NightGivesUp, NightAsksRecording
  <1>11. ASSUME NEW r \in Receivers, CutsMains(r)
         PROVE  UseNeedsPower'
    BY <1>1, <1>11 DEF CutsMains, Box, UseNeedsPower, Up, TypeOK
  <1>12. ASSUME NEW r \in Receivers, Booted(r) \/ UserSwitchesOn(r)
         PROVE  UseNeedsPower'
    BY <1>12 DEF Booted, UserSwitchesOn, Box, UseNeedsPower, Up, TypeOK
  <1>13. ASSUME NEW r \in Receivers, UserSwitchesOff(r)
         PROVE  UseNeedsPower'
    BY <1>13 DEF UserSwitchesOff, Box, UseNeedsPower, Up, TypeOK
  <1>14. ASSUME NEW r \in Receivers, TimerStarts(r) \/ TimerEnds(r)
         PROVE  UseNeedsPower'
    BY <1>14 DEF TimerStarts, TimerEnds, UseNeedsPower, Up, TypeOK
  <1>15. CASE Touring
    BY <1>1, <1>15
       DEF Touring, TourAsksPower, TourZaps, TourGoesOn, TourEnds, TourFails
  <1> QED
    BY <1>6, <1>7, <1>8, <1>9, <1>10, <1>11, <1>12, <1>13, <1>14, <1>15
       DEF Next, Night, Opportunistic, Outside

\* Nobody comes to use box r.
Calm(r) == (watching'[r] => watching[r]) /\ (rec'[r] => rec[r])

\* While a check that the box has answered stands, nobody comes to use it.
LEMMA StepCalm ==
    ASSUME TypeOK, UseNeedsPower, Orderly, Next,
           NEW c \in Receivers, Checked(c)
    PROVE  Calm(c)
  <1>1. SameBoxes => Calm(c)
    BY DEF SameBoxes, Calm
  <1>2. UNCHANGED <<box, watching, rec>> => Calm(c)
    BY DEF Calm
  <1>3. ASSUME NEW r \in Receivers, Standby(r), UNCHANGED rec
        PROVE  Calm(c)
    BY <1>3 DEF Standby, Calm, TypeOK
  <1>4. ASSUME NEW r \in Receivers, PowerOn(r), UNCHANGED <<watching, rec>>
        PROVE  Calm(c)
    BY <1>4 DEF PowerOn, Calm, TypeOK
  <1>5. ASSUME NEW r \in Receivers, RetireSent(r)
        PROVE  Calm(c)
    BY <1>2, <1>3, <1>5 DEF RetireSent, Retire, Calm, TypeOK
  <1>6. CASE NightBegins \/ NightPrimes \/ NightSwept \/ NightTakesLock \/ NightEnds
             \/ TourAsksFirst \/ TourBegins \/ TourRoundEnds \/ TourSwept \/ Restart
    BY <1>1, <1>6 DEF NightBegins, NightPrimes, NightSwept, NightTakesLock, NightEnds,
       TourAsksFirst, TourBegins, TourRoundEnds, TourSwept, Restart
  <1>7. ASSUME NEW r \in Receivers,
               \/ NightSkipsOnline(r) \/ NightAsksPower(r)
               \/ TourSkips(r) \/ TourPicks(r) \/ CooldownEnds(r)
        PROVE  Calm(c)
    BY <1>1, <1>7 DEF NightSkipsOnline, NightAsksPower, TourSkips, TourPicks, CooldownEnds
  <1>8. ASSUME NEW r \in Receivers, NightPowersOn(r) \/ NightResends(r)
        PROVE  Calm(c)
    BY <1>2, <1>4, <1>8 DEF NightPowersOn, NightResends
  <1>9. ASSUME NEW r \in Receivers, NightPutsInStandby(r)
        PROVE  Calm(c)
    BY <1>2, <1>3, <1>9 DEF NightPutsInStandby
  <1>10. ASSUME NEW r \in Receivers, NightGivesUp(r) \/ NightAsksRecording(r)
         PROVE  Calm(c)
    BY <1>2, <1>5, <1>10 DEF NightGivesUp, NightAsksRecording
  <1>11. ASSUME NEW r \in Receivers, CutsMains(r)
         PROVE  Calm(c)
    BY <1>1, <1>11 DEF CutsMains, Calm, TypeOK
  <1>12. ASSUME NEW r \in Receivers, Booted(r)
         PROVE  Calm(c)
    BY <1>12 DEF Booted, Calm, TypeOK
  <1>13. ASSUME NEW r \in Receivers, UserSwitchesOn(r) \/ TimerStarts(r)
         PROVE  Calm(c)
    <2>1. r # c
      BY <1>13 DEF UserSwitchesOn, TimerStarts, MayAct, Orderly
    <2> QED
      BY <1>13, <2>1 DEF UserSwitchesOn, TimerStarts, Calm, TypeOK
  <1>14. ASSUME NEW r \in Receivers, UserSwitchesOff(r)
         PROVE  Calm(c)
    BY <1>14 DEF UserSwitchesOff, Calm, TypeOK
  <1>15. ASSUME NEW r \in Receivers, TimerEnds(r)
         PROVE  Calm(c)
    BY <1>15 DEF TimerEnds, Calm, TypeOK
  <1>16. CASE Touring
    BY <1>1, <1>16
       DEF Touring, TourAsksPower, TourZaps, TourGoesOn, TourEnds, TourFails
  <1> QED
    BY <1>6, <1>7, <1>8, <1>9, <1>10, <1>11, <1>12, <1>13, <1>14, <1>15, <1>16
       DEF Next, Night, Opportunistic, Outside

\* What Sound will say of job k in state j, in the boxes after the step.
SoundNext(k, j) ==
    /\ j.phase \in AtBox(k) => j.cur \in Receivers
    /\ j.phase \in {"claimRec", "tourRec"} /\ ~j.blind => ~watching'[j.cur]
    /\ j.phase = "down" /\ ~j.blind => ~watching'[j.cur] /\ ~rec'[j.cur]
    /\ j.phase \in {"boot", "failed"} => j.blind

LEMMA SoundHolds ==
    ASSUME \A k \in Jobs : SoundNext(k, job'[k])
    PROVE  CheckStillGood'
  BY DEF SoundNext, CheckStillGood, Sound, AtBox

\* What was sound of a job, and the job has not changed, is so still.
LEMMA StillSound ==
    ASSUME TypeOK, IInv, Orderly, Next, NEW k \in Jobs
    PROVE  SoundNext(k, job[k])
  <1> DEFINE c == job[k].cur
  <1>1. Sound(k, job[k])
    BY DEF IInv, CheckStillGood
  <1>2. job[k].phase \in {"claimRec", "tourRec", "down"} /\ ~job[k].blind
           => c \in Receivers /\ Checked(c) /\ Calm(c)
    <2>1. SUFFICES ASSUME job[k].phase \in {"claimRec", "tourRec", "down"}, ~job[k].blind
                   PROVE  c \in Receivers /\ Checked(c) /\ Calm(c)
      OBVIOUS
    <2>2. c \in Receivers
      BY <1>1, <2>1 DEF Sound, AtBox
    <2>3. Checked(c)
      BY <2>1 DEF Checked
    <2> QED
      BY <2>2, <2>3, StepCalm DEF IInv
  <1> QED
    BY <1>1, <1>2 DEF Sound, SoundNext, Calm

\* It is enough to look at the job that moves.
LEMMA OneMoves ==
    ASSUME TypeOK, IInv, Orderly, Next,
           NEW k \in Jobs, NEW j \in JobState, Go(k, j), SoundNext(k, j)
    PROVE  CheckStillGood'
  <1>1. job'[k] = j /\ \A o \in Jobs \ {k} : job'[o] = job[o]
    BY GoMoves
  <1>2. \A o \in Jobs : SoundNext(o, job'[o])
    BY <1>1, StillSound
  <1> QED
    BY <1>2, SoundHolds

LEMMA NoneMoves ==
    ASSUME TypeOK, IInv, Orderly, Next, UNCHANGED job
    PROVE  CheckStillGood'
  BY StillSound, SoundHolds

\* The end of a tour rests on no check.
LEMMA TourOverSound ==
    ASSUME TypeOK, IInv, Orderly, Next, NEW k \in Jobs, NEW a \in BOOLEAN,
           TourOver(k, a), job[k].phase \in {"tour", "tourRec", "dwell"}
    PROVE  CheckStillGood'
  <1> DEFINE n == At(job[k], "prime", None, job[k].todo \ {job[k].cur})
             s == At(job[k], IF a THEN "sweepCut" ELSE "sweep", job[k].cur, job[k].todo)
  <1>1. job[k] \in JobState
    BY DEF TypeOK
  <1>2. job[k].cur \in Receivers
    BY DEF IInv, CheckStillGood, Sound, AtBox
  <1>3. n \in JobState /\ n.phase = "prime"
    <2>1. job[k].todo \ {job[k].cur} \in SUBSET Receivers /\ "prime" \in Phases
      BY <1>1, FieldsTyped DEF Phases
    <2> QED
      BY <1>1, <2>1, AtTyped
  <1>4. s \in JobState /\ s.phase \in {"sweep", "sweepCut"} /\ s.cur \in Receivers
    <2>1. (IF a THEN "sweepCut" ELSE "sweep") \in Phases /\ job[k].todo \in SUBSET Receivers
      BY <1>1, FieldsTyped DEF Phases
    <2> QED
      BY <1>1, <1>2, <2>1, AtTyped
  <1>5. Go(k, n) \/ Go(k, s)
    BY DEF TourOver
  <1> HIDE DEF n, s
  <1> QED
    BY <1>3, <1>4, <1>5, OneMoves DEF SoundNext, AtBox

\* A check that has been made, or is half made, still holds after every step.
LEMMA StepSound ==
    ASSUME TypeOK, IInv, Orderly, Next
    PROVE  CheckStillGood'
  <1> DEFINE n == job["nightly"]
             o == job["opportunistic"]
  <1>1. /\ n \in JobState /\ o \in JobState /\ Idle \in JobState
        /\ Idle.phase = "idle"
    BY IdleTyped, JobNames DEF TypeOK
  <1>2. \A j \in JobState, p \in Phases, c \in Receivers \cup {None},
           t \in SUBSET Receivers :
           /\ At(j, p, c, t) \in JobState /\ At(j, p, c, t).phase = p
           /\ At(j, p, c, t).cur = c
    BY AtTyped
  <1>2a. \A j \in JobState, p \in Phases, c \in Receivers, t \in SUBSET Receivers :
           At(j, p, c, t).blind <=> ~Up(c)
    BY AtBlind
  <1>3. \A j \in JobState : /\ j.cur \in Receivers \cup {None}
                            /\ j.todo \in SUBSET Receivers
                            /\ j.woken \in SUBSET Receivers
                            /\ \A r \in Receivers \cup {None} : j.todo \ {r} \in SUBSET Receivers
    BY FieldsTyped
  <1> DEFINE Loose == {"lock", "wake", "prime"}
  <1>4. \A k \in Jobs, j \in JobState, p \in Loose, c \in Receivers \cup {None},
           t \in SUBSET Receivers : Go(k, At(j, p, c, t)) => CheckStillGood'
    BY <1>2, OneMoves DEF SoundNext, AtBox, Phases
  <1>4a. \A j \in JobState, t \in SUBSET Receivers :
            At(j, "wake", None, t) \in JobState /\ At(j, "wake", None, t).phase = "wake"
    BY AtTyped DEF Phases
  <1>5. \A j \in JobState, p \in {"sweep", "claim"}, c \in Receivers \cup {None},
           t \in SUBSET Receivers : Go("nightly", At(j, p, c, t)) => CheckStillGood'
    BY <1>2, OneMoves, JobNames DEF SoundNext, AtBox, Phases
  <1>6. \A k \in Jobs, j \in JobState, p \in {"tour", "dwell"}, c \in Receivers,
           t \in SUBSET Receivers : Go(k, At(j, p, c, t)) => CheckStillGood'
    BY <1>2, OneMoves DEF SoundNext, AtBox, Phases
  <1>7. \A k \in Jobs, j \in JobState, p \in {"claimRec", "tourRec"}, c \in Receivers,
           t \in SUBSET Receivers :
           Go(k, At(j, p, c, t)) /\ (Up(c) => ~watching'[c]) => CheckStillGood'
    BY <1>2, <1>2a, OneMoves DEF SoundNext, AtBox, Phases
  <1>8. \A k \in Jobs, j \in JobState, p \in {"boot", "failed"}, c \in Receivers,
           t \in SUBSET Receivers :
           Go(k, At(j, p, c, t)) /\ ~Up(c) => CheckStillGood'
    BY <1>2, <1>2a, OneMoves DEF SoundNext, AtBox, Phases
  <1>8a. \A k \in Jobs, j \in JobState, c \in Receivers, t \in SUBSET Receivers :
           Go(k, At(j, "down", c, t)) /\ (Up(c) => ~watching'[c] /\ ~rec'[c])
              => CheckStillGood'
    BY <1>2, <1>2a, OneMoves DEF SoundNext, AtBox, Phases
  <1>9. \A r \in Receivers : \A answer \in SaysPower(r) :
           SameBoxes /\ ~Viewer(answer) => (Up(r) => ~watching'[r])
    <2> SUFFICES ASSUME NEW r \in Receivers, NEW answer \in SaysPower(r),
                        SameBoxes, ~Viewer(answer), Up(r)
                 PROVE  ~watching'[r]
      OBVIOUS
    <2>1. answer = box[r] /\ box[r] # "on"
      BY DEF SaysPower, Viewer, Orderly
    <2>2. ~watching[r]
      BY <2>1, Unused DEF IInv, Up
    <2> QED
      BY <2>2 DEF SameBoxes
  <1>10. \A k \in Jobs : /\ job[k] \in JobState
                         /\ job[k].phase \in AtBox(k) => job[k].cur \in Receivers
    BY DEF TypeOK, IInv, CheckStillGood, Sound

  <1>11. CASE NightBegins \/ NightTakesLock
    BY <1>1, <1>4, <1>5, <1>11, JobNames DEF NightBegins, NightTakesLock
  <1>12. CASE NightPrimes
    BY <1>1, <1>3, <1>4, <1>5, <1>6, <1>12, JobNames DEF NightPrimes
  <1>13. CASE NightSwept
    BY <1>1, <1>3, <1>5, <1>13 DEF NightSwept
  <1>14. CASE NightEnds \/ TourRoundEnds
    BY <1>1, <1>14, OneMoves, JobNames DEF NightEnds, TourRoundEnds, SoundNext, AtBox
  <1>15. CASE TourBegins
    BY <1>1, <1>4, <1>15, JobNames DEF TourBegins
  <1>16. CASE TourAsksFirst
    <2> DEFINE skip == At(o, "wake", None, o.todo \ {o.cur})
               claimRec == At(o, "claimRec", o.cur, o.todo)
    <2>1. o.cur \in Receivers /\ o.todo \in SUBSET Receivers
          /\ o.todo \ {o.cur} \in SUBSET Receivers
      BY <1>1, <1>3, <1>10, <1>16, JobNames DEF TourAsksFirst, AtBox
    <2>2. CASE Go("opportunistic", skip)
      BY <1>1, <1>4, <2>1, <2>2, JobNames
    <2>3. CASE Go("opportunistic", At(o, "tour", o.cur, o.todo))
      BY <1>1, <1>6, <2>1, <2>3, JobNames
    <2>4. CASE Go("opportunistic", claimRec) /\ (Up(o.cur) => ~watching'[o.cur])
      BY <1>1, <1>7, <2>1, <2>4, JobNames
    <2>5. \/ Go("opportunistic", skip)
          \/ Go("opportunistic", At(o, "tour", o.cur, o.todo))
          \/ Go("opportunistic", claimRec) /\ (Up(o.cur) => ~watching'[o.cur])
      BY <1>9, <1>16, <2>1 DEF TourAsksFirst
    <2> QED
      BY <2>2, <2>3, <2>4, <2>5
  <1>17. CASE TourSwept
    <2>1. o.todo \ {o.cur} \in SUBSET Receivers
      BY <1>1, <1>3
    <2>2. Go("opportunistic", At(o, "wake", None, o.todo \ {o.cur}))
      BY <1>17 DEF TourSwept
    <2> QED
      BY <1>1, <1>4, <2>1, <2>2, JobNames
  <1>18. CASE Restart
    BY <1>1, <1>18, SoundHolds DEF Restart, SoundNext, AtBox
  <1>19. ASSUME NEW r \in Receivers, NightSkipsOnline(r) PROVE CheckStillGood'
    <2>1. n.todo \ {r} \in SUBSET Receivers
      BY <1>1, <1>3
    <2>2. Go("nightly", At(n, "wake", None, n.todo \ {r}))
      BY <1>19 DEF NightSkipsOnline
    <2> QED
      BY <1>1, <1>4, <2>1, <2>2, JobNames
  <1>20. ASSUME NEW r \in Receivers, NightPowersOn(r) PROVE CheckStillGood'
    <2>1. ~Up(r)
      BY <1>20 DEF NightPowersOn, SaysOnline, Orderly
    <2>2. n.todo \in SUBSET Receivers /\ Go("nightly", At(n, "boot", r, n.todo))
      BY <1>1, <1>3, <1>20 DEF NightPowersOn
    <2> QED
      BY <1>1, <1>8, <2>1, <2>2, JobNames
  <1>21. ASSUME NEW r \in Receivers, NightPutsInStandby(r) PROVE CheckStillGood'
    <2> DEFINE a == At(n, "wake", None, n.todo \ {r})
               b == [a EXCEPT !.woken = WithWoken(n, r)]
    <2>1. a \in JobState /\ a.phase = "wake"
      <3>1. n.todo \ {r} \in SUBSET Receivers /\ "wake" \in Phases
        BY <1>1, <1>3 DEF Phases
      <3> QED
        BY <1>1, <1>4a, <3>1
    <2>2. WithWoken(n, r) \in SUBSET Receivers
      BY <1>1, <1>3 DEF WithWoken
    <2>3. Go("nightly", b)
      BY <1>21 DEF NightPutsInStandby
    <2> HIDE DEF a
    <2>4. b \in JobState /\ b.phase = "wake"
      BY <2>1, <2>2 DEF JobState
    <2> HIDE DEF b
    <2> QED
      BY <2>3, <2>4, OneMoves, JobNames DEF SoundNext, AtBox
  <1>22. ASSUME NEW r \in Receivers, NightGivesUp(r) PROVE CheckStillGood'
    <2>1. ~Up(r)
      BY <1>22 DEF NightGivesUp, SaysOnline, Orderly
    <2>2. n.todo \in SUBSET Receivers /\ n.todo \ {r} \in SUBSET Receivers
      BY <1>1, <1>3
    <2>3. CASE Go("nightly", At(n, "failed", r, n.todo))
      BY <1>1, <1>8, <2>1, <2>2, <2>3, JobNames
    <2>4. CASE Go("nightly", At(n, "wake", None, n.todo \ {r}))
      BY <1>1, <1>4, <2>2, <2>4, JobNames
    <2> QED
      BY <1>22, <2>3, <2>4 DEF NightGivesUp
  <1>23. ASSUME NEW r \in Receivers, CutsMains(r) PROVE CheckStillGood'
    <2>1. n.todo \ {r} \in SUBSET Receivers
      BY <1>1, <1>3
    <2> QED
      BY <1>1, <1>4, <1>5, <1>23, <2>1, JobNames DEF CutsMains
  <1>24. ASSUME NEW r \in Receivers, NightAsksPower(r) PROVE CheckStillGood'
    <2>1. n.todo \in SUBSET Receivers /\ n.todo \ {r} \in SUBSET Receivers
      BY <1>1, <1>3
    <2>2. CASE Go("nightly", At(n, "claim", None, n.todo \ {r}))
      BY <1>1, <1>5, <2>1, <2>2
    <2>3. CASE Go("nightly", At(n, "claimRec", r, n.todo)) /\ (Up(r) => ~watching'[r])
      BY <1>1, <1>7, <2>1, <2>3, JobNames
    <2> QED
      BY <1>9, <1>24, <2>2, <2>3 DEF NightAsksPower
  <1>25. ASSUME NEW r \in Receivers, NightAsksRecording(r) PROVE CheckStillGood'
    <2>1. n.todo \in SUBSET Receivers /\ n.todo \ {r} \in SUBSET Receivers
      BY <1>1, <1>3
    <2>2. CASE Go("nightly", At(n, "claim", None, n.todo \ {r}))
      BY <1>1, <1>5, <2>1, <2>2
    <2>3. CASE Go("nightly", At(n, "down", r, n.todo)) /\ RetireSent(r) /\ r \in Switched
      <3>1. Up(r) => ~watching'[r] /\ ~rec'[r]
        BY <2>3 DEF RetireSent, Retire, TypeOK, Orderly
      <3> QED
        BY <1>1, <1>8a, <2>1, <2>3, <3>1, JobNames
    <2> QED
      BY <1>25, <2>2, <2>3 DEF NightAsksRecording
  <1>26. ASSUME NEW r \in Receivers, TourSkips(r) PROVE CheckStillGood'
    <2>1. o.todo \ {r} \in SUBSET Receivers
      BY <1>1, <1>3
    <2>2. Go("opportunistic", At(o, "wake", None, o.todo \ {r}))
      BY <1>26 DEF TourSkips
    <2> QED
      BY <1>1, <1>4, <2>1, <2>2, JobNames
  <1>27. ASSUME NEW r \in Receivers, TourPicks(r) PROVE CheckStillGood'
    <2> DEFINE a == At(o, "claim", r, o.todo)
    <2>1. a \in JobState /\ a.phase = "claim" /\ a.cur = r
      BY <1>1, <1>2, <1>3 DEF Phases
    <2>2. Go("opportunistic", a)
      BY <1>27 DEF TourPicks
    <2> HIDE DEF a
    <2> QED
      BY <2>1, <2>2, OneMoves, JobNames DEF SoundNext
  <1>28. ASSUME NEW r \in Receivers,
                \/ NightResends(r) \/ CooldownEnds(r) \/ Booted(r)
                \/ UserSwitchesOn(r) \/ UserSwitchesOff(r)
                \/ TimerStarts(r) \/ TimerEnds(r)
         PROVE  CheckStillGood'
    BY <1>28, NoneMoves DEF NightResends, CooldownEnds, Booted, UserSwitchesOn,
       UserSwitchesOff, TimerStarts, TimerEnds
  <1>29. ASSUME NEW k \in Jobs,
                \/ TourAsksPower(k) \/ TourZaps(k) \/ TourGoesOn(k)
                \/ TourEnds(k) \/ TourFails(k)
         PROVE  CheckStillGood'
    <2> DEFINE c == job[k].cur
               t == job[k].todo
    <2>1. job[k].phase \in {"tour", "tourRec", "dwell"}
      BY <1>29 DEF TourAsksPower, TourZaps, TourGoesOn, TourEnds, TourFails
    <2>2. job[k] \in JobState /\ c \in Receivers /\ t \in SUBSET Receivers
      BY <1>3, <1>10, <2>1 DEF AtBox
    <2>3. ASSUME NEW a \in BOOLEAN, TourOver(k, a) PROVE CheckStillGood'
      BY <2>1, <2>3, TourOverSound
    <2>4. ASSUME NEW p \in {"tour", "dwell"}, Go(k, At(job[k], p, c, t))
          PROVE  CheckStillGood'
      BY <1>6, <2>2, <2>4
    <2>5. CASE TourAsksPower(k)
      <3>1. PICK answer \in SaysPower(c) :
                IF Viewer(answer) THEN TourOver(k, TRUE)
                ELSE Go(k, At(job[k], "tourRec", c, t))
        BY <2>5 DEF TourAsksPower
      <3>2. CASE ~Viewer(answer)
        <4>1. Up(c) => ~watching'[c]
          BY <1>9, <2>2, <2>5, <3>2 DEF TourAsksPower
        <4> QED
          BY <1>7, <2>2, <3>1, <3>2, <4>1
      <3> QED
        BY <2>3, <3>1, <3>2
    <2>6. CASE TourZaps(k) \/ TourGoesOn(k)
      BY <2>3, <2>4, <2>6 DEF TourZaps, TourGoesOn
    <2>7. CASE TourEnds(k) \/ TourFails(k)
      BY <2>3, <2>7 DEF TourEnds, TourFails
    <2> QED
      BY <1>29, <2>5, <2>6, <2>7
  <1> QED
    BY <1>11, <1>12, <1>13, <1>14, <1>15, <1>16, <1>17, <1>18, <1>19, <1>20,
       <1>21, <1>22, <1>23, <1>24, <1>25, <1>26, <1>27, <1>28, <1>29
       DEF Next, Night, Opportunistic, Touring, Outside

LEMMA InitIInv == Init => IInv
  <1> SUFFICES ASSUME Init PROVE IInv
    OBVIOUS
  <1>1. UseNeedsPower
    BY DEF Init, UseNeedsPower, Up
  <1>2. CheckStillGood
    BY IdleTyped DEF Init, CheckStillGood, Sound, AtBox
  <1> QED
    BY <1>1, <1>2, InitTyped, InitOneTour DEF IInv

LEMMA StepIInv == Orderly /\ IInv /\ [Next]_vars => IInv'
  <1> SUFFICES ASSUME Orderly, IInv, [Next]_vars PROVE IInv'
    OBVIOUS
  <1>1. TypeOK /\ TypeOK'
    BY StepTyped DEF IInv
  <1>2. CASE Next
    BY <1>1, <1>2, StepOneTour, StepUse, StepSound DEF IInv
  <1>3. CASE UNCHANGED vars
    BY <1>1, <1>3
       DEF vars, IInv, OneTour, Busy, UseNeedsPower, CheckStillGood, Sound, Up
  <1> QED
    BY <1>2, <1>3

\* When answers arrive and nobody acts between a check and what rests on it,
\* each check is still right when the job acts on it (poller.py:369-374,
\* 435-440; epg.py:384-415; power.py).
THEOREM ChecksStayGood == Orderly => (Spec => []IInv)
  <1>1. Orderly => []Orderly
    <2> SUFFICES ASSUME Orderly PROVE []Orderly
      OBVIOUS
    <2> QED
      BY PTL DEF Orderly
  <1> QED
    BY <1>1, InitIInv, StepIInv, PTL DEF Spec

\* A step of a job leaves a box in use as it is, if it was up when looked at.
LEMMA StepCutsNothing ==
    ASSUME Orderly, IInv, Next, job' # job, crashes' = crashes,
           NEW u \in Receivers, InUse(u), ~Blind(u)
    PROVE  box'[u] = box[u]
  <1>1. SameBoxes \/ UNCHANGED box => box'[u] = box[u]
    BY DEF SameBoxes
  <1>2. ASSUME NEW r \in Receivers, r # u, Standby(r) \/ RetireSent(r)
        PROVE  box'[u] = box[u]
    BY <1>2 DEF Standby, RetireSent, Retire, Box, IInv, TypeOK
  <1>3. \A k \in Jobs : Sound(k, job[k])
    BY DEF IInv, CheckStillGood
  <1>4. CASE NightBegins \/ NightPrimes \/ NightSwept \/ NightTakesLock \/ NightEnds
             \/ TourAsksFirst \/ TourBegins \/ TourRoundEnds \/ TourSwept
    BY <1>1, <1>4 DEF NightBegins, NightPrimes, NightSwept, NightTakesLock, NightEnds,
       TourAsksFirst, TourBegins, TourRoundEnds, TourSwept
  <1>5. ASSUME NEW r \in Receivers,
               \/ NightSkipsOnline(r) \/ NightAsksPower(r)
               \/ TourSkips(r) \/ TourPicks(r) \/ CooldownEnds(r)
        PROVE  box'[u] = box[u]
    BY <1>1, <1>5 DEF NightSkipsOnline, NightAsksPower, TourSkips, TourPicks, CooldownEnds
  <1>6. ASSUME NEW r \in Receivers, NightPowersOn(r)
        PROVE  box'[u] = box[u]
    BY <1>6 DEF NightPowersOn, PowerOn, Box, InUse, Up, IInv, TypeOK
  <1>7. ASSUME NEW r \in Receivers, NightPutsInStandby(r)
        PROVE  box'[u] = box[u]
    <2>1. r # u
      BY <1>3, <1>7, JobNames DEF NightPutsInStandby, Sound, Blind
    <2> QED
      BY <1>1, <1>2, <1>7, <2>1 DEF NightPutsInStandby
  <1>8. ASSUME NEW r \in Receivers, NightGivesUp(r)
        PROVE  box'[u] = box[u]
    <2>1. r # u
      BY <1>3, <1>8, JobNames DEF NightGivesUp, Sound, Blind
    <2> QED
      BY <1>2, <1>8, <2>1 DEF NightGivesUp
  <1>9. ASSUME NEW r \in Receivers, CutsMains(r)
        PROVE  box'[u] = box[u]
    <2>1. r # u
      BY <1>3, <1>9, JobNames DEF CutsMains, Sound, Blind, InUse
    <2> QED
      BY <1>1, <1>9, <2>1 DEF CutsMains, Box, IInv, TypeOK
  <1>10. ASSUME NEW r \in Receivers, NightAsksRecording(r)
         PROVE  box'[u] = box[u]
    <2>1. CASE UNCHANGED box
      BY <1>1, <2>1
    <2>2. CASE FALSE \in SaysRecording(r) /\ RetireSent(r)
      <3>1. ~Blind(r) => ~watching[r]
        BY <1>3, <1>10, JobNames DEF NightAsksRecording, Sound, Blind
      <3>2. ~Blind(r) => ~InUse(r)
        BY <2>2, <3>1 DEF SaysRecording, InUse, Orderly
      <3> QED
        BY <1>2, <2>2, <3>2
    <2> QED
      BY <1>10, <2>1, <2>2 DEF NightAsksRecording, SaysRecording
  <1>11. CASE Touring
    BY <1>1, <1>11
       DEF Touring, TourAsksPower, TourZaps, TourGoesOn, TourEnds, TourFails
  <1>12. ASSUME NEW r \in Receivers,
                \/ NightResends(r) \/ Booted(r) \/ UserSwitchesOn(r)
                \/ UserSwitchesOff(r) \/ TimerStarts(r) \/ TimerEnds(r)
         PROVE  FALSE
    BY <1>12 DEF NightResends, Booted, UserSwitchesOn, UserSwitchesOff, TimerStarts, TimerEnds
  <1>13. ~Restart
    BY DEF Restart, IInv, TypeOK
  <1> QED
    BY <1>4, <1>5, <1>6, <1>7, <1>8, <1>9, <1>10, <1>11, <1>12, <1>13
       DEF Next, Night, Opportunistic, Outside

\* No job takes the picture from somebody who is watching or the power from a
\* recording, unless the box was silent when the job looked (poller.py:369-374,
\* 469-472; client.py:206-214).
THEOREM NothingInUseIsCut == Orderly => (Spec => NeverCutInUse)
  <1>1. Orderly => []Orderly
    <2> SUFFICES ASSUME Orderly PROVE []Orderly
      OBVIOUS
    <2> QED
      BY PTL DEF Orderly
  <1>2. Orderly /\ IInv /\ [Next]_vars =>
           [\A r \in Receivers :
               InUse(r) /\ ~Blind(r) /\ job' # job /\ crashes' = crashes
                  => box'[r] = box[r]]_vars
    BY StepCutsNothing
  <1> QED
    BY <1>1, <1>2, ChecksStayGood, PTL DEF Spec, NeverCutInUse

\* No job changes the channel of a box somebody is watching, unless the box was
\* silent when the job looked (epg.py:398-402).
THEOREM NobodyIsZapped == Orderly => (Spec => NeverZapInUse)
  <1>1. IInv => \A k \in Jobs : job[k].phase = "tourRec"
                                  => ~watching[job[k].cur] \/ job[k].blind
    BY DEF IInv, CheckStillGood, Sound
  <1>2. IInv /\ [Next]_vars =>
           [\A k \in Jobs :
               job[k].phase = "tourRec" /\ job'[k].phase = "dwell"
                  => ~watching[job[k].cur] \/ job[k].blind]_vars
    BY <1>1
  <1> QED
    BY <1>2, ChecksStayGood, PTL DEF Spec, NeverZapInUse

-----------------------------------------------------------------------------
(* Nothing stays on.                                                       *)

\* In hand of the nightly job in state j: box r, which is in state b, is being
\* booted, given up or put away, or sleeps lightly and is on the list of those
\* to be put away.
InHand(j, r, b) ==
    \/ j.phase \in {"boot", "failed", "down"} /\ j.cur = r
    \/ /\ b = "standby"
       /\ \/ /\ j.phase \in {"wake", "boot", "failed", "prime", "tour", "tourRec",
                             "dwell", "sweep"}
             /\ r \in j.woken
          \/ j.phase \in {"claim", "claimRec", "down"} /\ r \in j.todo

Asleep(r) == box[r] \in {"off", "deep"}

\* A box behind a mains switch that the job switched on is nobody's yet, and
\* sleeps or is in the job's hands.
Accounted ==
    \A r \in Switched :
        ours[r] /\ crashes = 0
            => ~watching[r] /\ (Asleep(r) \/ InHand(job["nightly"], r, box[r]))

\* The power-on command makes the job's own a box that nobody waits for.
LEMMA PoweredOn ==
    ASSUME TypeOK, UseNeedsPower, NEW r \in Receivers, PowerOn(r)
    PROVE  ours' = ours \/ ~watching[r]
  <1>1. CASE UNCHANGED ours
    BY <1>1
  <1>2. CASE box[r] \in {"off", "deep"}
    BY <1>2, Unused
  <1> QED
    BY <1>1, <1>2 DEF PowerOn

\* Every step leaves each of these boxes accounted for.
LEMMA StepAccounted ==
    ASSUME ~Losses, TypeOK, UseNeedsPower, Accounted, Next
    PROVE  Accounted'
  <1> SUFFICES ASSUME NEW u \in Switched, ours'[u], crashes' = 0
               PROVE  /\ ~watching'[u]
                      /\ \/ box'[u] \in {"off", "deep"}
                         \/ InHand(job'["nightly"], u, box'[u])
    BY DEF Accounted, Asleep, InHand
  <1> DEFINE n == job["nightly"]
             Sleeps == box[u] \in {"off", "deep"}
             Sleeps2 == box'[u] \in {"off", "deep"}
             Goal == /\ ~watching'[u]
                     /\ Sleeps2 \/ InHand(job'["nightly"], u, box'[u])
  <1>0. u \in Receivers /\ n \in JobState /\ "nightly" \in Jobs
    BY ReceiversAssumption, JobNames DEF TypeOK
  <1>1. n.todo \subseteq Receivers /\ n.woken \subseteq Receivers /\ None \notin Receivers
        /\ n.cur \in Receivers \cup {None}
    BY <1>0, FieldsTyped, ReceiversAssumption
  <1>2. ours[u] /\ crashes = 0 => ~watching[u] /\ (Sleeps \/ InHand(n, u, box[u]))
    BY DEF Accounted, Asleep
  <1>3. \A p \in Phases, c \in Receivers \cup {None}, t \in SUBSET Receivers :
           /\ At(n, p, c, t) \in JobState /\ At(n, p, c, t).phase = p
           /\ At(n, p, c, t).cur = c /\ At(n, p, c, t).todo = t
           /\ At(n, p, c, t).woken = n.woken
    BY <1>0, AtTyped DEF At
  <1>4. \A j \in JobState : Go("nightly", j) => job'["nightly"] = j
    BY <1>0, GoMoves
  <1>5. ~Restart
    BY EnvironmentAssumption DEF Restart, TypeOK
  <1>6. \A j \in JobState :
           /\ Go("nightly", j) /\ SameBoxes /\ crashes' = crashes
           /\ ours[u] /\ InHand(n, u, box[u]) => InHand(j, u, box[u])
           => Goal
    BY <1>2, <1>4 DEF SameBoxes
  <1>7. /\ UNCHANGED <<box, watching, ours, crashes>> /\ job'["nightly"] = n
        => Goal
    BY <1>2
  <1> HIDE DEF n
  <1>8. CASE NightBegins
    <2> DEFINE j == At(Idle, "lock", None, {})
    <2>1. j \in JobState
      BY IdleTyped, AtTyped DEF Phases
    <2>2. n.phase = "idle" /\ Go("nightly", j) /\ SameBoxes /\ crashes' = crashes
      BY <1>8 DEF NightBegins, n
    <2> HIDE DEF j
    <2> QED
      BY <1>6, <2>1, <2>2 DEF InHand
  <1>9. CASE NightTakesLock
    <2>1. PICK j \in JobState : Go("nightly", j)
      <3>1. /\ At(Idle, "sweep", None, {}) \in JobState
            /\ At(Idle, "wake", None, Receivers) \in JobState
        BY IdleTyped, AtTyped DEF Phases
      <3> QED
        BY <1>9, <3>1 DEF NightTakesLock
    <2>2. n.phase = "lock" /\ SameBoxes /\ crashes' = crashes
      BY <1>9 DEF NightTakesLock, n
    <2> QED
      BY <1>6, <2>1, <2>2 DEF InHand
  <1>10. CASE NightPrimes
    <2>1. SameBoxes /\ crashes' = crashes
      BY <1>10 DEF NightPrimes
    <2>2. PICK p \in {"prime", "tour", "sweep"}, c \in Receivers \cup {None},
               t \in SUBSET Receivers :
               n.phase \in {"wake", "prime"} /\ Go("nightly", At(n, p, c, t))
      BY <1>1, <1>10 DEF NightPrimes, n
    <2>3. /\ At(n, p, c, t) \in JobState /\ At(n, p, c, t).phase = p
          /\ At(n, p, c, t).woken = n.woken
      BY <1>3 DEF Phases
    <2> QED
      BY <1>6, <2>1, <2>2, <2>3 DEF InHand
  <1>11. CASE NightSwept
    <2>1. /\ SameBoxes /\ crashes' = crashes /\ n.phase = "sweep"
          /\ Go("nightly", At(n, "claim", None, n.woken))
      BY <1>11 DEF NightSwept, n
    <2>2. /\ At(n, "claim", None, n.woken) \in JobState
          /\ At(n, "claim", None, n.woken).phase = "claim"
          /\ At(n, "claim", None, n.woken).todo = n.woken
      BY <1>1, <1>3 DEF Phases
    <2> QED
      BY <1>6, <2>1, <2>2 DEF InHand
  <1>12. CASE NightEnds
    <2>1. /\ SameBoxes /\ crashes' = crashes /\ n.phase = "claim" /\ n.todo = {}
          /\ Go("nightly", Idle)
      BY <1>12 DEF NightEnds, n
    <2> QED
      BY <1>6, <2>1, IdleTyped DEF InHand
  <1>13. CASE TourBegins \/ TourAsksFirst \/ TourSwept \/ TourRoundEnds
    <2>1. job'["nightly"] = n
      BY <1>13 DEF TourBegins, TourAsksFirst, TourSwept, TourRoundEnds, Go, TypeOK, n, Jobs
    <2>2. SameBoxes /\ crashes' = crashes
      BY <1>13 DEF TourBegins, TourAsksFirst, TourSwept, TourRoundEnds
    <2> QED
      BY <1>7, <2>1, <2>2 DEF SameBoxes
  <1>14. ASSUME NEW r \in Receivers, TourSkips(r) \/ TourPicks(r)
         PROVE  Goal
    <2>1. job'["nightly"] = n
      BY <1>14 DEF TourSkips, TourPicks, Go, TypeOK, n, Jobs
    <2> QED
      BY <1>7, <1>14, <2>1 DEF TourSkips, TourPicks, SameBoxes
  <1>15. ASSUME NEW r \in Receivers, NightSkipsOnline(r)
         PROVE  Goal
    <2>1. /\ SameBoxes /\ crashes' = crashes /\ n.phase = "wake"
          /\ Go("nightly", At(n, "wake", None, n.todo \ {r}))
      BY <1>15 DEF NightSkipsOnline, n
    <2>2. n.todo \ {r} \in SUBSET Receivers /\ "wake" \in Phases
      BY <1>1 DEF Phases
    <2> DEFINE j == At(n, "wake", None, n.todo \ {r})
    <2>3. j \in JobState /\ j.phase = "wake" /\ j.woken = n.woken
      BY <1>3, <2>2
    <2>4. Go("nightly", j)
      BY <2>1
    <2> HIDE DEF j
    <2> QED
      BY <1>6, <2>1, <2>3, <2>4 DEF InHand
  <1>16. ASSUME NEW r \in Receivers, NightPowersOn(r)
         PROVE  Goal
    <2> DEFINE j == At(n, "boot", r, n.todo)
    <2>1. /\ n.phase = "wake" /\ Go("nightly", j) /\ UNCHANGED <<watching, crashes>>
          /\ PowerOn(r) \/ UNCHANGED <<box, ours>>
      BY <1>16 DEF NightPowersOn, n
    <2>2. j \in JobState /\ j.phase = "boot" /\ j.cur = r /\ j.woken = n.woken
      BY <1>1, <1>3 DEF Phases
    <2> HIDE DEF j
    <2>3. job'["nightly"] = j
      BY <1>4, <2>1, <2>2
    <2>4. CASE UNCHANGED <<box, ours>>
      BY <1>2, <2>1, <2>2, <2>3, <2>4 DEF InHand
    <2>5. CASE PowerOn(r)
      <3>1. u # r => box'[u] = box[u] /\ ours'[u] = ours[u]
        BY <1>0, <2>5 DEF PowerOn, Box, TypeOK
      <3>2. u = r => ~watching[u]
        BY <1>2, <2>1, <2>5, PoweredOn
      <3>3. CASE u = r
        BY <2>1, <2>2, <2>3, <3>2, <3>3 DEF InHand
      <3>4. CASE u # r
        BY <1>2, <2>1, <2>2, <2>3, <3>1, <3>4 DEF InHand
      <3> QED
        BY <3>3, <3>4
    <2> QED
      BY <2>1, <2>4, <2>5
  <1>17. ASSUME NEW r \in Receivers, NightResends(r)
         PROVE  Goal
    <2>1. /\ n.phase = "boot" /\ n.cur = r /\ job' = job /\ PowerOn(r)
          /\ UNCHANGED <<watching, crashes>>
      BY <1>17 DEF NightResends, n
    <2>2. u # r => box'[u] = box[u] /\ ours'[u] = ours[u]
      BY <1>0, <2>1 DEF PowerOn, Box, TypeOK
    <2>3. u = r => ~watching[u]
      BY <1>2, <2>1, PoweredOn
    <2>4. job'["nightly"] = n
      BY <2>1 DEF n
    <2> QED
      BY <1>2, <2>1, <2>2, <2>3, <2>4 DEF InHand
  <1>18. ASSUME NEW r \in Receivers, NightPutsInStandby(r)
         PROVE  Goal
    <2> DEFINE a == At(n, "wake", None, n.todo \ {r})
               j == [a EXCEPT !.woken = WithWoken(n, r)]
    <2>1. /\ n.phase = "boot" /\ n.cur = r /\ Standby(r) /\ Go("nightly", j)
          /\ UNCHANGED <<ours, crashes>>
      BY <1>18 DEF NightPutsInStandby, n
    <2>2. n.todo \ {r} \in SUBSET Receivers /\ "wake" \in Phases
      BY <1>1 DEF Phases
    <2>3. a \in JobState /\ a.phase = "wake"
      BY <1>3, <2>2
    <2> HIDE DEF a
    <2>4. WithWoken(n, r) = n.woken \cup {r} /\ WithWoken(n, r) \subseteq Receivers
      BY <1>1 DEF WithWoken
    <2>5. j \in JobState /\ j.phase = "wake" /\ j.woken = n.woken \cup {r}
      BY <2>3, <2>4 DEF JobState
    <2> HIDE DEF j
    <2>6. job'["nightly"] = j
      BY <1>4, <2>1, <2>5
    <2>7. /\ box'[r] = "standby" /\ ~watching'[r]
          /\ u # r => box'[u] = box[u] /\ watching'[u] = watching[u]
      BY <1>0, <2>1 DEF Standby, Box, TypeOK
    <2>8. CASE u = r
      BY <2>5, <2>6, <2>7, <2>8 DEF InHand
    <2>9. CASE u # r
      BY <1>2, <2>1, <2>5, <2>6, <2>7, <2>9 DEF InHand
    <2> QED
      BY <2>8, <2>9
  <1>19. ASSUME NEW r \in Receivers, NightGivesUp(r)
         PROVE  Goal
    <2>1. /\ n.phase = "boot" /\ n.cur = r /\ UNCHANGED <<ours, crashes>>
          /\ FALSE \in SaysOnline(r) /\ RetireSent(r)
          /\ IF r \in Switched THEN Go("nightly", At(n, "failed", r, n.todo))
             ELSE Go("nightly", At(n, "wake", None, n.todo \ {r}))
      BY <1>19 DEF NightGivesUp, n
    <2>2. box' = box /\ watching' = watching
      BY <2>1 DEF SaysOnline, RetireSent, Retire
    <2>3. n.todo \ {r} \in SUBSET Receivers /\ "wake" \in Phases /\ "failed" \in Phases
      BY <1>1 DEF Phases
    <2>4. CASE r \in Switched
      <3> DEFINE j == At(n, "failed", r, n.todo)
      <3>1. /\ j \in JobState /\ j.phase = "failed" /\ j.cur = r /\ j.woken = n.woken
            /\ Go("nightly", j)
        BY <1>1, <1>3, <2>1, <2>3, <2>4
      <3> HIDE DEF j
      <3>2. job'["nightly"] = j
        BY <1>4, <3>1
      <3> QED
        BY <1>2, <2>1, <2>2, <3>1, <3>2 DEF InHand
    <2>5. CASE r \notin Switched
      <3> DEFINE j == At(n, "wake", None, n.todo \ {r})
      <3>1. /\ j \in JobState /\ j.phase = "wake" /\ j.woken = n.woken
            /\ Go("nightly", j) /\ u # r
        BY <1>1, <1>3, <2>1, <2>3, <2>5
      <3> HIDE DEF j
      <3>2. job'["nightly"] = j
        BY <1>4, <3>1
      <3> QED
        BY <1>2, <2>1, <2>2, <3>1, <3>2 DEF InHand
    <2> QED
      BY <2>4, <2>5
  <1>20. ASSUME NEW r \in Receivers, CutsMains(r)
         PROVE  Goal
    <2> DEFINE q == IF n.phase = "failed" THEN "wake" ELSE "claim"
               j == At(n, q, None, n.todo \ {r})
    <2>1. /\ n.phase \in {"failed", "down"} /\ n.cur = r /\ crashes' = crashes
          /\ Go("nightly", j) /\ Box(r, "off")
          /\ watching' = [watching EXCEPT ![r] = FALSE]
          /\ ours' = [ours EXCEPT ![r] = FALSE]
      BY <1>20 DEF CutsMains, n
    <2>2. n.todo \ {r} \in SUBSET Receivers /\ q \in Phases
      BY <1>1 DEF Phases
    <2>3. j \in JobState /\ j.phase = q /\ j.todo = n.todo \ {r} /\ j.woken = n.woken
      BY <1>3, <2>2
    <2> HIDE DEF j
    <2>4. job'["nightly"] = j
      BY <1>4, <2>1, <2>3
    <2>5. u # r /\ box'[u] = box[u] /\ watching'[u] = watching[u] /\ ours'[u] = ours[u]
      BY <1>0, <2>1 DEF Box, TypeOK
    <2> QED
      BY <1>2, <2>1, <2>3, <2>4, <2>5 DEF InHand
  <1>21. ASSUME NEW r \in Receivers, NightAsksPower(r)
         PROVE  Goal
    <2>1. n.phase = "claim" /\ r \in n.todo /\ SameBoxes /\ crashes' = crashes
      BY <1>21 DEF NightAsksPower, n
    <2>2. PICK answer \in SaysPower(r) :
            Go("nightly", IF Viewer(answer) THEN At(n, "claim", None, n.todo \ {r})
                          ELSE At(n, "claimRec", r, n.todo))
      BY <1>21 DEF NightAsksPower, n
    <2>3. n.todo \ {r} \in SUBSET Receivers /\ "claim" \in Phases /\ "claimRec" \in Phases
      BY <1>1 DEF Phases
    <2>4. CASE Viewer(answer)
      <3> DEFINE j == At(n, "claim", None, n.todo \ {r})
      <3>1. j \in JobState /\ j.phase = "claim" /\ j.todo = n.todo \ {r} /\ Go("nightly", j)
        BY <1>3, <2>2, <2>3, <2>4
      <3> HIDE DEF j
      <3>2. box[r] = "on"
        BY <2>2, <2>4 DEF SaysPower, Viewer
      <3>3. InHand(n, u, box[u]) => InHand(j, u, box[u])
        BY <2>1, <3>1, <3>2 DEF InHand
      <3> QED
        BY <1>6, <2>1, <3>1, <3>3
    <2>5. CASE ~Viewer(answer)
      <3> DEFINE j == At(n, "claimRec", r, n.todo)
      <3>1. j \in JobState /\ j.phase = "claimRec" /\ j.todo = n.todo /\ Go("nightly", j)
        BY <1>1, <1>3, <2>2, <2>3, <2>5
      <3> HIDE DEF j
      <3> QED
        BY <1>6, <2>1, <3>1 DEF InHand
    <2> QED
      BY <2>4, <2>5
  <1>22. ASSUME NEW r \in Receivers, NightAsksRecording(r)
         PROVE  Goal
    <2>1. n.phase = "claimRec" /\ n.cur = r /\ crashes' = crashes
      BY <1>22 DEF NightAsksRecording, n
    <2>2. n.todo \ {r} \in SUBSET Receivers /\ "claim" \in Phases /\ "down" \in Phases
      BY <1>1 DEF Phases
    <2> DEFINE j == At(n, "claim", None, n.todo \ {r})
               k == At(n, "down", r, n.todo)
    <2>3. /\ j \in JobState /\ j.phase = "claim" /\ j.todo = n.todo \ {r}
          /\ k \in JobState /\ k.phase = "down" /\ k.todo = n.todo /\ k.cur = r
      BY <1>1, <1>3, <2>2
    <2>4. \/ /\ Go("nightly", j) /\ ours' = [ours EXCEPT ![r] = FALSE]
             /\ UNCHANGED <<box, watching>>
          \/ Go("nightly", j) /\ RetireSent(r) /\ ours' = ours /\ r \notin Switched
          \/ Go("nightly", k) /\ RetireSent(r) /\ ours' = ours
      BY <1>22 DEF NightAsksRecording, n
    <2> HIDE DEF j, k
    <2>5. RetireSent(r) => /\ u # r => box'[u] = box[u] /\ watching'[u] = watching[u]
                           /\ ~watching[u] => ~watching'[u]
      BY <1>0 DEF RetireSent, Retire, Standby, Box, TypeOK
    <2>6. CASE Go("nightly", j) /\ ours' = [ours EXCEPT ![r] = FALSE] /\ UNCHANGED <<box, watching>>
      <3>1. u # r /\ ours[u] /\ job'["nightly"] = j
        BY <1>0, <1>4, <2>3, <2>6 DEF TypeOK
      <3> QED
        BY <1>2, <2>1, <2>3, <2>6, <3>1 DEF InHand
    <2>7. CASE Go("nightly", j) /\ RetireSent(r) /\ ours' = ours /\ r \notin Switched
      <3>1. u # r /\ ours[u] /\ job'["nightly"] = j
        BY <1>4, <2>3, <2>7
      <3> QED
        BY <1>2, <2>1, <2>3, <2>5, <2>7, <3>1 DEF InHand
    <2>8. CASE Go("nightly", k) /\ RetireSent(r) /\ ours' = ours
      <3>1. ours[u] /\ job'["nightly"] = k
        BY <1>4, <2>3, <2>8
      <3> QED
        BY <1>2, <2>1, <2>3, <2>5, <2>8, <3>1 DEF InHand
    <2> QED
      BY <2>4, <2>6, <2>7, <2>8
  <1>23. ASSUME NEW r \in Receivers, CooldownEnds(r) \/ TimerStarts(r) \/ TimerEnds(r)
         PROVE  Goal
    BY <1>7, <1>23 DEF CooldownEnds, TimerStarts, TimerEnds, SameBoxes, n
  <1>24. ASSUME NEW r \in Receivers, Booted(r)
         PROVE  Goal
    <2>1. /\ box[r] = "booting" /\ UNCHANGED <<watching, ours, job, crashes>>
          /\ u # r => box'[u] = box[u]
      BY <1>0, <1>24 DEF Booted, Box, TypeOK
    <2> QED
      BY <1>2, <2>1 DEF InHand, n
  <1>25. ASSUME NEW r \in Receivers, UserSwitchesOn(r)
         PROVE  Goal
    <2>1. /\ UNCHANGED <<job, crashes>> /\ u # r /\ box'[u] = box[u]
          /\ watching'[u] = watching[u] /\ ours'[u] = ours[u]
      BY <1>0, <1>25 DEF UserSwitchesOn, Box, TypeOK
    <2> QED
      BY <1>2, <2>1 DEF n
  <1>26. ASSUME NEW r \in Receivers, UserSwitchesOff(r)
         PROVE  Goal
    <2>1. /\ UNCHANGED <<ours, job, crashes>> /\ watching[r]
          /\ u # r => box'[u] = box[u] /\ watching'[u] = watching[u]
      BY <1>0, <1>26 DEF UserSwitchesOff, Box, TypeOK
    <2> QED
      BY <1>2, <2>1 DEF n
  <1>27. ASSUME NEW k \in Jobs,
                \/ TourAsksPower(k) \/ TourZaps(k) \/ TourGoesOn(k)
                \/ TourEnds(k) \/ TourFails(k)
         PROVE  Goal
    <2>1. /\ job[k].phase \in {"tour", "tourRec", "dwell"} /\ SameBoxes
          /\ crashes' = crashes
      BY <1>27 DEF TourAsksPower, TourZaps, TourGoesOn, TourEnds, TourFails
    <2>2. PICK p \in Phases, c \in Receivers \cup {None}, t \in SUBSET Receivers :
            /\ Go(k, At(job[k], p, c, t))
            /\ k = "nightly" => p \in {"prime", "tour", "tourRec", "dwell"}
      <3>1. /\ job[k].todo \in SUBSET Receivers /\ job[k].cur \in Receivers \cup {None}
            /\ job[k].todo \ {job[k].cur} \in SUBSET Receivers
        BY FieldsTyped DEF TypeOK
      <3>2. {"prime", "tour", "tourRec", "dwell", "sweep", "sweepCut"} \subseteq Phases
        BY DEF Phases
      <3> QED
        BY <1>27, <3>1, <3>2
           DEF TourAsksPower, TourZaps, TourGoesOn, TourEnds, TourFails, TourOver
    <2>3. CASE k = "nightly"
      <3> DEFINE j == At(n, p, c, t)
      <3>1. /\ j \in JobState /\ j.phase = p /\ j.woken = n.woken /\ Go("nightly", j)
            /\ p \in {"prime", "tour", "tourRec", "dwell"}
            /\ n.phase \in {"tour", "tourRec", "dwell"}
        BY <1>3, <2>1, <2>2, <2>3 DEF n
      <3> HIDE DEF j
      <3> QED
        BY <1>6, <2>1, <3>1 DEF InHand
    <2>4. CASE k # "nightly"
      <3>1. job'["nightly"] = n
        BY <1>0, <2>2, <2>4 DEF Go, TypeOK, n
      <3> QED
        BY <1>7, <2>1, <3>1 DEF SameBoxes
    <2> QED
      BY <2>3, <2>4
  <1> QED
    BY <1>5, <1>8, <1>9, <1>10, <1>11, <1>12, <1>13, <1>14, <1>15, <1>16, <1>17,
       <1>18, <1>19, <1>20, <1>21, <1>22, <1>23, <1>24, <1>25, <1>26, <1>27
       DEF Next, Night, Opportunistic, Touring, Outside

\* A box behind a mains switch that the nightly job has switched on, and that
\* nobody has taken over, is off or in deep standby again when the job is done,
\* whoever acts meanwhile, unless commands or answers get lost
\* (poller.py:365-374, 482-485; power.py).
THEOREM NothingStaysOn == ~Losses => (Spec => []NoneLeftOn)
  <1> SUFFICES ASSUME ~Losses PROVE Spec => []NoneLeftOn
    OBVIOUS
  <1>1. Init => UseNeedsPower /\ Accounted
    BY ReceiversAssumption DEF Init, UseNeedsPower, Up, Accounted
  <1>2. /\ TypeOK /\ UseNeedsPower /\ Accounted /\ [Next]_vars
        => UseNeedsPower' /\ Accounted'
    <2> SUFFICES ASSUME TypeOK, UseNeedsPower, Accounted, [Next]_vars
                 PROVE  UseNeedsPower' /\ Accounted'
      OBVIOUS
    <2>1. CASE Next
      BY <2>1, StepUse, StepAccounted
    <2>2. CASE UNCHANGED vars
      BY <2>2 DEF vars, UseNeedsPower, Up, Accounted, Asleep, InHand
    <2> QED
      BY <2>1, <2>2
  <1>3. Accounted => NoneLeftOn
    BY DEF Accounted, NoneLeftOn, Asleep, Busy, InHand
  <1> QED
    BY <1>1, <1>2, <1>3, TypeCorrect, PTL DEF Spec

=============================================================================
