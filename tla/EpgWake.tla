------------------------------- MODULE EpgWake -------------------------------
(***************************************************************************)
(* Waking boxes for EPG: the nightly sweep of app/services/poller.py that  *)
(* switches boxes on, tours their transponders and puts them away again,   *)
(* the opportunistic tour of boxes in standby, the lock between the two,   *)
(* and the people who use the same boxes meanwhile.                        *)
(*                                                                         *)
(* An action is what a job does from one await to the next; what it sends  *)
(* to a box takes effect in the step that sends it, what it learns of a    *)
(* box is true when the answer leaves the box.                             *)
(*                                                                         *)
(* Abstracted: waiting times (a timeout may strike whenever the job        *)
(* waits), the transponders (a tour makes any number of zaps), the order   *)
(* in which a job takes the boxes, coverage (either side of the threshold) *)
(* and the EPG itself.                                                     *)
(***************************************************************************)
EXTENDS Naturals

CONSTANTS
    Receivers,      \* the receivers with epg_wake
    Switched,       \* those behind a mains switch (power_method intertechno);
                    \* the others are woken by WOL
    None,           \* no receiver, lock not taken
    Losses,         \* may answers of a box that is up, and commands, get lost?
    UserMidCheck,   \* may users act between a check and what rests on it?
    MaxCrashes      \* bound on restarts

Jobs == {"nightly", "opportunistic"}

ASSUME ReceiversAssumption ==
    Switched \subseteq Receivers /\ None \notin Receivers \cup Jobs

ASSUME EnvironmentAssumption ==
    /\ Losses \in BOOLEAN
    /\ UserMidCheck \in BOOLEAN
    /\ MaxCrashes \in Nat

VARIABLES
    box,        \* off, booting, on, standby, deep: what each box does
    watching,   \* is somebody watching it, or waiting for it to come up?
    rec,        \* is it recording?
    ours,       \* history: did the nightly job switch it on, and has nobody, no
                \* recording either, taken it over since?
    lock,       \* who holds _tour_lock
    job,        \* the two coroutines
    cool,       \* is _last_tour_at younger than the cooldown?
    harvested,  \* history: has a complete tour ended within the cooldown?
    crashes     \* number of restarts so far

vars == <<box, watching, rec, ours, lock, job, cool, harvested, crashes>>

Phases == {"idle", "lock", "wake", "boot", "failed", "prime", "claim",
           "claimRec", "tour", "tourRec", "dwell", "sweep", "sweepCut", "down"}

\* blind is history: did the current box answer nothing when the job last
\* turned to it?
JobState == [phase : Phases, cur : Receivers \cup {None}, blind : BOOLEAN,
             todo : SUBSET Receivers, woken : SUBSET Receivers]

Idle == [phase |-> "idle", cur |-> None, blind |-> FALSE, todo |-> {}, woken |-> {}]

TypeOK ==
    /\ box \in [Receivers -> {"off", "booting", "on", "standby", "deep"}]
    /\ watching \in [Receivers -> BOOLEAN]
    /\ rec \in [Receivers -> BOOLEAN]
    /\ ours \in [Receivers -> BOOLEAN]
    /\ lock \in Jobs \cup {None}
    /\ job \in [Jobs -> JobState]
    /\ cool \in [Receivers -> BOOLEAN]
    /\ harvested \in [Receivers -> BOOLEAN]
    /\ crashes \in 0..MaxCrashes

Init ==
    /\ box \in [Receivers -> {"off", "on", "standby", "deep"}]
    /\ watching = [r \in Receivers |-> box[r] = "on"]
    /\ rec = [r \in Receivers |-> FALSE]
    /\ ours = [r \in Receivers |-> FALSE]
    /\ lock = None
    /\ job = [k \in Jobs |-> Idle]
    /\ cool = [r \in Receivers |-> FALSE]
    /\ harvested = [r \in Receivers |-> FALSE]
    /\ crashes = 0

-----------------------------------------------------------------------------
(* What a box answers.  A box that is not up answers nothing.              *)

Up(r) == box[r] \in {"on", "standby"}
InUse(r) == Up(r) /\ (watching[r] \/ rec[r])

\* is_online
SaysOnline(r) == IF Up(r) THEN (IF Losses THEN BOOLEAN ELSE {TRUE}) ELSE {FALSE}

\* get_power_state
SaysPower(r) ==
    IF Up(r) THEN {box[r]} \cup (IF Losses THEN {"unknown"} ELSE {})
    ELSE {"unknown"}

\* Mutant: nobody asks for the timers.
SaysRecordingNever(r) == {FALSE}

\* is_recording: no timer list, no recording.
SaysRecording(r) ==
    IF Up(r) /\ rec[r] THEN (IF Losses THEN BOOLEAN ELSE {TRUE}) ELSE {FALSE}

\* Mutant: only a box in standby counts as somebody's.
ViewerInStandby(answer) == answer = "standby"

\* The first half of user_claim.
Viewer(answer) == answer = "on"

\* Job j, gone on to another phase, with another current box, and others to do.
At(j, phase, cur, todo) ==
    [phase |-> phase, cur |-> cur, blind |-> cur # None /\ ~Up(cur),
     todo |-> todo, woken |-> j.woken]

Go(k, j) == job' = [job EXCEPT ![k] = j]
Box(r, state) == box' = [box EXCEPT ![r] = state]
SameBoxes == UNCHANGED <<box, watching, rec, ours>>

-----------------------------------------------------------------------------
(* The tour of one box (prime_epg_cache), made by either job k.            *)

\* Where a job goes when its tour of its current box is over.
TourOver(k, aborted) ==
    LET j == job[k] r == j.cur IN
    IF k = "nightly"
    THEN /\ Go(k, At(j, "prime", None, j.todo \ {r}))
         /\ cool' = [cool EXCEPT ![r] = TRUE]
         /\ harvested' = [harvested EXCEPT ![r] = @ \/ ~aborted]
    ELSE /\ Go(k, At(j, IF aborted THEN "sweepCut" ELSE "sweep", r, j.todo))
         /\ UNCHANGED <<cool, harvested>>

\* Before each zap: is somebody watching?
TourAsksPower(k) ==
    /\ job[k].phase = "tour"
    /\ \E answer \in SaysPower(job[k].cur) :
          IF Viewer(answer) THEN TourOver(k, TRUE)
          ELSE /\ Go(k, At(job[k], "tourRec", job[k].cur, job[k].todo))
               /\ UNCHANGED <<cool, harvested>>
    /\ SameBoxes
    /\ UNCHANGED <<lock, crashes>>

\* Is the box recording?  If not, zap at once, unless the budget is used up.
TourZaps(k) ==
    /\ job[k].phase = "tourRec"
    /\ \E recording \in SaysRecording(job[k].cur) :
          \/ recording /\ TourOver(k, TRUE)
          \/ ~recording /\ TourOver(k, FALSE)
          \/ /\ ~recording
             /\ Go(k, At(job[k], "dwell", job[k].cur, job[k].todo))
             /\ UNCHANGED <<cool, harvested>>
    /\ SameBoxes
    /\ UNCHANGED <<lock, crashes>>

TourGoesOn(k) ==
    /\ job[k].phase = "dwell"
    /\ Go(k, At(job[k], "tour", job[k].cur, job[k].todo))
    /\ SameBoxes
    /\ UNCHANGED <<lock, cool, harvested, crashes>>

\* All transponders are done.
TourEnds(k) ==
    /\ job[k].phase = "dwell"
    /\ TourOver(k, FALSE)
    /\ SameBoxes
    /\ UNCHANGED <<lock, crashes>>

\* It raises, or there is nothing to tour: _prime_woken_receiver returns.
TourFails(k) ==
    /\ job[k].phase \in {"tour", "dwell"}
    /\ TourOver(k, TRUE)
    /\ SameBoxes
    /\ UNCHANGED <<lock, crashes>>

-----------------------------------------------------------------------------
(* The nightly job.                                                        *)

NightBegins ==
    /\ job["nightly"].phase = "idle"
    /\ Go("nightly", At(Idle, "lock", None, {}))
    /\ SameBoxes
    /\ UNCHANGED <<lock, cool, harvested, crashes>>

\* With the lock: enough coverage, or boxes must be woken.
NightTakesLock ==
    /\ job["nightly"].phase = "lock"
    /\ lock = None
    /\ lock' = "nightly"
    /\ \/ Go("nightly", At(Idle, "sweep", None, {}))
       \/ Go("nightly", At(Idle, "wake", None, Receivers))
    /\ SameBoxes
    /\ UNCHANGED <<cool, harvested, crashes>>

NightSkipsOnline(r) ==
    LET j == job["nightly"] IN
    /\ j.phase = "wake" /\ r \in j.todo
    /\ TRUE \in SaysOnline(r)
    /\ Go("nightly", At(j, "wake", None, j.todo \ {r}))
    /\ SameBoxes
    /\ UNCHANGED <<lock, cool, harvested, crashes>>

\* What the power-on command does to a box that hears it: the mains switch
\* boots a box without mains, WOL one in deep standby.
PowerOn(r) ==
    IF (r \in Switched /\ box[r] = "off") \/ (r \notin Switched /\ box[r] = "deep")
    THEN Box(r, "booting") /\ ours' = [ours EXCEPT ![r] = TRUE]
    ELSE UNCHANGED <<box, ours>>

\* wake_for_epg sends the command: the box hears it, or it is lost.
NightPowersOn(r) ==
    LET j == job["nightly"] IN
    /\ j.phase = "wake" /\ r \in j.todo
    /\ FALSE \in SaysOnline(r)
    /\ Go("nightly", At(j, "boot", r, j.todo))
    /\ PowerOn(r) \/ UNCHANGED <<box, ours>>
    /\ UNCHANGED <<watching, rec, lock, cool, harvested, crashes>>

\* ... and once more after a while without an answer.
NightResends(r) ==
    LET j == job["nightly"] IN
    /\ j.phase = "boot" /\ j.cur = r
    /\ FALSE \in SaysOnline(r)
    /\ PowerOn(r)
    /\ UNCHANGED <<job, watching, rec, lock, cool, harvested, crashes>>

\* Mutant: a woken box is not remembered.
WithWokenForgotten(j, r) == j.woken

WithWoken(j, r) == j.woken \cup {r}

\* A command to enter standby ends the viewing, not the recording.
Standby(r) ==
    /\ Box(r, "standby")
    /\ watching' = [watching EXCEPT ![r] = FALSE]

\* The first answer after the boot: light standby, at once.
NightPutsInStandby(r) ==
    LET j == job["nightly"] IN
    /\ j.phase = "boot" /\ j.cur = r
    /\ TRUE \in SaysOnline(r)
    /\ Standby(r) \/ (Losses /\ UNCHANGED <<box, watching>>)
    /\ Go("nightly", [At(j, "wake", None, j.todo \ {r}) EXCEPT !.woken = WithWoken(j, r)])
    /\ UNCHANGED <<rec, ours, lock, cool, harvested, crashes>>

\* What shutdown_for_epg sends first: deep standby, or for a WOL box light
\* standby, which is all it does to that.
Retire(r) ==
    IF ~Up(r) THEN UNCHANGED <<box, watching, rec>>
    ELSE IF r \in Switched
    THEN /\ Box(r, "deep")
         /\ watching' = [watching EXCEPT ![r] = FALSE]
         /\ rec' = [rec EXCEPT ![r] = FALSE]
    ELSE Standby(r) /\ UNCHANGED rec

RetireSent(r) == Retire(r) \/ (Losses /\ UNCHANGED <<box, watching, rec>>)

\* The box does not come up in time, or the gateway refuses the command twice.
NightGivesUp(r) ==
    LET j == job["nightly"] IN
    /\ j.phase = "boot" /\ j.cur = r
    /\ FALSE \in SaysOnline(r)
    /\ RetireSent(r)
    /\ IF r \in Switched THEN Go("nightly", At(j, "failed", r, j.todo))
       ELSE Go("nightly", At(j, "wake", None, j.todo \ {r}))
    /\ UNCHANGED <<ours, lock, cool, harvested, crashes>>

\* shutdown_for_epg cuts the mains when the box is silent or 90 s are over.
CutsMains(r) ==
    LET j == job["nightly"] IN
    /\ j.phase \in {"failed", "down"} /\ j.cur = r
    /\ Go("nightly", At(j, IF j.phase = "failed" THEN "wake" ELSE "claim",
                        None, j.todo \ {r}))
    /\ \/ /\ Box(r, "off")
          /\ watching' = [watching EXCEPT ![r] = FALSE]
          /\ rec' = [rec EXCEPT ![r] = FALSE]
          /\ ours' = [ours EXCEPT ![r] = FALSE]
       \/ Losses /\ SameBoxes
    /\ UNCHANGED <<lock, cool, harvested, crashes>>

NightPrimes ==
    LET j == job["nightly"] IN
    /\ \/ /\ j.phase = "wake" /\ j.todo = {}
          /\ Go("nightly", At(j, "prime", None, j.woken))
       \/ /\ j.phase = "prime"
          /\ \E r \in j.todo : Go("nightly", At(j, "tour", r, j.todo))
       \/ /\ j.phase = "prime" /\ j.todo = {}
          /\ Go("nightly", At(j, "sweep", None, {}))
    /\ SameBoxes
    /\ UNCHANGED <<lock, cool, harvested, crashes>>

\* The sweep is over or has raised: every woken box is handed back.
NightSwept ==
    LET j == job["nightly"] IN
    /\ j.phase = "sweep"
    /\ Go("nightly", At(j, "claim", None, j.woken))
    /\ SameBoxes
    /\ UNCHANGED <<lock, cool, harvested, crashes>>

NightAsksPower(r) ==
    LET j == job["nightly"] IN
    /\ j.phase = "claim" /\ r \in j.todo
    /\ \E answer \in SaysPower(r) :
          Go("nightly", IF Viewer(answer) THEN At(j, "claim", None, j.todo \ {r})
                        ELSE At(j, "claimRec", r, j.todo))
    /\ SameBoxes
    /\ UNCHANGED <<lock, cool, harvested, crashes>>

\* A box that records is left alone; any other goes down.
NightAsksRecording(r) ==
    LET j == job["nightly"] IN
    /\ j.phase = "claimRec" /\ j.cur = r
    /\ \E recording \in SaysRecording(r) :
          IF recording \/ r \notin Switched
          THEN /\ Go("nightly", At(j, "claim", None, j.todo \ {r}))
               /\ IF recording
                  THEN /\ ours' = [ours EXCEPT ![r] = FALSE]
                       /\ UNCHANGED <<box, watching, rec>>
                  ELSE RetireSent(r) /\ UNCHANGED ours
          ELSE /\ Go("nightly", At(j, "down", r, j.todo))
               /\ RetireSent(r) /\ UNCHANGED ours
    /\ UNCHANGED <<lock, cool, harvested, crashes>>

NightEnds ==
    /\ job["nightly"].phase = "claim" /\ job["nightly"].todo = {}
    /\ Go("nightly", Idle)
    /\ lock' = None
    /\ SameBoxes
    /\ UNCHANGED <<cool, harvested, crashes>>

-----------------------------------------------------------------------------
(* The opportunistic job, every ten minutes.                               *)

\* Mutant: the lock is not looked at.
LockFreeUnchecked == TRUE

\* _tour_lock.locked(), and nothing in between until it is taken.
LockFree == lock = None

TourBegins ==
    /\ job["opportunistic"].phase = "idle"
    /\ LockFree
    /\ lock' = "opportunistic"
    /\ Go("opportunistic", At(Idle, "wake", None, Receivers))
    /\ SameBoxes
    /\ UNCHANGED <<cool, harvested, crashes>>

\* Still cooling down, or not reachable: the next one.
TourSkips(r) ==
    LET j == job["opportunistic"] IN
    /\ j.phase = "wake" /\ r \in j.todo
    /\ cool[r] \/ FALSE \in SaysOnline(r)
    /\ Go("opportunistic", At(j, "wake", None, j.todo \ {r}))
    /\ SameBoxes
    /\ UNCHANGED <<lock, cool, harvested, crashes>>

TourPicks(r) ==
    LET j == job["opportunistic"] IN
    /\ j.phase = "wake" /\ r \in j.todo
    /\ ~cool[r] /\ TRUE \in SaysOnline(r)
    /\ Go("opportunistic", At(j, "claim", r, j.todo))
    /\ SameBoxes
    /\ UNCHANGED <<lock, cool, harvested, crashes>>

\* user_claim before the tour; the box is skipped, or the tour begins.
TourAsksFirst ==
    LET j == job["opportunistic"] r == j.cur
        skip == At(j, "wake", None, j.todo \ {r}) IN
    /\ \/ /\ j.phase = "claim"
          /\ \E answer \in SaysPower(r) :
                Go("opportunistic", IF Viewer(answer) THEN skip
                                    ELSE At(j, "claimRec", r, j.todo))
       \/ /\ j.phase = "claimRec"
          /\ \E recording \in SaysRecording(r) :
                Go("opportunistic", IF recording THEN skip
                                    ELSE At(j, "tour", r, j.todo))
    /\ SameBoxes
    /\ UNCHANGED <<lock, cool, harvested, crashes>>

\* What _prime_woken_receiver hands on of the tour's statistics.
Stats == None

\* The sweep after the tour; only a complete tour earns the cooldown.
TourSwept ==
    LET j == job["opportunistic"] r == j.cur IN
    /\ j.phase \in {"sweep", "sweepCut"}
    /\ Go("opportunistic", At(j, "wake", None, j.todo \ {r}))
    /\ cool' = [cool EXCEPT ![r] = @ \/ (Stats # None /\ j.phase = "sweep")]
    /\ harvested' = [harvested EXCEPT ![r] = @ \/ j.phase = "sweep"]
    /\ SameBoxes
    /\ UNCHANGED <<lock, crashes>>

TourRoundEnds ==
    /\ job["opportunistic"].phase = "wake" /\ job["opportunistic"].todo = {}
    /\ Go("opportunistic", Idle)
    /\ lock' = None
    /\ SameBoxes
    /\ UNCHANGED <<cool, harvested, crashes>>

CooldownEnds(r) ==
    /\ cool[r] \/ harvested[r]
    /\ cool' = [cool EXCEPT ![r] = FALSE]
    /\ harvested' = [harvested EXCEPT ![r] = FALSE]
    /\ SameBoxes
    /\ UNCHANGED <<lock, job, crashes>>

-----------------------------------------------------------------------------
(* The boxes, the people and the operating system.                         *)

\* Box r has answered a check, or half of it, and what rests on that is still
\* to come.
Checked(r) ==
    \E k \in Jobs : /\ job[k].cur = r /\ ~job[k].blind
                    /\ job[k].phase \in {"claimRec", "tourRec", "down"}

MayAct(r) == Checked(r) => UserMidCheck

\* A box comes up with a picture for whoever waits, or in standby if that is
\* how it starts.
Booted(r) ==
    /\ box[r] = "booting"
    /\ \E state \in {"on", "standby"} : Box(r, state) /\ (watching[r] => state = "on")
    /\ UNCHANGED <<watching, rec, ours, lock, job, cool, harvested, crashes>>

\* A box in standby shows a picture at once, a silent one has to boot first.
UserSwitchesOn(r) ==
    /\ MayAct(r)
    /\ ~watching[r]
    /\ Box(r, IF Up(r) THEN "on" ELSE "booting")
    /\ watching' = [watching EXCEPT ![r] = TRUE]
    /\ ours' = [ours EXCEPT ![r] = FALSE]
    /\ UNCHANGED <<rec, lock, job, cool, harvested, crashes>>

UserSwitchesOff(r) ==
    /\ watching[r]
    /\ \E state \in {"off", "standby", "deep"} :
          /\ state = "off" \/ box[r] = "on"
          /\ Box(r, state)
          /\ rec' = [rec EXCEPT ![r] = @ /\ state = "standby"]
    /\ watching' = [watching EXCEPT ![r] = FALSE]
    /\ UNCHANGED <<ours, lock, job, cool, harvested, crashes>>

TimerStarts(r) ==
    /\ MayAct(r)
    /\ Up(r) /\ ~rec[r]
    /\ rec' = [rec EXCEPT ![r] = TRUE]
    /\ UNCHANGED <<box, watching, ours, lock, job, cool, harvested, crashes>>

TimerEnds(r) ==
    /\ rec[r]
    /\ rec' = [rec EXCEPT ![r] = FALSE]
    /\ UNCHANGED <<box, watching, ours, lock, job, cool, harvested, crashes>>

Restart ==
    /\ crashes < MaxCrashes
    /\ crashes' = crashes + 1
    /\ job' = [k \in Jobs |-> Idle]
    /\ lock' = None
    /\ cool' = [r \in Receivers |-> FALSE]
    /\ harvested' = [r \in Receivers |-> FALSE]
    /\ SameBoxes

Night ==
    \/ NightBegins \/ NightTakesLock \/ NightPrimes \/ NightSwept \/ NightEnds
    \/ \E r \in Receivers :
          \/ NightSkipsOnline(r)
          \/ NightPowersOn(r)
          \/ NightResends(r)
          \/ NightPutsInStandby(r)
          \/ NightGivesUp(r)
          \/ CutsMains(r)
          \/ NightAsksPower(r)
          \/ NightAsksRecording(r)

Opportunistic ==
    \/ TourBegins \/ TourAsksFirst \/ TourSwept \/ TourRoundEnds
    \/ \E r \in Receivers : TourSkips(r) \/ TourPicks(r)

Touring ==
    \E k \in Jobs :
        TourAsksPower(k) \/ TourZaps(k) \/ TourGoesOn(k) \/ TourEnds(k) \/ TourFails(k)

Outside ==
    \/ \E r \in Receivers :
          \/ CooldownEnds(r)
          \/ Booted(r)
          \/ UserSwitchesOn(r)
          \/ UserSwitchesOff(r)
          \/ TimerStarts(r)
          \/ TimerEnds(r)
    \/ Restart

Next == Night \/ Opportunistic \/ Touring \/ Outside

Spec == Init /\ [][Next]_vars

-----------------------------------------------------------------------------
(* Properties.                                                             *)

Busy(k) == job[k].phase \notin {"idle", "lock"}

\* The nightly job and the opportunistic one never handle boxes at the same
\* time (poller.py:27-29, 341, 418-420), and the lock says who does.
OneTour ==
    /\ ~(Busy("nightly") /\ Busy("opportunistic"))
    /\ \A k \in Jobs : Busy(k) <=> lock = k

\* Is a job at box r, with nothing to go by but the silence of a box that
\* boots or is off?
Blind(r) == \E k \in Jobs : job[k].cur = r /\ job[k].blind

\* No step of a job takes the picture from somebody who is watching, or the
\* power from a recording, if the box was up when the job looked: it stays as
\* it is (poller.py:369-374, 469-472, client.py:206-214).
NeverCutInUse ==
    [][\A r \in Receivers :
         InUse(r) /\ ~Blind(r) /\ job' # job /\ crashes' = crashes
            => box'[r] = box[r]]_vars

\* No job changes the channel of a box somebody is watching, if the box was up
\* when the job looked (epg.py:398-402).
NeverZapInUse ==
    [][\A k \in Jobs :
         job[k].phase = "tourRec" /\ job'[k].phase = "dwell"
            => ~watching[job[k].cur] \/ job[k].blind]_vars

\* The promise without that condition: a box somebody has switched on stays on,
\* though it was silent when the nightly job looked (poller.py:469-472,
\* power.py:205-214).  The job takes it for one of its own.
NeverCutComingUp ==
    [][\A r \in Receivers :
         watching[r] /\ job' # job /\ crashes' = crashes => watching'[r]]_vars

\* After a complete tour the opportunistic job leaves the box alone until the
\* cooldown is over (poller.py:23-25, config.py:74-77).
NoRepeatedHarvest ==
    [][\A r \in Receivers :
         /\ job["opportunistic"].phase = "claimRec"
         /\ job["opportunistic"].cur = r
         /\ job'["opportunistic"].phase = "tour"
         => ~harvested[r]]_vars

\* When the nightly job is done, no box behind a mains switch is on because of
\* it, unless somebody has taken it over, a recording has held it, or a restart
\* has made the job forget it (poller.py:365-374, 482-485).
NoneLeftOn ==
    \A r \in Switched :
        ours[r] /\ crashes = 0 /\ ~Busy("nightly") => box[r] \in {"off", "deep"}

\* A box the nightly job switched on goes back to sleep, unless somebody takes
\* it over or a recording holds it when the job is done, or a restart makes the
\* job forget it (poller.py:365-374, 482-485).
HandedBack ==
    \A r \in Switched :
        (ours[r] /\ crashes = 0)
            ~> (~ours[r] \/ box[r] \in {"off", "deep"} \/ crashes > 0)

\* The same of every box: a box on WOL comes up after the job has given it up.
EachHandedBack ==
    \A r \in Receivers :
        ours[r] ~> (~ours[r] \/ box[r] \in {"off", "deep"}
                    \/ (r \notin Switched /\ box[r] = "standby" /\ ~Busy("nightly")))

\* What the theorems of EpgWakeProofs rest on, when no answer is lost and
\* nobody acts between the answer to a check and what rests on it: a job that
\* has found a box unused still finds it so.
AtBox(k) == {"boot", "failed", "claimRec", "tour", "tourRec", "dwell", "down"}
            \cup (IF k = "opportunistic" THEN {"claim", "sweep", "sweepCut"} ELSE {})

Sound(k, j) ==
    /\ j.phase \in AtBox(k) => j.cur \in Receivers
    /\ j.phase \in {"claimRec", "tourRec"} /\ ~j.blind => ~watching[j.cur]
    /\ j.phase = "down" /\ ~j.blind => ~watching[j.cur] /\ ~rec[j.cur]
    /\ j.phase \in {"boot", "failed"} => j.blind

CheckStillGood == \A k \in Jobs : Sound(k, job[k])

UseNeedsPower ==
    \A r \in Receivers :
        /\ watching[r] => box[r] \in {"on", "booting"}
        /\ rec[r] => Up(r)

IInv == TypeOK /\ OneTour /\ UseNeedsPower /\ CheckStillGood

\* Fairness: the event loop resumes a coroutine whose answer has come or whose
\* time is up, a box that boots comes up, a tour does not go on for ever.
Fairness ==
    /\ WF_vars(NightTakesLock) /\ WF_vars(NightPrimes)
    /\ WF_vars(NightSwept) /\ WF_vars(NightEnds)
    /\ \A r \in Receivers :
          /\ WF_vars(NightSkipsOnline(r) \/ NightPowersOn(r))
          /\ WF_vars(NightPutsInStandby(r) \/ NightGivesUp(r))
          /\ WF_vars(CutsMains(r))
          /\ WF_vars(NightAsksPower(r))
          /\ WF_vars(NightAsksRecording(r))
          /\ WF_vars(Booted(r))
    /\ WF_vars(TourAsksPower("nightly"))
    /\ WF_vars(TourZaps("nightly"))
    /\ SF_vars(TourEnds("nightly"))

FairSpec == Spec /\ Fairness

=============================================================================
