-------------------------------- MODULE Remote --------------------------------
(***************************************************************************)
(* Remote control and attribution: the zap and key handlers of             *)
(* app/routers/remote.py, the registry of active viewers they fill         *)
(* (app/services/active_viewer.py), the poll job that asks it whose the    *)
(* session is (poller.py:151-182), the boxes, and the people with an       *)
(* infrared remote control.                                                *)
(*                                                                         *)
(* A handler is a coroutine; an action is what it does from one await to   *)
(* the next.  What it sends takes effect at the box in the step that sends *)
(* it, what it learns is true when the answer leaves the box.              *)
(*                                                                         *)
(* Abstracted: the clock (ages in ticks, a poll is shorter than a tick),   *)
(* waiting times (a handler may give up whenever it waits), the rows of    *)
(* sessions (PollSession has them), all channels known, the contents of    *)
(* timers, a box that stops answering in the middle of a poll, the column  *)
(* power_state, which only chooses a box for those who name none.          *)
(***************************************************************************)
EXTENDS Naturals, Receivers

CONSTANTS
    Channels,     \* the services boxes can be tuned to
    Users,        \* slugs
    DefaultUser,  \* receivers.default_user, per receiver
    Wakeable,     \* receivers with a power_method
    Requests,     \* places for requests under way
    MinWatch,     \* settings.min_watch_sec, in ticks
    ActiveTTL,    \* _TTL, in ticks
    Overlapping,  \* may two zaps of the same box run at a time?
    BootsAsleep,  \* may a box that is powered on come up in standby?
    Losses        \* may the answer of a box, or a key, get lost?

ASSUME AgesAssumption == MinWatch \in Nat /\ ActiveTTL \in Nat

ASSUME PeopleAssumption ==
    /\ None \notin Users /\ None \notin Channels /\ None \notin Requests
    /\ DefaultUser \in [Receivers -> Users \cup {None}]
    /\ Wakeable \subseteq Receivers

ASSUME ScopeAssumption == {Overlapping, BootsAsleep, Losses} \subseteq BOOLEAN

VARIABLES
    box,      \* off (no power, deep standby), booting, standby, on
    chan,     \* what each box is tuned to
    request,  \* the handlers
    active,   \* active_viewer._active, with the age of the entry
    asking,   \* receivers whose poll has found the box on
    tuned,    \* poller._state: last_sref
    sess,     \* poller._state: the session, and what its row says
    users,    \* table users
    disturbed,\* history: requests during which somebody else has used the
              \* power key or the mains
    acted,    \* history: per receiver and user, age of the last remote action
    claim     \* history: whose action tuned the box, if nobody came after

remoteVars == <<box, chan, request, active, asking, tuned, sess, users,
                disturbed, acted, claim>>
vars == <<receiverVars, remoteVars>>

Old == ActiveTTL + 1        \* an age past the TTL; older is the same
Older(age) == IF age = Old THEN Old ELSE age + 1

Phases == {"idle", "probe", "wait", "power", "key", "tune", "done"}
Request == [phase : Phases, user : Users \cup {None}, rcv : Receivers \cup {None},
            chan : Channels \cup {None}, ok : BOOLEAN]
NoRequest == [phase |-> "idle", user |-> None, rcv |-> None, chan |-> None, ok |-> FALSE]

Session == [age : 0..MinWatch, confirmed : BOOLEAN,
            user : Users \cup {None}, method : {"browser", "location", None}]

ASSUME SessionAssumption == None \notin Session /\ None \notin {"browser", "location"}

Entry == [user : Users, age : 0..Old]

ASSUME EntryAssumption == None \notin Entry

TypeOK ==
    /\ ReceiversTypeOK
    /\ box \in [Receivers -> {"off", "booting", "standby", "on"}]
    /\ chan \in [Receivers -> Channels]
    /\ request \in [Requests -> Request]
    /\ active \in [Receivers -> Entry \cup {None}]
    /\ asking \in SUBSET Receivers
    /\ tuned \in [Receivers -> Channels \cup {None}]
    /\ sess \in [Receivers -> Session \cup {None}]
    /\ users \in SUBSET Users
    /\ disturbed \in SUBSET Requests
    /\ acted \in [Receivers -> [Users -> 0..Old]]
    /\ claim \in [Receivers -> Users \cup {None}]

Init ==
    /\ ReceiversInit
    /\ box \in [Receivers -> {"off", "standby", "on"}]
    /\ chan \in [Receivers -> Channels]
    /\ request = [q \in Requests |-> NoRequest]
    /\ active = [r \in Receivers |-> None]
    /\ asking = {}
    /\ tuned = [r \in Receivers |-> None]
    /\ sess = [r \in Receivers |-> None]
    /\ users = Users
    /\ disturbed = {}
    /\ acted = [r \in Receivers |-> [u \in Users |-> Old]]
    /\ claim = [r \in Receivers |-> None]

-----------------------------------------------------------------------------
(* What a box answers, and what a key does.                                *)

Up(r) == box[r] \in {"on", "standby"}

\* is_online; a status below 500
SaysOnline(r) == IF Up(r) THEN {TRUE} \cup (IF Losses THEN {FALSE} ELSE {}) ELSE {FALSE}

\* get_power_state
SaysPower(r) ==
    IF Up(r) THEN {box[r]} \cup (IF Losses THEN {"unknown"} ELSE {}) ELSE {"unknown"}

Box(r, state) == box' = [box EXCEPT ![r] = state]

\* The power key is a toggle; one press is sent once (send_key, idempotent=False).
PowerKey(r) == Box(r, IF box[r] = "on" THEN "standby" ELSE "on")

\* Mutant: the key is pressed in any power state.
AsleepAlways(answer) == TRUE

Asleep(answer) == answer = "standby"

Go(q, phase) == request' = [request EXCEPT ![q].phase = phase]
Ends(q) == request' = [request EXCEPT ![q] = NoRequest]
Zapping(r) == {q \in Requests : request[q].phase # "idle" /\ request[q].chan # None
                                /\ request[q].rcv = r}
Disturb(r, q) == disturbed' = disturbed \cup (Zapping(r) \ {q})

SamePeople == UNCHANGED <<active, asking, tuned, sess, users, acted, claim>>
SameHandler == UNCHANGED receiverVars /\ SamePeople

-----------------------------------------------------------------------------
(* POST /api/remote/zap.                                                   *)

\* _find_receiver: by name, or the first one whose column power_state, which
\* may be out of date, says that it is up.
Found(r) == r \in listed

ZapRequested(q, u, r, c) ==
    /\ request[q].phase = "idle"
    /\ Found(r)
    /\ Zapping(r) # {} => Overlapping
    /\ request' = [request EXCEPT ![q] =
          [phase |-> "probe", user |-> u, rcv |-> r, chan |-> c, ok |-> FALSE]]
    /\ disturbed' = disturbed \ {q}
    /\ UNCHANGED <<box, chan>>
    /\ SameHandler

\* Online: next the power state.  If not, wake_receiver, or 503.
ZapProbes(q) ==
    LET r == request[q].rcv IN
    /\ request[q].phase = "probe"
    /\ \/ TRUE \in SaysOnline(r) /\ Go(q, "power") /\ UNCHANGED box
       \/ FALSE \in SaysOnline(r) /\ Ends(q) /\ UNCHANGED box
       \/ /\ FALSE \in SaysOnline(r) /\ r \in Wakeable
          /\ Go(q, "wait")
          /\ (box[r] = "off" /\ Box(r, "booting")) \/ UNCHANGED box
    /\ UNCHANGED <<chan, disturbed>>
    /\ SameHandler

\* Mutant: after the wait the box is asked for its power state.
AfterWaitAsks == "power"

\* A box that has been woken counts as awake: it is not asked.
AfterWait == "tune"

\* It answers in time, or the handler gives up (504).
ZapWaits(q) ==
    LET r == request[q].rcv IN
    /\ request[q].phase = "wait"
    /\ \/ TRUE \in SaysOnline(r) /\ Go(q, AfterWait)
       \/ FALSE \in SaysOnline(r) /\ Ends(q)
    /\ UNCHANGED <<box, chan, disturbed>>
    /\ SameHandler

ZapAsksPower(q) ==
    /\ request[q].phase = "power"
    /\ \E answer \in SaysPower(request[q].rcv) :
          Go(q, IF Asleep(answer) THEN "key" ELSE "tune")
    /\ UNCHANGED <<box, chan, disturbed>>
    /\ SameHandler

\* The power key; then three seconds of patience.
ZapPressesPower(q) ==
    LET r == request[q].rcv IN
    /\ request[q].phase = "key"
    /\ Go(q, "tune")
    /\ IF Up(r) THEN PowerKey(r) \/ (Losses /\ UNCHANGED box) ELSE UNCHANGED box
    /\ UNCHANGED <<chan, disturbed>>
    /\ SameHandler

\* The box is tuned, standby or not; whether the handler learns of it is
\* another matter.
ZapTunes(q) ==
    LET r == request[q].rcv IN
    /\ request[q].phase = "tune"
    /\ IF Up(r)
       THEN /\ chan' = [chan EXCEPT ![r] = request[q].chan]
            /\ \E ok \in {TRUE} \cup (IF Losses THEN {FALSE} ELSE {}) :
                  request' = [request EXCEPT ![q].phase = "done", ![q].ok = ok]
       ELSE Ends(q) /\ UNCHANGED chan
    /\ UNCHANGED <<box, disturbed>>
    /\ SameHandler

-----------------------------------------------------------------------------
(* POST /api/remote/key and /api/remote/record: one command, one answer.   *)

\* A key that tunes, the power key, or something else.
CommandSent(q, u, r) ==
    /\ request[q].phase = "idle"
    /\ Found(r)
    /\ Up(r)
    /\ \/ PowerKey(r) /\ Disturb(r, q) /\ UNCHANGED chan
       \/ /\ \E c \in Channels : chan' = [chan EXCEPT ![r] = c]
          /\ disturbed' = disturbed \ {q} /\ UNCHANGED box
    /\ \E ok \in {TRUE} \cup (IF Losses THEN {FALSE} ELSE {}) :
          request' = [request EXCEPT ![q] =
             [phase |-> "done", user |-> u, rcv |-> r, chan |-> None, ok |-> ok]]
    /\ SameHandler

\* Mutant: the first viewer stays.
RecordActiveFirst(r, u) ==
    active' = IF active[r] = None THEN [active EXCEPT ![r] = [user |-> u, age |-> 0]] ELSE active

\* record_active
RecordActive(r, u) == active' = [active EXCEPT ![r] = [user |-> u, age |-> 0]]

\* The answer is there: a success by somebody with a cookie is recorded.
Answered(q) ==
    LET r == request[q].rcv u == request[q].user IN
    /\ request[q].phase = "done"
    /\ Ends(q)
    /\ IF request[q].ok /\ u # None
       THEN /\ RecordActive(r, u)
            /\ acted' = [acted EXCEPT ![r][u] = 0]
            /\ claim' = [claim EXCEPT ![r] =
                  IF request[q].chan = chan[r] THEN u
                  ELSE IF @ = u THEN u ELSE None]
       ELSE UNCHANGED <<active, acted, claim>>
    /\ UNCHANGED <<receiverVars, box, chan, asking, tuned, sess, users, disturbed>>

-----------------------------------------------------------------------------
(* The poll job of receiver r.                                             *)

\* Mutant: an entry holds a tick too long.
StillActiveLonger(r) == active[r] # None /\ active[r].age <= ActiveTTL + 1

\* get_active
StillActive(r) == active[r] # None /\ active[r].age <= ActiveTTL

\* _confirm_session: whose session it is.
Confirmed(s, r) ==
    IF StillActive(r) /\ active[r].user \in users
    THEN [s EXCEPT !.confirmed = TRUE, !.user = active[r].user, !.method = "browser"]
    ELSE IF DefaultUser[r] \in users
    THEN [s EXCEPT !.confirmed = TRUE, !.user = DefaultUser[r], !.method = "location"]
    ELSE [s EXCEPT !.confirmed = TRUE]

\* The probe: a box that is not on ends the session; on, there is more to ask.
PollAsksPower(r) ==
    /\ r \in polled /\ r \in listed /\ r \notin asking
    /\ \E answer \in SaysPower(r) :
          IF answer = "on"
          THEN /\ asking' = asking \cup {r}
               /\ UNCHANGED <<tuned, sess>>
          ELSE /\ sess' = [sess EXCEPT ![r] = None]
               /\ tuned' = IF sess[r] # None /\ ~sess[r].confirmed
                           THEN [tuned EXCEPT ![r] = None] ELSE tuned
               /\ UNCHANGED asking
    /\ UNCHANGED <<receiverVars, box, chan, request, active, users, disturbed, acted, claim>>

\* Mutant: nobody looks whether the row is still there.
StoredAnyway(r) == TRUE

\* The poll writes to the receiver's row (last_seen): without it, the flush in
\* _open_session, or the commit, raises.
Stored(r) == r \in listed

\* The current service: a change opens a session, the same one may confirm it.
\* If the receiver is gone meanwhile, its sessions are too: there is none to
\* confirm, and a change only makes memory forget a confirmed one before the
\* flush raises.
PollSeesService(r) ==
    LET s == sess[r] IN
    /\ r \in asking
    /\ asking' = asking \ {r}
    /\ \/ /\ ~Stored(r)
          /\ sess' = IF chan[r] # tuned[r] /\ s # None /\ s.confirmed
                     THEN [sess EXCEPT ![r] = None] ELSE sess
          /\ UNCHANGED <<tuned, referred>>
       \/ /\ Stored(r) /\ chan[r] # tuned[r]
          /\ tuned' = [tuned EXCEPT ![r] = chan[r]]
          /\ sess' = [sess EXCEPT ![r] =
                [age |-> 0, confirmed |-> FALSE, user |-> None, method |-> None]]
          /\ referred' = referred \cup {r}
       \/ /\ Stored(r) /\ chan[r] = tuned[r]
          /\ sess' = IF s # None /\ ~s.confirmed /\ s.age >= MinWatch
                     THEN [sess EXCEPT ![r] = Confirmed(s, r)] ELSE sess
          /\ UNCHANGED <<tuned, referred>>
    /\ UNCHANGED <<listed, polled, handler, botched, box, chan, request, active,
                   users, disturbed, acted, claim>>

-----------------------------------------------------------------------------
(* People, boxes, time.                                                    *)

\* Somebody uses the infrared remote control, or the mains.
PersonActs(r) ==
    /\ \/ /\ Up(r) /\ PowerKey(r) /\ Disturb(r, None) /\ UNCHANGED <<chan, claim>>
       \/ /\ Box(r, IF box[r] = "off" THEN "booting" ELSE "off")
          /\ Disturb(r, None) /\ UNCHANGED <<chan, claim>>
       \/ /\ Up(r)
          /\ \E c \in Channels \ {chan[r]} : chan' = [chan EXCEPT ![r] = c]
          /\ claim' = [claim EXCEPT ![r] = None]
          /\ UNCHANGED <<box, disturbed>>
    /\ UNCHANGED <<receiverVars, request, active, asking, tuned, sess, users, acted>>

Booted(r) ==
    /\ box[r] = "booting"
    /\ \E state \in {"on"} \cup (IF BootsAsleep THEN {"standby"} ELSE {}) : Box(r, state)
    /\ UNCHANGED <<receiverVars, chan, request, active, asking, tuned, sess,
                   users, disturbed, acted, claim>>

Tick ==
    /\ asking = {}
    /\ active' = [r \in Receivers |-> IF active[r] = None THEN None
                                      ELSE [active[r] EXCEPT !.age = Older(@)]]
    /\ sess' = [r \in Receivers |-> IF sess[r] = None THEN None ELSE
                  [sess[r] EXCEPT !.age = IF @ = MinWatch THEN @ ELSE @ + 1]]
    /\ acted' = [r \in Receivers |-> [u \in Users |-> Older(acted[r][u])]]
    /\ claim' = [r \in Receivers |->
                   IF claim[r] # None /\ acted'[r][claim[r]] = Old THEN None ELSE claim[r]]
    /\ UNCHANGED <<receiverVars, box, chan, request, asking, tuned, users, disturbed>>

\* DELETE and POST /api/admin/users.  Somebody whose past sessions have been
\* deleted may go.
UserGoes(u) ==
    /\ u \in users
    /\ \A r \in Receivers : sess[r] # None => sess[r].user # u
    /\ users' = users \ {u}
    /\ UNCHANGED <<receiverVars, box, chan, request, active, asking, tuned,
                   sess, disturbed, acted, claim>>

UserComes(u) ==
    /\ u \notin users
    /\ users' = users \cup {u}
    /\ UNCHANGED <<receiverVars, box, chan, request, active, asking, tuned,
                   sess, disturbed, acted, claim>>

\* The process dies and starts again; the boxes do not.
Restart ==
    /\ ReceiversRestart
    /\ request' = [q \in Requests |-> NoRequest]
    /\ active' = [r \in Receivers |-> None]
    /\ asking' = {}
    /\ tuned' = [r \in Receivers |-> None]
    /\ sess' = [r \in Receivers |-> None]
    /\ acted' = [r \in Receivers |-> [u \in Users |-> Old]]
    /\ claim' = [r \in Receivers |-> None]
    /\ disturbed' = {}
    /\ UNCHANGED <<box, chan, users>>

Zap(q) ==
    \/ \E u \in Users \cup {None}, r \in Receivers, c \in Channels :
          ZapRequested(q, u, r, c)
    \/ ZapProbes(q) \/ ZapWaits(q) \/ ZapAsksPower(q) \/ ZapPressesPower(q)
    \/ ZapTunes(q)

Command(q) ==
    \E u \in Users \cup {None}, r \in Receivers : CommandSent(q, u, r)

Next ==
    \/ \E q \in Requests : Zap(q) \/ Command(q) \/ Answered(q)
    \/ \E r \in Receivers :
          PollAsksPower(r) \/ PollSeesService(r) \/ PersonActs(r) \/ Booted(r)
    \/ \E u \in Users : UserGoes(u) \/ UserComes(u)
    \/ AdminNext /\ UNCHANGED remoteVars
    \/ Tick
    \/ Restart

Spec == Init /\ [][Next]_vars

-----------------------------------------------------------------------------
(* Properties.                                                             *)

\* A zap that has succeeded leaves the box on, unless somebody else has used
\* its power key or its mains since the zap was asked for: a box in standby is
\* woken first (remote.py:103-107, docs/user-guide.md:79, 142).
ZapWakes ==
    \A q \in Requests \ disturbed :
        request[q].phase = "done" /\ request[q].ok /\ request[q].chan # None
            => box[request[q].rcv] = "on"

ConfirmedNow(r) ==
    /\ sess'[r] # None /\ sess'[r].confirmed
    /\ sess[r] = None \/ ~sess[r].confirmed

\* A session counts as a browser user's only if that user has done something
\* to this box, successfully, within the TTL and since the last start, and
\* nobody else has after that (active_viewer.py:1-8, 31-40, poller.py:158-175).
OnlyActorsOwn ==
    [][\A r \in Receivers :
         ConfirmedNow(r) /\ sess'[r].method = "browser" =>
             /\ acted[r][sess'[r].user] <= ActiveTTL
             /\ \A u \in Users : acted[r][u] >= acted[r][sess'[r].user]]_vars

\* And what a browser user has tuned a box to is that user's session, if the
\* user is still there and nobody came after (active_viewer.py:4-7).
ZapperOwns ==
    [][\A r \in Receivers :
         ConfirmedNow(r) /\ claim[r] \in users => sess'[r].user = claim[r]]_vars

\* A session begun with the infrared remote control is never a browser user's:
\* more than the code does.
InfraredIsNobodys ==
    [][\A r \in Receivers :
         ConfirmedNow(r) /\ claim[r] = None => sess'[r].method # "browser"]_vars

=============================================================================
