----------------------------- MODULE RemoteProofs -----------------------------
(***************************************************************************)
(* Proofs about Remote, for any receivers, users, channels and requests.   *)
(***************************************************************************)
EXTENDS Remote, TLAPS

USE NamesAssumption, HandlerAssumption, AgesAssumption, PeopleAssumption,
    ScopeAssumption, SessionAssumption, EntryAssumption

-----------------------------------------------------------------------------
(* The table of receivers and its poll jobs.                               *)

\* Between its two steps a handler has done the first: the row of a new
\* receiver is there, the job of one to delete is not.
HalfDone ==
    handler # None =>
        /\ handler.op = "create" => handler.name \in listed
        /\ handler.op = "delete" => handler.name \notin polled

ReceiversInv == ReceiversTypeOK /\ JobsMatchTable /\ HalfDone

LEMMA ReceiversStart == ReceiversInit => ReceiversInv
BY DEF ReceiversInit, ReceiversInv, ReceiversTypeOK, JobsMatchTable, HalfDone, Seeded

LEMMA ReceiversStep == ReceiversInv /\ [ReceiversNext]_receiverVars => ReceiversInv'
<1> SUFFICES ASSUME ReceiversInv, [ReceiversNext]_receiverVars PROVE ReceiversInv'
  OBVIOUS
<1> USE DEF ReceiversInv, ReceiversTypeOK, JobsMatchTable, HalfDone, Handler
<1>1. ASSUME NEW n \in Receivers, CreateCommits(n) PROVE ReceiversInv'
  <2>1. /\ listed' = listed \cup {n} /\ UNCHANGED <<polled, referred, botched>>
        /\ handler' = [op |-> "create", name |-> n] /\ handler' # None
        /\ handler = None
    BY <1>1 DEF CreateCommits
  <2> QED
    BY <2>1
<1>2. ASSUME NEW n \in Receivers, DeleteUnschedules(n) PROVE ReceiversInv'
  <2>1. /\ polled' = polled \ {n} /\ UNCHANGED <<listed, referred, botched>>
        /\ handler' = [op |-> "delete", name |-> n] /\ handler' # None
        /\ handler = None
    BY <1>2 DEF DeleteUnschedules, JobsWithout
  <2> QED
    BY <2>1
<1>3. ASSUME NEW n \in Receivers, RowsRefer(n) PROVE ReceiversInv'
  BY <1>3 DEF RowsRefer
<1>4. CASE CreateReturns
  BY <1>4 DEF CreateReturns, CreateSchedules
<1>5. CASE DeleteCommits
  BY <1>5 DEF DeleteCommits
<1>6. CASE ReceiversRestart
  BY <1>6 DEF ReceiversRestart, StartupJobs, Seeded
<1>7. CASE UNCHANGED receiverVars
  BY <1>7 DEF receiverVars
<1> QED
  BY <1>1, <1>2, <1>3, <1>4, <1>5, <1>6, <1>7 DEF ReceiversNext, AdminNext

\* A step of the remote control, the poll jobs, the boxes and the people does
\* to the table and its jobs what Receivers allows, or nothing.
LEMMA RemoteStepIsReceiversStep == [Next]_vars => [ReceiversNext]_receiverVars
<1> SUFFICES ASSUME [Next]_vars PROVE [ReceiversNext]_receiverVars
  OBVIOUS
<1>1. ASSUME NEW q \in Requests, Zap(q) \/ Command(q) \/ Answered(q)
      PROVE  UNCHANGED receiverVars
  BY <1>1 DEF Zap, Command, ZapRequested, ZapProbes, ZapWaits, ZapAsksPower,
              ZapPressesPower, ZapTunes, CommandSent, Answered, SameHandler
<1>2. ASSUME NEW r \in Receivers, PollAsksPower(r) \/ PersonActs(r) \/ Booted(r)
      PROVE  UNCHANGED receiverVars
  BY <1>2 DEF PollAsksPower, PersonActs, Booted
<1>3. ASSUME NEW r \in Receivers, PollSeesService(r)
      PROVE  RowsRefer(r) \/ UNCHANGED receiverVars
  BY <1>3 DEF PollSeesService, Stored, RowsRefer, receiverVars
<1>4. ASSUME NEW u \in Users, UserGoes(u) \/ UserComes(u)
      PROVE  UNCHANGED receiverVars
  BY <1>4 DEF UserGoes, UserComes
<1>5. CASE Tick
  BY <1>5 DEF Tick
<1>6. CASE Restart
  BY <1>6 DEF Restart, ReceiversNext
<1>7. CASE UNCHANGED vars
  BY <1>7 DEF vars
<1> QED
  BY <1>1, <1>2, <1>3, <1>4, <1>5, <1>6, <1>7 DEF Next, ReceiversNext, AdminNext

\* Whatever viewers, polls and boxes do, and wherever the process dies: nothing
\* is polled that is not in the table, and everything in it is, but for a
\* receiver whose handler is under way or whose delete has failed
\* (admin.py:153-175, 243-253, poller.py:588-608, 647-658).
THEOREM JobsMatch == Spec => []JobsMatchTable
<1>1. Init => ReceiversInv
  BY ReceiversStart DEF Init
<1>2. ReceiversInv /\ [Next]_vars => ReceiversInv'
  BY ReceiversStep, RemoteStepIsReceiversStep
<1>3. ReceiversInv => JobsMatchTable
  BY DEF ReceiversInv
<1> QED
  BY <1>1, <1>2, <1>3, PTL DEF Spec

-----------------------------------------------------------------------------
(* Types.                                                                  *)

LEMMA InitType == Init => TypeOK
<1> SUFFICES ASSUME Init PROVE TypeOK
  OBVIOUS
<1>1. ReceiversTypeOK
  BY ReceiversStart DEF Init, ReceiversInv
<1>2. NoRequest \in Request
  BY DEF NoRequest, Request, Phases
<1> QED
  BY <1>1, <1>2 DEF Init, TypeOK, Old

\* Ageing stays in range.
LEMMA OlderType == \A age \in 0..Old : Older(age) \in 0..Old /\ Older(age) >= age
BY DEF Older, Old

Boxes == {"off", "booting", "standby", "on"}

\* A handler under way knows its receiver, and a zap its channel.
Requested ==
    \A q \in Requests :
        /\ request[q].phase # "idle" => request[q].rcv \in Receivers
        /\ request[q].phase \notin {"idle", "done"} => request[q].chan \in Channels

\* What the handlers write into their records.
LEMMA GoFacts ==
    ASSUME TypeOK, Requested, NEW q \in Requests, NEW p \in Phases, Go(q, p),
           request[q].phase \notin {"idle", "done"}
    PROVE  /\ request' \in [Requests -> Request]
           /\ Requested'
           /\ request'[q] = [request[q] EXCEPT !.phase = p]
           /\ \A o \in Requests : o # q => request'[o] = request[o]
<1>1. request \in [Requests -> Request] /\ request[q] \in Request
  BY DEF TypeOK
<1>2. [request[q] EXCEPT !.phase = p] \in Request
  BY <1>1 DEF Request
<1>3. /\ request'[q] = [request[q] EXCEPT !.phase = p]
      /\ \A o \in Requests : o # q => request'[o] = request[o]
      /\ request' \in [Requests -> Request]
  BY <1>1, <1>2 DEF Go
<1>4. request'[q].rcv = request[q].rcv /\ request'[q].chan = request[q].chan
  BY <1>1, <1>3 DEF Request
<1> QED
  BY <1>3, <1>4 DEF Requested

LEMMA EndsFacts ==
    ASSUME TypeOK, Requested, NEW q \in Requests, Ends(q)
    PROVE  /\ request' \in [Requests -> Request]
           /\ Requested'
           /\ request'[q] = NoRequest
           /\ \A o \in Requests : o # q => request'[o] = request[o]
<1>1. request \in [Requests -> Request] /\ NoRequest \in Request
  BY DEF TypeOK, Request, Phases, NoRequest
<1>2. /\ request'[q] = NoRequest
      /\ \A o \in Requests : o # q => request'[o] = request[o]
      /\ request' \in [Requests -> Request]
  BY <1>1 DEF Ends
<1> QED
  BY <1>2 DEF Requested, NoRequest

\* A request that begins.
LEMMA BeginFacts ==
    ASSUME TypeOK, Requested, NEW q \in Requests, NEW u \in Users \cup {None},
           NEW r \in Receivers, NEW c \in Channels \cup {None},
           NEW p \in {"probe", "done"}, NEW ok \in BOOLEAN,
           p = "done" \/ c # None,
           request' = [request EXCEPT ![q] =
                         [phase |-> p, user |-> u, rcv |-> r, chan |-> c, ok |-> ok]]
    PROVE  /\ request' \in [Requests -> Request]
           /\ Requested'
           /\ request'[q] = [phase |-> p, user |-> u, rcv |-> r, chan |-> c, ok |-> ok]
           /\ \A o \in Requests : o # q => request'[o] = request[o]
<1> DEFINE new == [phase |-> p, user |-> u, rcv |-> r, chan |-> c, ok |-> ok]
<1>1. request \in [Requests -> Request] /\ new \in Request
  BY DEF TypeOK, Request, Phases
<1>2. new.phase = p /\ new.rcv = r /\ new.chan = c
  OBVIOUS
<1> HIDE DEF new
<1>3. /\ request'[q] = new
      /\ \A o \in Requests : o # q => request'[o] = request[o]
      /\ request' \in [Requests -> Request]
  BY <1>1 DEF new
<1>4. Requested'
  BY <1>2, <1>3 DEF Requested
<1> QED
  BY <1>3, <1>4 DEF new

\* The tuning command, answered or not.
LEMMA TunedFacts ==
    ASSUME TypeOK, Requested, NEW q \in Requests, NEW ok \in BOOLEAN,
           request[q].phase = "tune",
           request' = [request EXCEPT ![q].phase = "done", ![q].ok = ok]
    PROVE  /\ request' \in [Requests -> Request]
           /\ Requested'
           /\ request'[q] = [request[q] EXCEPT !.phase = "done", !.ok = ok]
           /\ \A o \in Requests : o # q => request'[o] = request[o]
<1>1. request \in [Requests -> Request] /\ request[q] \in Request
  BY DEF TypeOK
<1>2. [request[q] EXCEPT !.phase = "done", !.ok = ok] \in Request
  BY <1>1 DEF Request, Phases
<1>3. /\ request'[q] = [request[q] EXCEPT !.phase = "done", !.ok = ok]
      /\ \A o \in Requests : o # q => request'[o] = request[o]
      /\ request' \in [Requests -> Request]
  BY <1>1, <1>2
<1>4. /\ request'[q].phase = "done" /\ request'[q].rcv = request[q].rcv
      /\ request'[q].chan = request[q].chan
  BY <1>1, <1>3 DEF Request
<1> QED
  BY <1>3, <1>4 DEF Requested

\* A step of a zap changes requests and boxes.
LEMMA ZapType ==
    ASSUME TypeOK, Requested, NEW q \in Requests, Zap(q)
    PROVE  /\ request' \in [Requests -> Request]
           /\ Requested'
           /\ box' \in [Receivers -> Boxes]
           /\ chan' \in [Receivers -> Channels]
           /\ disturbed' \in SUBSET Requests
<1>0. /\ request \in [Requests -> Request] /\ box \in [Receivers -> Boxes]
      /\ chan \in [Receivers -> Channels] /\ disturbed \in SUBSET Requests
      /\ {"power", "wait", "key", "tune"} \subseteq Phases
  BY DEF TypeOK, Phases, Boxes
<1> USE DEF Boxes
<1>1. ASSUME NEW u \in Users \cup {None}, NEW r \in Receivers, NEW c \in Channels,
             ZapRequested(q, u, r, c)
      PROVE  /\ request' \in [Requests -> Request] /\ Requested'
             /\ UNCHANGED <<box, chan>> /\ disturbed' \in SUBSET Requests
  BY <1>0, <1>1, BeginFacts DEF ZapRequested
<1>2. CASE ZapProbes(q)
  <2>1. /\ Go(q, "power") \/ Go(q, "wait") \/ Ends(q)
        /\ request[q].phase = "probe"
        /\ UNCHANGED <<chan, disturbed>>
        /\ UNCHANGED box \/ box' = [box EXCEPT ![request[q].rcv] = "booting"]
    BY <1>2 DEF ZapProbes, Box
  <2>2. box' \in [Receivers -> Boxes] /\ chan' \in [Receivers -> Channels]
        /\ disturbed' \in SUBSET Requests
    BY <1>0, <2>1
  <2>3. request' \in [Requests -> Request] /\ Requested'
    BY <1>0, <2>1, GoFacts, EndsFacts
  <2> QED
    BY <2>2, <2>3
<1>3. CASE ZapWaits(q)
  BY <1>0, <1>3, GoFacts, EndsFacts DEF ZapWaits, AfterWait
<1>4. CASE ZapAsksPower(q)
  <2>1. (Go(q, "key") \/ Go(q, "tune")) /\ request[q].phase = "power"
        /\ UNCHANGED <<box, chan, disturbed>>
    BY <1>4 DEF ZapAsksPower
  <2> QED
    BY <1>0, <2>1, GoFacts
<1>5. CASE ZapPressesPower(q)
  BY <1>0, <1>5, GoFacts DEF ZapPressesPower, PowerKey, Box
<1>6. CASE ZapTunes(q)
  <2>1. UNCHANGED <<box, disturbed>> /\ request[q].phase = "tune"
    BY <1>6 DEF ZapTunes
  <2>2. CASE Ends(q) /\ UNCHANGED chan
    BY <1>0, <2>1, <2>2, EndsFacts
  <2>3. CASE /\ chan' = [chan EXCEPT ![request[q].rcv] = request[q].chan]
             /\ \E ok \in BOOLEAN :
                  request' = [request EXCEPT ![q].phase = "done", ![q].ok = ok]
    <3>1. chan' \in [Receivers -> Channels]
      BY <1>0, <2>1, <2>3 DEF Requested
    <3> QED
      BY <1>0, <2>1, <2>3, <3>1, TunedFacts
  <2> QED
    BY <1>6, <2>2, <2>3 DEF ZapTunes
<1> QED
  BY <1>0, <1>1, <1>2, <1>3, <1>4, <1>5, <1>6 DEF Zap

\* What the power key and the mains do to a box, and to the history.
LEMMA KeyType ==
    ASSUME TypeOK, NEW r \in Receivers
    PROVE  /\ PowerKey(r) => box' \in [Receivers -> Boxes]
           /\ Box(r, IF box[r] = "off" THEN "booting" ELSE "off")
              => box' \in [Receivers -> Boxes]
<1>1. box \in [Receivers -> Boxes]
  BY DEF TypeOK, Boxes
<1> QED
  BY <1>1 DEF PowerKey, Box, Boxes

LEMMA DisturbType ==
    ASSUME TypeOK, NEW r, NEW q, Disturb(r, q) PROVE disturbed' \in SUBSET Requests
BY DEF Disturb, Zapping, TypeOK

\* The fields of a session and of an entry of the registry.
LEMMA SessionType ==
    ASSUME TypeOK, NEW r \in Receivers, sess[r] # None
    PROVE  sess[r] \in Session /\ Confirmed(sess[r], r) \in Session
<1>1. sess[r] \in Session
  BY DEF TypeOK
<1>2. ASSUME StillActive(r), active[r].user \in users
      PROVE  [sess[r] EXCEPT !.confirmed = TRUE, !.user = active[r].user,
                             !.method = "browser"] \in Session
  <2>1. active[r].user \in Users
    BY <1>2 DEF TypeOK, StillActive, Entry
  <2> QED
    BY <1>1, <2>1 DEF Session
<1>3. ASSUME DefaultUser[r] \in users
      PROVE  [sess[r] EXCEPT !.confirmed = TRUE, !.user = DefaultUser[r],
                             !.method = "location"] \in Session
  <2>1. DefaultUser[r] \in Users
    BY <1>3 DEF TypeOK
  <2> QED
    BY <1>1, <2>1 DEF Session
<1>4. [sess[r] EXCEPT !.confirmed = TRUE] \in Session
  BY <1>1 DEF Session
<1> QED
  BY <1>1, <1>2, <1>3, <1>4 DEF Confirmed

LEMMA TypeStep == TypeOK /\ Requested /\ ReceiversTypeOK' /\ [Next]_vars
                  => TypeOK' /\ Requested'
<1> SUFFICES ASSUME TypeOK, Requested, ReceiversTypeOK', [Next]_vars
             PROVE  TypeOK' /\ Requested'
  OBVIOUS
<1>1. ASSUME NEW q \in Requests, Zap(q)
      PROVE  TypeOK' /\ Requested'
  <2>1. SameHandler
    BY <1>1 DEF Zap, ZapRequested, ZapProbes, ZapWaits, ZapAsksPower,
                ZapPressesPower, ZapTunes
  <2> QED
    BY <1>1, <2>1, ZapType DEF TypeOK, SameHandler, SamePeople, receiverVars, Boxes
<1>2. ASSUME NEW q \in Requests, NEW u \in Users \cup {None}, NEW r \in Receivers,
             CommandSent(q, u, r)
      PROVE  TypeOK' /\ Requested'
  <2>1. request' \in [Requests -> Request] /\ Requested'
    <3>1. PICK ok \in BOOLEAN : request' = [request EXCEPT ![q] =
             [phase |-> "done", user |-> u, rcv |-> r, chan |-> None, ok |-> ok]]
      BY <1>2 DEF CommandSent
    <3> QED
      BY <3>1, BeginFacts
  <2>2. /\ box' \in [Receivers -> Boxes] /\ chan' \in [Receivers -> Channels]
        /\ disturbed' \in SUBSET Requests /\ SameHandler
    <3>1. SameHandler
      BY <1>2 DEF CommandSent
    <3>2. CASE PowerKey(r) /\ Disturb(r, q) /\ UNCHANGED chan
      BY <3>1, <3>2, KeyType, DisturbType DEF TypeOK
    <3>3. CASE /\ \E c \in Channels : chan' = [chan EXCEPT ![r] = c]
               /\ disturbed' = disturbed \ {q} /\ UNCHANGED box
      BY <3>1, <3>3 DEF TypeOK, Boxes
    <3> QED
      BY <1>2, <3>2, <3>3 DEF CommandSent
  <2> QED
    BY <2>1, <2>2 DEF TypeOK, SameHandler, SamePeople, receiverVars, Boxes
<1>3. ASSUME NEW q \in Requests, Answered(q)
      PROVE  TypeOK' /\ Requested'
  <2> DEFINE r == request[q].rcv
             u == request[q].user
  <2>1. Ends(q) /\ request[q] \in Request
    BY <1>3 DEF Answered, TypeOK
  <2>2. request' \in [Requests -> Request] /\ Requested'
    BY <2>1, EndsFacts
  <2>3. u \in Users \cup {None} /\ r \in Receivers
    BY <1>3, <2>1 DEF Answered, Request, Requested
  <2>4. /\ active' \in [Receivers -> Entry \cup {None}]
        /\ acted' \in [Receivers -> [Users -> 0..Old]]
        /\ claim' \in [Receivers -> Users \cup {None}]
    <3>1. CASE UNCHANGED <<active, acted, claim>>
      BY <3>1 DEF TypeOK
    <3>2. CASE /\ u # None /\ RecordActive(r, u)
               /\ acted' = [acted EXCEPT ![r][u] = 0]
               /\ claim' = [claim EXCEPT ![r] =
                     IF request[q].chan = chan[r] THEN u
                     ELSE IF @ = u THEN u ELSE None]
      <4> HIDE DEF r, u
      <4>1. [user |-> u, age |-> 0] \in Entry /\ 0 \in 0..Old
        BY <2>3, <3>2 DEF Entry, Old
      <4>2. active' \in [Receivers -> Entry \cup {None}]
        BY <2>3, <3>2, <4>1 DEF RecordActive, TypeOK
      <4>3. acted' \in [Receivers -> [Users -> 0..Old]]
        BY <2>3, <3>2, <4>1 DEF TypeOK
      <4>4. claim' \in [Receivers -> Users \cup {None}]
        BY <2>3, <3>2 DEF TypeOK
      <4> QED
        BY <4>2, <4>3, <4>4
    <3> QED
      BY <1>3, <3>1, <3>2 DEF Answered
  <2> QED
    BY <1>3, <2>2, <2>4 DEF Answered, TypeOK
<1>4. ASSUME NEW r \in Receivers, PollAsksPower(r)
      PROVE  TypeOK' /\ Requested'
  <2>1. /\ asking' \in SUBSET Receivers
        /\ tuned' \in [Receivers -> Channels \cup {None}]
        /\ sess' \in [Receivers -> Session \cup {None}]
    BY <1>4 DEF PollAsksPower, TypeOK
  <2> QED
    BY <1>4, <2>1 DEF PollAsksPower, TypeOK, Requested
<1>5. ASSUME NEW r \in Receivers, PollSeesService(r)
      PROVE  TypeOK' /\ Requested'
  <2>1. asking' \in SUBSET Receivers /\ tuned' \in [Receivers -> Channels \cup {None}]
    <3>1. tuned' = tuned \/ tuned' = [tuned EXCEPT ![r] = chan[r]]
      BY <1>5 DEF PollSeesService
    <3>2. asking' = asking \ {r}
      BY <1>5 DEF PollSeesService
    <3> QED
      BY <3>1, <3>2 DEF TypeOK
  <2>2. [age |-> 0, confirmed |-> FALSE, user |-> None,
         method |-> None] \in Session
    BY DEF Session
  <2>3. sess' \in [Receivers -> Session \cup {None}]
    <3>1. CASE sess' = [sess EXCEPT ![r] =
                 [age |-> 0, confirmed |-> FALSE,
                  user |-> None, method |-> None]]
      BY <2>2, <3>1 DEF TypeOK
    <3>2. CASE sess[r] # None /\ sess' = [sess EXCEPT ![r] = Confirmed(sess[r], r)]
      BY <3>2, SessionType DEF TypeOK
    <3>3. CASE sess' = sess \/ sess' = [sess EXCEPT ![r] = None]
      BY <3>3 DEF TypeOK
    <3>4. \/ sess' = [sess EXCEPT ![r] =
                 [age |-> 0, confirmed |-> FALSE, user |-> None, method |-> None]]
          \/ sess[r] # None /\ sess' = [sess EXCEPT ![r] = Confirmed(sess[r], r)]
          \/ sess' = sess \/ sess' = [sess EXCEPT ![r] = None]
      BY <1>5 DEF PollSeesService
    <3> QED
      BY <3>1, <3>2, <3>3, <3>4
  <2> QED
    BY <1>5, <2>1, <2>3 DEF PollSeesService, TypeOK, Requested
<1>6. ASSUME NEW r \in Receivers, PersonActs(r) \/ Booted(r)
      PROVE  TypeOK' /\ Requested'
  <2>1. /\ box' \in [Receivers -> Boxes] /\ chan' \in [Receivers -> Channels]
        /\ disturbed' \in SUBSET Requests /\ claim' \in [Receivers -> Users \cup {None}]
    <3>1. CASE PowerKey(r) /\ Disturb(r, None) /\ UNCHANGED <<chan, claim>>
      BY <3>1, KeyType, DisturbType DEF TypeOK
    <3>2. CASE /\ Box(r, IF box[r] = "off" THEN "booting" ELSE "off")
               /\ Disturb(r, None) /\ UNCHANGED <<chan, claim>>
      BY <3>2, KeyType, DisturbType DEF TypeOK
    <3>3. CASE /\ \E c \in Channels : chan' = [chan EXCEPT ![r] = c]
               /\ claim' = [claim EXCEPT ![r] = None] /\ UNCHANGED <<box, disturbed>>
      BY <3>3 DEF TypeOK, Boxes
    <3>4. CASE /\ \E state \in {"on", "standby"} : Box(r, state)
               /\ UNCHANGED <<chan, claim, disturbed>>
      BY <3>4 DEF Box, TypeOK, Boxes
    <3> QED
      BY <1>6, <3>1, <3>2, <3>3, <3>4 DEF PersonActs, Booted
  <2> QED
    BY <1>6, <2>1 DEF PersonActs, Booted, TypeOK, Requested, Boxes
<1>7. ASSUME NEW u \in Users, UserGoes(u) \/ UserComes(u)
      PROVE  TypeOK' /\ Requested'
  BY <1>7 DEF UserGoes, UserComes, TypeOK, Requested
<1>8. CASE Tick
  <2>1. active' \in [Receivers -> Entry \cup {None}]
    <3>1. ASSUME NEW r \in Receivers, active[r] # None
          PROVE  [active[r] EXCEPT !.age = Older(@)] \in Entry
      <4>1. active[r] \in Entry
        BY <3>1 DEF TypeOK
      <4> QED
        BY <4>1, OlderType DEF Entry
    <3> QED
      BY <1>8, <3>1 DEF Tick
  <2>2. sess' \in [Receivers -> Session \cup {None}]
    <3>1. ASSUME NEW r \in Receivers, sess[r] # None
          PROVE  [sess[r] EXCEPT !.age = IF @ = MinWatch THEN @ ELSE @ + 1] \in Session
      BY <3>1, SessionType DEF Session
    <3> QED
      BY <1>8, <3>1 DEF Tick
  <2>3. acted' \in [Receivers -> [Users -> 0..Old]]
    BY <1>8, OlderType DEF Tick, TypeOK
  <2>4. claim' \in [Receivers -> Users \cup {None}]
    BY <1>8 DEF Tick, TypeOK
  <2> QED
    BY <1>8, <2>1, <2>2, <2>3, <2>4 DEF Tick, TypeOK, Requested
<1>9. CASE Restart
  <2>1. NoRequest \in Request /\ 0 \in 0..Old /\ Old \in 0..Old
    BY DEF NoRequest, Request, Phases, Old
  <2> QED
    BY <1>9, <2>1 DEF Restart, TypeOK, Requested, NoRequest
<1>10. CASE UNCHANGED remoteVars
  BY <1>10 DEF remoteVars, TypeOK, Requested
<1>11. CASE UNCHANGED vars
  BY <1>10, <1>11 DEF vars
<1> QED
  BY <1>1, <1>2, <1>3, <1>4, <1>5, <1>6, <1>7, <1>8, <1>9, <1>10, <1>11 DEF Next, Command

-----------------------------------------------------------------------------
(* Whose session it is.                                                    *)

\* An entry of the registry is as old as its user's last action, and nobody's
\* action is younger.
ActiveIsLatest ==
    \A r \in Receivers :
        active[r] # None =>
            /\ acted[r][active[r].user] = active[r].age
            /\ \A u \in Users : acted[r][u] >= active[r].age

\* Whoever tuned the box last, from the browser, is in the registry.
ClaimIsActive ==
    \A r \in Receivers :
        claim[r] # None => /\ active[r] # None /\ active[r].user = claim[r]
                           /\ active[r].age <= ActiveTTL

\* A session nobody has confirmed is nobody's.
Unattributed ==
    \A r \in Receivers :
        sess[r] # None /\ ~sess[r].confirmed => sess[r].method = None

Owners == TypeOK /\ Requested /\ ActiveIsLatest /\ ClaimIsActive

\* The registry changes with an answer, with time and with a restart only.
LEMMA OwnersStep == Owners /\ TypeOK' /\ Requested' /\ [Next]_vars => Owners'
<1> SUFFICES ASSUME Owners, TypeOK', Requested', [Next]_vars PROVE Owners'
  OBVIOUS
<1>0. TypeOK /\ Requested
  BY DEF Owners
<1>1. CASE UNCHANGED <<active, acted, claim>>
  BY <1>1 DEF Owners, ActiveIsLatest, ClaimIsActive
<1>2. ASSUME NEW q \in Requests, Answered(q)
      PROVE  Owners'
  <2> DEFINE r == request[q].rcv
             u == request[q].user
  <2>1. r \in Receivers /\ u \in Users \cup {None}
    BY <1>0, <1>2 DEF Answered, Requested, TypeOK, Request
  <2>2. CASE /\ u # None /\ RecordActive(r, u)
             /\ acted' = [acted EXCEPT ![r][u] = 0]
             /\ claim' = [claim EXCEPT ![r] =
                   IF request[q].chan = chan[r] THEN u
                   ELSE IF @ = u THEN u ELSE None]
    <3> HIDE DEF r, u
    <3>1. /\ active'[r] = [user |-> u, age |-> 0] /\ active'[r] # None
          /\ \A o \in Receivers : o # r => active'[o] = active[o]
      BY <1>0, <2>1, <2>2 DEF RecordActive, TypeOK, Entry, Old
    <3>2. /\ \A v \in Users : acted'[r][v] = IF v = u THEN 0 ELSE acted[r][v]
          /\ \A o \in Receivers : o # r => acted'[o] = acted[o]
      BY <1>0, <2>1, <2>2 DEF TypeOK
    <3>3. /\ claim'[r] \in {u, None}
          /\ \A o \in Receivers : o # r => claim'[o] = claim[o]
      BY <1>0, <2>1, <2>2 DEF TypeOK
    <3>4. ActiveIsLatest'
      BY <1>0, <2>1, <2>2, <3>1, <3>2 DEF Owners, ActiveIsLatest, TypeOK
    <3>5. ClaimIsActive'
      BY <2>1, <3>1, <3>3 DEF Owners, ClaimIsActive
    <3> QED
      BY <3>4, <3>5 DEF Owners
  <2> QED
    BY <1>1, <1>2, <2>2 DEF Answered
<1>3. CASE Tick
  <2>1. ASSUME NEW r \in Receivers
        PROVE  /\ active[r] # None => active[r] \in Entry
               /\ \A u \in Users : acted[r][u] \in 0..Old
                                 /\ acted'[r][u] = Older(acted[r][u])
               /\ active[r] = None => active'[r] = None
               /\ active[r] # None => active'[r] = [active[r] EXCEPT !.age = Older(@)]
               /\ claim'[r] = IF claim[r] # None /\ acted'[r][claim[r]] = Old
                              THEN None ELSE claim[r]
    BY <1>0, <1>3 DEF Tick, TypeOK
  <2>2. ASSUME NEW r \in Receivers, active'[r] # None
        PROVE  /\ acted'[r][active'[r].user] = active'[r].age
               /\ \A u \in Users : acted'[r][u] >= active'[r].age
               /\ active'[r].user = active[r].user
               /\ active[r] # None /\ active'[r].age \in 0..Old
    <3>1. /\ active[r] # None /\ active[r] \in Entry
          /\ active'[r].age = Older(active[r].age)
          /\ active'[r].user = active[r].user
      BY <2>1, <2>2 DEF Entry
    <3>2. /\ acted[r][active[r].user] = active[r].age
          /\ \A u \in Users : acted[r][u] >= active[r].age
      BY <3>1 DEF Owners, ActiveIsLatest
    <3>3. active[r].user \in Users /\ active[r].age \in 0..Old
      BY <3>1 DEF Entry
    <3>4. \A a, b \in 0..Old : a >= b => Older(a) >= Older(b)
      BY DEF Older, Old
    <3>5. \A u \in Users : acted[r][u] \in 0..Old /\ acted'[r][u] = Older(acted[r][u])
      BY <2>1
    <3>6. \A u \in Users : acted'[r][u] >= active'[r].age
      BY <3>1, <3>2, <3>3, <3>4, <3>5
    <3>7. acted'[r][active'[r].user] = active'[r].age /\ active'[r].age \in 0..Old
      BY <3>1, <3>2, <3>3, <3>5, OlderType
    <3> QED
      BY <3>1, <3>6, <3>7
  <2>3. ActiveIsLatest'
    BY <2>2 DEF ActiveIsLatest
  <2>4. ASSUME NEW r \in Receivers, claim'[r] # None
        PROVE  /\ active'[r] # None /\ active'[r].user = claim'[r]
               /\ active'[r].age <= ActiveTTL
    <3>1. claim'[r] = claim[r] /\ claim[r] # None /\ acted'[r][claim[r]] # Old
      BY <2>1, <2>4
    <3>2. active[r] # None /\ active[r].user = claim[r]
      BY <3>1 DEF Owners, ClaimIsActive
    <3>3. active'[r] # None
      <4>1. active[r] \in Entry /\ active'[r] = [active[r] EXCEPT !.age = Older(@)]
        BY <2>1, <3>2
      <4>2. active'[r] \in Entry
        BY <4>1, OlderType DEF Entry
      <4> QED
        BY <4>2
    <3>4. active'[r].age # Old /\ active'[r].age \in 0..Old
      BY <2>2, <3>1, <3>2, <3>3
    <3> QED
      BY <2>2, <3>1, <3>2, <3>3, <3>4 DEF Old
  <2> QED
    BY <2>3, <2>4 DEF Owners, ClaimIsActive
<1>4. CASE Restart
  BY <1>4 DEF Restart, Owners, ActiveIsLatest, ClaimIsActive
<1>5. ASSUME NEW r \in Receivers, PersonActs(r)
      PROVE  Owners'
  <2>1. /\ UNCHANGED <<active, acted>>
        /\ \A o \in Receivers : claim'[o] \in {claim[o], None}
    BY <1>0, <1>5 DEF PersonActs, TypeOK
  <2> QED
    BY <2>1 DEF Owners, ActiveIsLatest, ClaimIsActive
<1>6. ASSUME NEW q \in Requests, Zap(q) \/ Command(q)
      PROVE  UNCHANGED <<active, acted, claim>>
  BY <1>6 DEF Zap, Command, ZapRequested, ZapProbes, ZapWaits, ZapAsksPower,
              ZapPressesPower, ZapTunes, CommandSent, SameHandler, SamePeople
<1>7. ASSUME NEW r \in Receivers, PollAsksPower(r) \/ PollSeesService(r) \/ Booted(r)
      PROVE  UNCHANGED <<active, acted, claim>>
  BY <1>7 DEF PollAsksPower, PollSeesService, Booted
<1>8. ASSUME NEW u \in Users, UserGoes(u) \/ UserComes(u)
      PROVE  UNCHANGED <<active, acted, claim>>
  BY <1>8 DEF UserGoes, UserComes
<1> QED
  BY <1>1, <1>2, <1>3, <1>4, <1>5, <1>6, <1>7, <1>8 DEF Next, vars, remoteVars

\* What Confirmed writes.
LEMMA ConfirmedFacts ==
    ASSUME TypeOK, Unattributed, NEW r \in Receivers, sess[r] # None, ~sess[r].confirmed
    PROVE  /\ Confirmed(sess[r], r).confirmed
           /\ Confirmed(sess[r], r).method = "browser"
              => StillActive(r) /\ Confirmed(sess[r], r).user = active[r].user
           /\ StillActive(r) /\ active[r].user \in users
              => Confirmed(sess[r], r).user = active[r].user
<1>1. sess[r] \in Session /\ sess[r].method = None
  BY DEF TypeOK, Unattributed
<1> QED
  BY <1>1 DEF Confirmed, Session

\* What a step does to a session: only a poll that sees the same service again
\* confirms it, and asks the registry whose it is.
LEMMA SessionStep ==
    ASSUME TypeOK, [Next]_vars, NEW r \in Receivers
    PROVE  \/ sess'[r] \in {None, sess[r]}
           \/ sess'[r] # None /\ ~sess'[r].confirmed /\ sess'[r].method = None
           \/ /\ sess[r] # None /\ sess'[r] # None
              /\ sess'[r].confirmed = sess[r].confirmed
              /\ sess'[r].method = sess[r].method
           \/ /\ sess[r] # None /\ ~sess[r].confirmed
              /\ sess'[r] = Confirmed(sess[r], r)
<1>0. sess \in [Receivers -> Session \cup {None}]
  BY DEF TypeOK
<1>1. ASSUME UNCHANGED sess PROVE sess'[r] \in {None, sess[r]}
  BY <1>1
<1>2. ASSUME NEW o \in Receivers, PollSeesService(o)
      PROVE  \/ sess'[r] \in {None, sess[r]}
             \/ sess'[r] # None /\ ~sess'[r].confirmed /\ sess'[r].method = None
             \/ /\ sess[r] # None /\ ~sess[r].confirmed
                /\ sess'[r] = Confirmed(sess[r], r)
  <2> DEFINE new == [age |-> 0, confirmed |-> FALSE,
                     user |-> None, method |-> None]
  <2>1. new \in Session /\ ~new.confirmed /\ new.method = None
    BY DEF Session
  <2> HIDE DEF new
  <2>2. CASE sess' = [sess EXCEPT ![o] = new]
    BY <1>0, <2>1, <2>2
  <2>3. CASE /\ sess[o] # None /\ ~sess[o].confirmed
             /\ sess' = [sess EXCEPT ![o] = Confirmed(sess[o], o)]
    <3>1. CASE r = o
      BY <1>0, <2>3, <3>1
    <3>2. CASE r # o
      BY <1>0, <2>3, <3>2
    <3> QED
      BY <3>1, <3>2
  <2>4. CASE sess' = [sess EXCEPT ![o] = None]
    BY <1>0, <2>4
  <2>5. \/ sess' = [sess EXCEPT ![o] = new]
        \/ /\ sess[o] # None /\ ~sess[o].confirmed
           /\ sess' = [sess EXCEPT ![o] = Confirmed(sess[o], o)]
        \/ sess' = [sess EXCEPT ![o] = None] \/ sess' = sess
    BY <1>2 DEF PollSeesService, new
  <2> QED
    BY <1>1, <2>2, <2>3, <2>4, <2>5
<1>3. ASSUME NEW o \in Receivers, PollAsksPower(o)
      PROVE  sess'[r] \in {None, sess[r]}
  BY <1>0, <1>3 DEF PollAsksPower
<1>4. ASSUME Tick, sess[r] # None
      PROVE  /\ sess'[r] # None
             /\ sess'[r].confirmed = sess[r].confirmed
             /\ sess'[r].method = sess[r].method
  <2>1. sess[r] \in Session
    BY <1>0, <1>4
  <2>2. sess'[r] = [sess[r] EXCEPT !.age = IF @ = MinWatch THEN @ ELSE @ + 1]
    BY <1>4 DEF Tick
  <2>3. sess'[r] \in Session
    BY <2>1, <2>2 DEF Session
  <2> QED
    BY <2>1, <2>2, <2>3 DEF Session
<1>5. ASSUME Tick, sess[r] = None PROVE sess'[r] = None
  BY <1>5 DEF Tick
<1>6. ASSUME Restart PROVE sess'[r] = None
  BY <1>6 DEF Restart
<1>7. ASSUME NEW q \in Requests, Zap(q) \/ Command(q) \/ Answered(q)
      PROVE  UNCHANGED sess
  BY <1>7 DEF Zap, Command, ZapRequested, ZapProbes, ZapWaits, ZapAsksPower,
              ZapPressesPower, ZapTunes, CommandSent, Answered, SameHandler, SamePeople
<1>8. ASSUME NEW o \in Receivers, PersonActs(o) \/ Booted(o)
      PROVE  UNCHANGED sess
  BY <1>8 DEF PersonActs, Booted
<1>9. ASSUME NEW u \in Users, UserGoes(u) \/ UserComes(u)
      PROVE  UNCHANGED sess
  BY <1>9 DEF UserGoes, UserComes
<1> QED
  BY <1>1, <1>2, <1>3, <1>4, <1>5, <1>6, <1>7, <1>8, <1>9 DEF Next, vars, remoteVars

LEMMA UnattributedStep == TypeOK /\ Unattributed /\ [Next]_vars => Unattributed'
<1> SUFFICES ASSUME TypeOK, Unattributed, [Next]_vars, NEW r \in Receivers,
                    sess'[r] # None, ~sess'[r].confirmed
             PROVE  sess'[r].method = None
  BY DEF Unattributed
<1>1. sess[r] # None /\ ~sess[r].confirmed => sess[r].method = None
  BY DEF Unattributed
<1> QED
  BY <1>1, SessionStep, ConfirmedFacts

\* A step that confirms a session says whose it is.
LEMMA ConfirmStep ==
    ASSUME TypeOK, Unattributed, [Next]_vars, NEW r \in Receivers, ConfirmedNow(r)
    PROVE  /\ sess'[r].method = "browser"
              => StillActive(r) /\ sess'[r].user = active[r].user
           /\ StillActive(r) /\ active[r].user \in users
              => sess'[r].user = active[r].user
<1>1. /\ sess[r] # None /\ ~sess[r].confirmed
      /\ sess'[r] = Confirmed(sess[r], r)
  BY SessionStep DEF ConfirmedNow
<1> QED
  BY <1>1, ConfirmedFacts

-----------------------------------------------------------------------------
(* What a zap has achieved.                                                *)

\* One zap per box at a time, no answers or keys that get lost, and boxes that
\* come up awake.
Calm == ~Overlapping /\ ~BootsAsleep /\ ~Losses

IsZap(q) == request[q].phase # "idle" /\ request[q].chan # None

OneZap ==
    \A q, o \in Requests :
        IsZap(q) /\ IsZap(o) /\ request[q].rcv = request[o].rcv => q = o

\* The box, at each stage of a zap nobody has come between.
Progress(q) ==
    LET at == box[request[q].rcv] IN
    /\ request[q].phase = "wait" => at # "standby"
    /\ request[q].phase = "power" => at \in {"on", "standby"}
    /\ request[q].phase = "key" => at = "standby"
    /\ request[q].phase \in {"tune", "done"} => at = "on"

ZapProgress ==
    \A q \in Requests \ disturbed : request[q].chan # None => Progress(q)

Zaps == TypeOK /\ Requested /\ OneZap /\ ZapProgress

\* Only a request that begins may become a zap.
LEMMA OneZapStep ==
    ASSUME OneZap, NEW q \in Requests,
           \A o \in Requests : o # q => request'[o] = request[o],
           \/ ~IsZap(q)'
           \/ IsZap(q) /\ request'[q].rcv = request[q].rcv
           \/ \A o \in Requests \ {q} : IsZap(o) => request[o].rcv # request'[q].rcv
    PROVE  OneZap'
BY DEF OneZap, IsZap

\* What a step that leaves the other requests and their boxes alone has to show.
LEMMA ProgressStep ==
    ASSUME ZapProgress, NEW q \in Requests,
           \A o \in Requests : o # q => request'[o] = request[o],
           \A o \in Requests \ {q} : o \notin disturbed' /\ IsZap(o) =>
                o \notin disturbed /\ box'[request[o].rcv] = box[request[o].rcv],
           q \notin disturbed' /\ request'[q].chan # None => Progress(q)'
    PROVE  ZapProgress'
<1> SUFFICES ASSUME NEW o \in Requests, o \notin disturbed', request'[o].chan # None
             PROVE  Progress(o)'
  BY DEF ZapProgress
<1>1. CASE o = q
  BY <1>1
<1>2. CASE o # q
  <2>1. request'[o] = request[o]
    BY <1>2
  <2>2. CASE request[o].phase = "idle"
    BY <2>1, <2>2 DEF Progress
  <2>3. CASE request[o].phase # "idle"
    <3>1. o \notin disturbed /\ box'[request[o].rcv] = box[request[o].rcv]
      BY <1>2, <2>1, <2>3 DEF IsZap
    <3>2. Progress(o)
      BY <2>1, <3>1 DEF ZapProgress
    <3> QED
      BY <2>1, <3>1, <3>2 DEF Progress
  <2> QED
    BY <2>2, <2>3
<1> QED
  BY <1>1, <1>2

\* The steps of a zap.
LEMMA ZapStep ==
    ASSUME Calm, Zaps, NEW q \in Requests, Zap(q)
    PROVE  OneZap' /\ ZapProgress'
<1>0. /\ TypeOK /\ Requested /\ OneZap /\ ZapProgress
      /\ request[q] \in Request /\ request \in [Requests -> Request]
      /\ box \in [Receivers -> Boxes]
      /\ {"power", "wait", "key", "tune"} \subseteq Phases
  BY DEF Zaps, TypeOK, Boxes, Phases
<1> DEFINE r == request[q].rcv
<1>1. ASSUME NEW u \in Users \cup {None}, NEW o \in Receivers, NEW c \in Channels,
             ZapRequested(q, u, o, c)
      PROVE  OneZap' /\ ZapProgress'
  <2>1. /\ request'[q] = [phase |-> "probe", user |-> u, rcv |-> o, chan |-> c, ok |-> FALSE]
        /\ \A p \in Requests : p # q => request'[p] = request[p]
        /\ disturbed' = disturbed \ {q} /\ box' = box
        /\ Zapping(o) = {}
    BY <1>0, <1>1, BeginFacts DEF ZapRequested, Calm
  <2>2. \A p \in Requests : IsZap(p) => request[p].rcv # o
    BY <2>1 DEF Zapping, IsZap
  <2> QED
    BY <1>0, <2>1, <2>2, OneZapStep, ProgressStep DEF Progress
\* The later steps: q stays a zap of its box, or ends.
<1>2. ASSUME IsZap(q), box'[r] \in Boxes,
             \A o \in Receivers : o # r => box'[o] = box[o],
             UNCHANGED disturbed,
             \A o \in Requests : o # q => request'[o] = request[o],
             \/ request'[q] = NoRequest
             \/ /\ request'[q].rcv = r /\ request'[q].chan = request[q].chan
                /\ q \notin disturbed => Progress(q)'
      PROVE  OneZap' /\ ZapProgress'
  <2>1. OneZap'
    BY <1>0, <1>2, OneZapStep DEF IsZap, NoRequest
  <2>2. \A o \in Requests \ {q} : IsZap(o) => /\ request[o].rcv # r
                                            /\ request[o].rcv \in Receivers
    BY <1>0, <1>2 DEF OneZap, Requested, IsZap
  <2>3. ZapProgress'
    BY <1>0, <1>2, <2>2, ProgressStep DEF NoRequest
  <2> QED
    BY <2>1, <2>3
<1>3. ASSUME NEW p \in Phases, Go(q, p), request[q].phase \notin {"idle", "done"}
      PROVE  /\ IsZap(q) /\ request'[q].rcv = r /\ request'[q].chan = request[q].chan
             /\ request'[q].phase = p
             /\ \A o \in Requests : o # q => request'[o] = request[o]
  <2>1. /\ request'[q] = [request[q] EXCEPT !.phase = p]
        /\ \A o \in Requests : o # q => request'[o] = request[o]
    BY <1>0, <1>3, GoFacts
  <2>2. IsZap(q)
    BY <1>0, <1>3 DEF IsZap, Requested
  <2> QED
    BY <1>0, <2>1, <2>2 DEF Request
<1>4. ASSUME Ends(q), request[q].phase \notin {"idle", "done"}
      PROVE  /\ IsZap(q) /\ request'[q] = NoRequest
             /\ \A o \in Requests : o # q => request'[o] = request[o]
  BY <1>0, <1>4, EndsFacts DEF IsZap, Requested
<1>5. request[q].phase \notin {"idle", "done"} =>
          /\ r \in Receivers /\ request[q].chan # None
          /\ q \notin disturbed => Progress(q)
  BY <1>0 DEF Requested, ZapProgress
<1>6. CASE ZapProbes(q)
  <2>1. request[q].phase = "probe" /\ UNCHANGED disturbed
    BY <1>6 DEF ZapProbes
  <2>2. CASE Ends(q) /\ UNCHANGED box
    BY <1>0, <1>2, <1>4, <1>5, <2>1, <2>2
  <2>3. CASE TRUE \in SaysOnline(r) /\ Go(q, "power") /\ UNCHANGED box
    BY <1>0, <1>2, <1>3, <1>5, <2>1, <2>3 DEF SaysOnline, Up, Calm, Progress
  <2>4. CASE /\ FALSE \in SaysOnline(r) /\ Go(q, "wait")
             /\ (box[r] = "off" /\ Box(r, "booting")) \/ UNCHANGED box
    <3>1. box[r] # "standby" /\ box'[r] # "standby" /\ box'[r] \in Boxes
          /\ \A o \in Receivers : o # r => box'[o] = box[o]
      BY <1>0, <1>5, <2>1, <2>4 DEF SaysOnline, Up, Calm, Box, Boxes
    <3>2. Go(q, "wait")
      BY <2>4
    <3> QED
      BY <1>0, <1>2, <1>3, <1>5, <2>1, <3>1, <3>2 DEF Progress
  <2> QED
    BY <1>6, <2>2, <2>3, <2>4 DEF ZapProbes
<1>7. CASE ZapWaits(q)
  <2>1. request[q].phase = "wait" /\ UNCHANGED <<box, disturbed>>
    BY <1>7 DEF ZapWaits
  <2>2. CASE Ends(q)
    BY <1>0, <1>2, <1>4, <1>5, <2>1, <2>2
  <2>3. CASE TRUE \in SaysOnline(r) /\ Go(q, "tune")
    <3>1. q \notin disturbed => box[r] = "on"
      BY <1>5, <2>1, <2>3 DEF SaysOnline, Up, Calm, Progress
    <3> QED
      BY <1>0, <1>2, <1>3, <1>5, <2>1, <2>3, <3>1 DEF Progress
  <2> QED
    BY <1>7, <2>2, <2>3 DEF ZapWaits, AfterWait
<1>8. CASE ZapAsksPower(q)
  <2>1. request[q].phase = "power" /\ UNCHANGED <<box, disturbed>>
    BY <1>8 DEF ZapAsksPower
  <2>2. q \notin disturbed => SaysPower(r) = {box[r]} /\ box[r] \in {"on", "standby"}
    BY <1>5, <2>1 DEF SaysPower, Up, Calm, Progress
  <2>3. PICK answer \in SaysPower(r) : Go(q, IF answer = "standby" THEN "key" ELSE "tune")
    BY <1>8 DEF ZapAsksPower, Asleep
  <2>4. CASE answer = "standby"
    BY <1>0, <1>2, <1>3, <1>5, <2>1, <2>2, <2>3, <2>4 DEF Progress
  <2>5. CASE answer # "standby"
    BY <1>0, <1>2, <1>3, <1>5, <2>1, <2>2, <2>3, <2>5 DEF Progress
  <2> QED
    BY <2>4, <2>5
<1>9. CASE ZapPressesPower(q)
  <2>1. request[q].phase = "key" /\ UNCHANGED disturbed /\ Go(q, "tune")
    BY <1>9 DEF ZapPressesPower
  <2>2. /\ box'[r] \in Boxes /\ \A o \in Receivers : o # r => box'[o] = box[o]
        /\ box[r] = "standby" => box'[r] = "on"
    BY <1>0, <1>5, <1>9, <2>1 DEF ZapPressesPower, PowerKey, Box, Up, Calm, Boxes
  <2>3. q \notin disturbed => box'[r] = "on"
    BY <1>5, <2>1, <2>2 DEF Progress
  <2> QED
    BY <1>0, <1>2, <1>3, <1>5, <2>1, <2>2, <2>3 DEF Progress
<1>10. CASE ZapTunes(q)
  <2>1. request[q].phase = "tune" /\ UNCHANGED <<box, disturbed>>
    BY <1>10 DEF ZapTunes
  <2>2. CASE Ends(q)
    BY <1>0, <1>2, <1>4, <1>5, <2>1, <2>2
  <2>3. ASSUME NEW ok \in BOOLEAN,
               request' = [request EXCEPT ![q].phase = "done", ![q].ok = ok]
        PROVE  OneZap' /\ ZapProgress'
    <3>1. /\ request'[q].phase = "done" /\ request'[q].rcv = r
          /\ request'[q].chan = request[q].chan /\ IsZap(q)
          /\ \A o \in Requests : o # q => request'[o] = request[o]
      BY <1>0, <1>5, <2>1, <2>3, TunedFacts DEF IsZap, Request
    <3> QED
      BY <1>0, <1>2, <1>5, <2>1, <3>1 DEF Progress
  <2> QED
    BY <1>10, <2>2, <2>3 DEF ZapTunes
<1> QED
  BY <1>1, <1>6, <1>7, <1>8, <1>9, <1>10 DEF Zap

\* The others: they begin or end a command, or disturb what they change.
LEMMA ZapsStep == Calm /\ Zaps /\ [Next]_vars => OneZap' /\ ZapProgress'
<1> SUFFICES ASSUME Calm, Zaps, [Next]_vars PROVE OneZap' /\ ZapProgress'
  OBVIOUS
<1>0. /\ TypeOK /\ Requested /\ OneZap /\ ZapProgress
      /\ box \in [Receivers -> Boxes] /\ request \in [Requests -> Request]
  BY DEF Zaps, TypeOK, Boxes
<1>1. ASSUME NEW q \in Requests, Zap(q)
      PROVE  OneZap' /\ ZapProgress'
  BY <1>1, ZapStep
<1>2. ASSUME UNCHANGED <<request, box, disturbed>>
      PROVE  OneZap' /\ ZapProgress'
  BY <1>0, <1>2 DEF OneZap, IsZap, ZapProgress, Progress
<1>3. ASSUME NEW q \in Requests, NEW u \in Users \cup {None}, NEW r \in Receivers,
             CommandSent(q, u, r)
      PROVE  OneZap' /\ ZapProgress'
  <2>1. request[q].phase = "idle"
    BY <1>3 DEF CommandSent
  <2>2. PICK ok \in BOOLEAN : request' = [request EXCEPT ![q] =
             [phase |-> "done", user |-> u, rcv |-> r, chan |-> None, ok |-> ok]]
    BY <1>3 DEF CommandSent
  <2>3. /\ request'[q].chan = None
        /\ \A o \in Requests : o # q => request'[o] = request[o]
    BY <1>0, <2>2, BeginFacts
  <2>4. \/ /\ PowerKey(r) /\ disturbed' = disturbed \cup (Zapping(r) \ {q})
        \/ UNCHANGED box /\ disturbed' = disturbed \ {q}
    BY <1>3 DEF CommandSent, Disturb
  <2>5. ASSUME NEW o \in Requests \ {q}, o \notin disturbed', IsZap(o)
        PROVE  o \notin disturbed /\ box'[request[o].rcv] = box[request[o].rcv]
    <3>1. request[o].rcv # r \/ o \in Zapping(r)
      BY <2>5 DEF Zapping, IsZap
    <3>2. request[o].rcv \in Receivers
      BY <1>0, <2>5 DEF IsZap, Requested
    <3>3. CASE UNCHANGED box /\ disturbed' = disturbed \ {q}
      BY <2>5, <3>3
    <3>4. CASE PowerKey(r) /\ disturbed' = disturbed \cup (Zapping(r) \ {q})
      <4>1. request[o].rcv # r /\ o \notin disturbed
        BY <2>5, <3>1, <3>4
      <4>2. \A p \in Receivers : p # r => box'[p] = box[p]
        BY <1>0, <3>4 DEF PowerKey, Box
      <4> QED
        BY <3>2, <4>1, <4>2
    <3> QED
      BY <2>4, <3>3, <3>4
  <2>6. OneZap'
    BY <1>0, <2>3, OneZapStep DEF IsZap
  <2> QED
    BY <1>0, <2>3, <2>5, <2>6, ProgressStep
<1>4. ASSUME NEW q \in Requests, Answered(q)
      PROVE  OneZap' /\ ZapProgress'
  <2>1. /\ request'[q] = NoRequest
        /\ \A o \in Requests : o # q => request'[o] = request[o]
        /\ UNCHANGED <<box, disturbed>>
    BY <1>0, <1>4, EndsFacts DEF Answered
  <2> QED
    BY <1>0, <2>1, OneZapStep, ProgressStep DEF IsZap, NoRequest
<1>5. ASSUME NEW r \in Receivers, PersonActs(r)
      PROVE  OneZap' /\ ZapProgress'
  <2>1. /\ UNCHANGED request
        /\ \/ UNCHANGED <<box, disturbed>>
           \/ /\ disturbed' = disturbed \cup Zapping(r)
              /\ \A o \in Receivers : o # r => box'[o] = box[o]
    BY <1>0, <1>5 DEF PersonActs, PowerKey, Box, Disturb, Zapping
  <2>2. ASSUME NEW o \in Requests, o \notin disturbed', request[o].chan # None
        PROVE  Progress(o)'
    <3>1. Progress(o)
      BY <1>0, <2>1, <2>2 DEF ZapProgress
    <3>2. CASE request[o].phase = "idle"
      BY <2>1, <3>2 DEF Progress
    <3>3. CASE request[o].phase # "idle"
      <4>1. UNCHANGED box \/ request[o].rcv # r
        BY <2>1, <2>2, <3>3 DEF Zapping
      <4>2. box'[request[o].rcv] = box[request[o].rcv]
        BY <1>0, <2>1, <3>3, <4>1 DEF Requested
      <4> QED
        BY <2>1, <3>1, <4>2 DEF Progress
    <3> QED
      BY <3>2, <3>3
  <2> QED
    BY <1>0, <2>1, <2>2 DEF OneZap, IsZap, ZapProgress
<1>6. ASSUME NEW r \in Receivers, Booted(r)
      PROVE  OneZap' /\ ZapProgress'
  <2>1. /\ box[r] = "booting" /\ box' = [box EXCEPT ![r] = "on"]
        /\ UNCHANGED <<request, disturbed>>
    BY <1>6 DEF Booted, Box, Calm
  <2>2. ASSUME NEW o \in Requests, Progress(o)
        PROVE  Progress(o)'
    BY <1>0, <2>1, <2>2 DEF Progress
  <2> QED
    BY <1>0, <2>1, <2>2 DEF OneZap, IsZap, ZapProgress
<1>7. CASE Restart
  BY <1>7 DEF Restart, OneZap, IsZap, ZapProgress, Progress, NoRequest
<1>8. ASSUME NEW r \in Receivers, PollAsksPower(r) \/ PollSeesService(r)
      PROVE  UNCHANGED <<request, box, disturbed>>
  BY <1>8 DEF PollAsksPower, PollSeesService
<1>9. ASSUME NEW u \in Users, UserGoes(u) \/ UserComes(u)
      PROVE  UNCHANGED <<request, box, disturbed>>
  BY <1>9 DEF UserGoes, UserComes
<1>10. CASE Tick
  BY <1>2, <1>10 DEF Tick
<1> QED
  BY <1>1, <1>2, <1>3, <1>4, <1>5, <1>6, <1>7, <1>8, <1>9, <1>10
     DEF Next, Command, vars, remoteVars

-----------------------------------------------------------------------------
(* The theorems.                                                           *)

Inv == ReceiversInv /\ Owners /\ Unattributed

LEMMA Start == Init => Inv /\ OneZap /\ ZapProgress
<1> SUFFICES ASSUME Init PROVE Inv /\ OneZap /\ ZapProgress
  OBVIOUS
<1>1. ReceiversInv /\ TypeOK
  BY ReceiversStart, InitType DEF Init
<1>2. Requested /\ ActiveIsLatest /\ ClaimIsActive /\ Unattributed
  BY DEF Init, Requested, NoRequest, ActiveIsLatest, ClaimIsActive, Unattributed
<1>3. OneZap /\ ZapProgress
  BY DEF Init, OneZap, IsZap, ZapProgress, Progress, NoRequest
<1> QED
  BY <1>1, <1>2, <1>3 DEF Inv, Owners

LEMMA Step == Inv /\ [Next]_vars => Inv'
<1> SUFFICES ASSUME Inv, [Next]_vars PROVE Inv'
  OBVIOUS
<1>1. ReceiversInv'
  BY ReceiversStep, RemoteStepIsReceiversStep DEF Inv
<1>2. TypeOK' /\ Requested'
  BY <1>1, TypeStep DEF Inv, Owners, ReceiversInv
<1>3. Owners' /\ Unattributed'
  BY <1>2, OwnersStep, UnattributedStep DEF Inv, Owners
<1> QED
  BY <1>1, <1>3 DEF Inv

LEMMA Invariance == Spec => []Inv
BY Start, Step, PTL DEF Spec

\* Requests, registry, sessions and history keep their types.
THEOREM TypeCorrect == Spec => []TypeOK
<1>1. Inv => TypeOK
  BY DEF Inv, Owners
<1> QED
  BY <1>1, Invariance, PTL

\* A session counts as a browser user's only after an action of that user on
\* the box within the TTL, and none of somebody else's after that, whatever
\* polls, restarts and administrators do (active_viewer.py:31-40,
\* poller.py:158-175).
THEOREM Ownership == Spec => OnlyActorsOwn
<1>1. ASSUME Inv, [Next]_vars, NEW r \in Receivers, ConfirmedNow(r),
             sess'[r].method = "browser"
      PROVE  /\ acted[r][sess'[r].user] <= ActiveTTL
             /\ \A u \in Users : acted[r][u] >= acted[r][sess'[r].user]
  <2>1. StillActive(r) /\ sess'[r].user = active[r].user
    BY <1>1, ConfirmStep DEF Inv, Owners
  <2>2. /\ acted[r][active[r].user] = active[r].age
        /\ \A u \in Users : acted[r][u] >= active[r].age
    BY <1>1, <2>1 DEF Inv, Owners, ActiveIsLatest, StillActive
  <2> QED
    BY <2>1, <2>2 DEF StillActive
<1>2. Inv /\ [Next]_vars =>
        \A r \in Receivers :
          ConfirmedNow(r) /\ sess'[r].method = "browser" =>
             /\ acted[r][sess'[r].user] <= ActiveTTL
             /\ \A u \in Users : acted[r][u] >= acted[r][sess'[r].user]
  BY <1>1
<1> QED
  BY <1>2, Invariance, PTL DEF Spec, OnlyActorsOwn

\* What a browser user has tuned a box to is that user's session, if the user
\* is still there and nobody came after (active_viewer.py:4-7,
\* poller.py:158-166).
THEOREM ZapperOwnership == Spec => ZapperOwns
<1>1. ASSUME Inv, [Next]_vars, NEW r \in Receivers, ConfirmedNow(r), claim[r] \in users
      PROVE  sess'[r].user = claim[r]
  <2>1. claim[r] # None
    BY <1>1 DEF Inv, Owners, TypeOK
  <2>2. /\ active[r] # None /\ active[r].user = claim[r]
        /\ active[r].age <= ActiveTTL
    BY <1>1, <2>1 DEF Inv, Owners, ClaimIsActive
  <2> QED
    BY <1>1, <2>2, ConfirmStep DEF Inv, Owners, StillActive
<1>2. Inv /\ [Next]_vars =>
        \A r \in Receivers :
          ConfirmedNow(r) /\ claim[r] \in users => sess'[r].user = claim[r]
  BY <1>1
<1> QED
  BY <1>2, Invariance, PTL DEF Spec, ZapperOwns

\* One zap at a time, with boxes that answer and come up awake: a zap that has
\* succeeded leaves the box on, unless somebody else used its power key or its
\* mains meanwhile (remote.py:78-107).
THEOREM ZapsWake == Calm => (Spec => []ZapWakes)
<1>1. Calm /\ Inv /\ OneZap /\ ZapProgress /\ [Next]_vars => OneZap' /\ ZapProgress'
  BY ZapsStep DEF Zaps, Inv, Owners
<1>2. ZapProgress => ZapWakes
  BY DEF ZapProgress, ZapWakes, Progress
<1>3. Calm => []Calm
  <2> SUFFICES ASSUME Calm PROVE []Calm
    OBVIOUS
  <2> QED
    BY PTL DEF Calm
<1> QED
  BY <1>1, <1>2, <1>3, Start, Invariance, PTL DEF Spec

=============================================================================
