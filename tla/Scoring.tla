------------------------------- MODULE Scoring -------------------------------
(***************************************************************************)
(* Match scores: the user_event_scores table of app/services/scoring.py,   *)
(* the jobs that fill it, and everything that changes it while a job waits *)
(* for the language model.                                                 *)
(*                                                                         *)
(* A job is a coroutine that makes a number of passes, each for one user:  *)
(* it selects events, gives those that must wait for the LLM window a rule *)
(* score, reads the profile once, and sends batch after batch to the LLM.  *)
(* The only await is the LLM call, so an action runs from one answer to    *)
(* the next call, across passes and users.  HTTP handlers, EPG ingest, the *)
(* other jobs and a restart happen during the calls.                       *)
(*                                                                         *)
(* Abstracted: the score itself, its reason and rated_at; the prompt, of   *)
(* which only the version of the user's stated preferences is kept; the    *)
(* answer, which makes each event of a batch an LLM row or (any failure) a *)
(* rule row; the clock, of which only the time classes of an event matter. *)
(* Likes and dislikes, viewing history and the profile computed from it    *)
(* are in the prompt too.  The code lets them change without marking any   *)
(* score stale (likes.py:93-98), so a fresh score may be older than they   *)
(* are, and no property here is about them.                                *)
(***************************************************************************)
EXTENDS Naturals, FiniteSets

CONSTANTS
    Users,         \* user ids
    MaxUser,       \* the largest of them
    Events,        \* ids of epg_events, in the order of their start times
    None,          \* SQL NULL, an absent row
    Visible,       \* per user, the events on channels the user sees
    BatchSize,     \* _BATCH_SIZE
    Kinds,         \* the kinds of scoring jobs that run
    HasWindow,     \* is an LLM window configured (settings.llm_window_*)?
    DailyInWindow, \* does 04:15 lie in it?
    MaxPrefs,      \* bound on versions of a user's stated preferences
    MaxRestarts,   \* bound on restarts
    MidPass,       \* may users act on what a job is just scoring for them?
    LikedChange,   \* may EPG ingest change an event somebody rated?
    EventsVanish,  \* may a schedule shift remove an event still to come?
    AdminUnlikes,  \* may an administrator delete a like?
    HalfRequests   \* may a request get no further than its first commit?

GlobalKinds == {"worker", "daily", "watcher", "window", "bootstrap"}
UserKinds == {"debounced", "page"}

ASSUME IdsAssumption ==
    /\ MaxUser \in Nat /\ Users \subseteq 0..MaxUser
    /\ Events \subseteq Nat

ASSUME BoundsAssumption ==
    /\ BatchSize \in Nat \ {0}
    /\ MaxPrefs \in Nat
    /\ MaxRestarts \in Nat

ASSUME ScopeAssumption ==
    /\ Visible \in [Users -> SUBSET Events]
    /\ Kinds \subseteq GlobalKinds \cup UserKinds
    /\ {HasWindow, DailyInWindow, MidPass, LikedChange, EventsVanish,
        AdminUnlikes, HalfRequests} \subseteq BOOLEAN

VARIABLES
    ev,          \* per event: absent, later, soon, over, gone
    windowOpen,  \* is it inside the LLM window (llm_horizon() is None)?
    score,       \* table user_event_scores
    like,        \* table user_likes
    prefs,       \* version of the preferences a user has stated
    missed,      \* history: the events that the last change of a user's
                 \* preferences could not reach
    queue,       \* _score_queue: ids waiting for the worker
    job,         \* the coroutine of each scoring job
    restarts     \* number of restarts so far

vars == <<ev, windowOpen, score, like, prefs, missed, queue, job, restarts>>

JobIds == [kind : Kinds \cap GlobalKinds, user : {None}]
          \cup [kind : Kinds \cap UserKinds, user : Users]

Explicit == {"explicit_like", "explicit_dislike"}
Rerated == {"llm", "rule"}

\* One row.  basis is the version of the preferences an LLM row was
\* computed from.
Row == [source : Explicit \cup Rerated, stale : BOOLEAN, basis : 0..MaxPrefs]

ASSUME NoneAssumption == None \notin Row \cup Users \cup {"like", "dislike"}

\* A pass still to be made: its place in the job, its user, and the ids the
\* job was given for it.
Pass == [turn : Nat, user : Users, ids : SUBSET Events]

Job == [phase : {"idle", "created", "probe", "llm"}, passes : SUBSET Pass,
        user : Users \cup {None}, sent : SUBSET Events, rest : SUBSET Events,
        basis : 0..MaxPrefs]

TypeOK ==
    /\ ev \in [Events -> {"absent", "later", "soon", "over", "gone"}]
    /\ windowOpen \in BOOLEAN
    /\ score \in [Users -> [Events -> Row \cup {None}]]
    /\ like \in [Users -> [Events -> {"like", "dislike", None}]]
    /\ prefs \in [Users -> 0..MaxPrefs]
    /\ missed \in [Users -> SUBSET Events]
    /\ queue \in SUBSET Events
    /\ job \in [JobIds -> Job]
    /\ restarts \in 0..MaxRestarts

-----------------------------------------------------------------------------
(* Events, rows and batches.                                               *)

Future(e) == ev[e] \in {"later", "soon"}     \* end_time > now
Present(e) == ev[e] \in {"later", "soon", "over"}

\* May the LLM score e now?  Outside the window only what starts before it
\* opens (llm_horizon).
Urgent(e) == windowOpen \/ ev[e] = "soon"

RuleRow == [source |-> "rule", stale |-> FALSE, basis |-> 0]
ExplicitRow(s) ==
    [source |-> IF s = "like" THEN "explicit_like" ELSE "explicit_dislike",
     stale |-> FALSE, basis |-> 0]

\* Mutants: likes and dislikes go stale like the others; only rule rows do.
MarkStaleAll(f) ==
    [e \in Events |-> IF f[e] = None THEN None ELSE [f[e] EXCEPT !.stale = TRUE]]

MarkStaleRuleRows(f) ==
    [e \in Events |-> IF f[e] # None /\ f[e].source = "rule"
                      THEN [f[e] EXCEPT !.stale = TRUE] ELSE f[e]]

\* mark_user_llm_rows_stale on one user's rows.
MarkStale(f) ==
    [e \in Events |-> IF f[e] # None /\ f[e].source \in Rerated
                      THEN [f[e] EXCEPT !.stale = TRUE] ELSE f[e]]

FirstBatch(S) == {e \in S : Cardinality({d \in S : d < e}) < BatchSize}

Idle == [phase |-> "idle", passes |-> {}, user |-> None, sent |-> {},
         rest |-> {}, basis |-> 0]
Created(passes) == [Idle EXCEPT !.phase = "created", !.passes = passes]

\* One pass per user, in the order of the user ids.
ForEach(us, ids) == {[turn |-> u, user |-> u, ids |-> ids] : u \in us}

\* _pending_event_ids_for_user
Pending(f, ids) == {e \in ids : f[e] = None \/ f[e].stale}

\* _stale_future_event_ids (the caller drops what is over)
StaleIds(f) == {e \in Events : f[e] # None /\ f[e].stale /\ f[e].source \in Rerated}

\* Mutant: only stale rule rows.
RuleIdsStale(f) ==
    {e \in Events : f[e] # None /\ f[e].source = "rule" /\ f[e].stale /\ Urgent(e)}

\* _rule_future_event_ids
RuleIds(f) == {e \in Events : f[e] # None /\ f[e].source = "rule" /\ Urgent(e)}

\* What a job of this kind wants to score in pass p, given the user's rows f.
Selection(kind, p, f) ==
    CASE kind \in {"worker", "bootstrap", "page"} -> Pending(f, p.ids)
      [] kind \in {"debounced", "daily"} -> StaleIds(f)
      [] kind = "watcher" -> RuleIds(f)
      [] kind = "window" -> p.ids

\* _events_with_channels and the channel filter
Candidates(kind, p, f) ==
    {e \in Selection(kind, p, f) : Future(e) /\ e \in Visible[p.user]}

\* _defer_to_llm_window: what goes to the LLM now, and what gets a rule score.
ForLlm(kind, p, f) == {e \in Candidates(kind, p, f) : Urgent(e)}

\* Mutant: a deferred event gets a rule score whatever it had.
DeferredOverwrites(kind, p, f) ==
    {e \in Candidates(kind, p, f) : ~Urgent(e)}

\* Mutant: what is deferred is left without a row.
DeferredUnscored(kind, p, f) ==
    {e \in Candidates(kind, p, f) : ~Urgent(e) /\ f[e] # None /\ f[e].source = "rule"}

Deferred(kind, p, f) ==
    {e \in Candidates(kind, p, f) : ~Urgent(e) /\ f[e] = None}

-----------------------------------------------------------------------------
(* From one LLM call to the next.                                          *)

\* Job j goes on with the passes ps on the table sc: passes with nothing for
\* the LLM are over at once, the first other one makes its first call.
Launch(j, ps, sc) ==
    LET now(p) == ForLlm(j.kind, p, sc[p.user])
        ready == {p \in ps : now(p) # {}}
        first == {p \in ready : \A q \in ready : p.turn <= q.turn}
        begun == {p \in ps : \A q \in first : p.turn <= q.turn}
        ruled(u) == UNION {Deferred(j.kind, p, sc[u]) : p \in {q \in begun : q.user = u}}
        marked(u) == IF j.kind = "window" /\ (\E p \in begun : p.user = u)
                     THEN MarkStale(sc[u]) ELSE sc[u]
    IN  /\ score' = [u \in Users |->
                       [e \in Events |-> IF e \in ruled(u) THEN RuleRow
                                         ELSE marked(u)[e]]]
        /\ \/ /\ ready = {}
              /\ job' = [job EXCEPT ![j] = Idle]
           \/ \E p \in first :
                job' = [job EXCEPT ![j] =
                    [phase |-> "llm", passes |-> ps \ begun, user |-> p.user,
                     sent |-> FirstBatch(now(p)),
                     rest |-> now(p) \ FirstBatch(now(p)),
                     basis |-> prefs[p.user]]]

\* Mutant: the row keeps its stale flag.
UpsertKeepsStale(f, b, S, source) ==
    [e \in Events |-> IF e \notin S THEN f[e] ELSE
        [source |-> source[e], stale |-> IF f[e] = None THEN FALSE ELSE f[e].stale,
         basis |-> IF source[e] = "llm" THEN b ELSE 0]]

\* _upsert_scores: whatever row was there is overwritten.
Upsert(f, b, S, source) ==
    [e \in Events |-> IF e \notin S THEN f[e] ELSE
        [source |-> source[e], stale |-> FALSE,
         basis |-> IF source[e] = "llm" THEN b ELSE 0]]

\* The answer for the batch of job j arrives; source says what each event got.
\* An event that is gone raises, at the insert or when the next prompt reads
\* it, and the job dies of it.
Answer(j, source) ==
    LET c == job[j]
        written == [score EXCEPT ![c.user] = Upsert(@, c.basis, c.sent, source)]
    IN  /\ c.phase = "llm"
        /\ \/ /\ \E e \in c.sent : ~Present(e)
              /\ job' = [job EXCEPT ![j] = Idle]
              /\ UNCHANGED score
           \/ /\ \A e \in c.sent : Present(e)
              /\ c.rest # {}
              /\ score' = written
              /\ job' = [job EXCEPT ![j] =
                    IF \A e \in FirstBatch(c.rest) : Present(e)
                    THEN [c EXCEPT !.sent = FirstBatch(c.rest),
                                   !.rest = @ \ FirstBatch(@)]
                    ELSE Idle]
           \/ /\ \A e \in c.sent : Present(e)
              /\ c.rest = {}
              /\ Launch(j, c.passes, written)
        /\ UNCHANGED <<ev, windowOpen, like, prefs, missed, queue, restarts>>

AllLlm(j) == [e \in job[j].sent |-> "llm"]

LlmAnswers(j) == Answer(j, AllLlm(j))

\* No usable answer for some of the batch: rule scores (_score_chunk).
FallsBack(j) ==
    \E source \in [job[j].sent -> Rerated] :
        source # AllLlm(j) /\ Answer(j, source)

-----------------------------------------------------------------------------
(* How the jobs start.                                                     *)

\* Mutant: of all it takes from the queue, the worker scores the first entry.
MergedFirst == {e \in queue : \A d \in queue : e <= d}

\* scoring_worker merges all that is queued.
Merged == queue

\* scoring_worker
WorkerTakes(j) ==
    /\ j.kind = "worker"
    /\ job[j].phase = "idle"
    /\ queue # {}
    /\ queue' = {}
    /\ Launch(j, ForEach(Users, Merged), score)
    /\ UNCHANGED <<ev, windowOpen, like, prefs, missed, restarts>>

\* daily_rerate_stale
DailyStarts(j) ==
    /\ j.kind = "daily"
    /\ job[j].phase = "idle"
    /\ DailyInWindow => windowOpen
    /\ Launch(j, ForEach(Users, {}), score)
    /\ UNCHANGED <<ev, windowOpen, like, prefs, missed, queue, restarts>>

\* _users_with_rule_rows
RuleUsers == {u \in Users : \E e \in RuleIds(score[u]) : Future(e)}

\* ai_availability_watcher wakes up; it probes only if there is something to
\* upgrade.
WatcherProbes(j) ==
    /\ j.kind = "watcher"
    /\ job[j].phase = "idle"
    /\ RuleUsers # {}
    /\ job' = [job EXCEPT ![j] = [Idle EXCEPT !.phase = "probe",
                                              !.passes = ForEach(RuleUsers, {})]]
    /\ UNCHANGED <<ev, windowOpen, score, like, prefs, missed, queue, restarts>>

ProbeAnswered(j) ==
    /\ job[j].phase = "probe"
    /\ Launch(j, job[j].passes, score)
    /\ UNCHANGED <<ev, windowOpen, like, prefs, missed, queue, restarts>>

ProbeFails(j) ==
    /\ job[j].phase = "probe"
    /\ job' = [job EXCEPT ![j] = Idle]
    /\ UNCHANGED <<ev, windowOpen, score, like, prefs, missed, queue, restarts>>

\* POST /api/admin/rerate-window for some or all users; reach is what airs in
\* its hours.
WindowRequested(j, us, reach) ==
    /\ j.kind = "window"
    /\ job[j].phase = "idle"
    /\ job' = [job EXCEPT ![j] = Created(ForEach(us, reach))]
    /\ UNCHANGED <<ev, windowOpen, score, like, prefs, missed, queue, restarts>>

\* get_recommendations_from_scores finds events of the page without a row.
PageVisited(j, page) ==
    LET unscored == {e \in page \cap Visible[j.user] :
                        Future(e) /\ score[j.user][e] = None}
    IN  /\ j.kind = "page"
        /\ job[j].phase = "idle"
        /\ unscored # {}
        /\ job' = [job EXCEPT ![j] = Created(ForEach({j.user}, unscored))]
        /\ UNCHANGED <<ev, windowOpen, score, like, prefs, missed, queue, restarts>>

\* bootstrap_unscored takes turns: a batch for every user, then the next one.
BatchNo(S, e) == Cardinality({d \in S : d < e}) \div BatchSize
BootstrapPasses ==
    LET todo(u) == Pending(score[u], {e \in Events : Future(e)})
    IN  {[turn |-> BatchNo(todo(x[1]), x[2]) * (MaxUser + 1) + x[1], user |-> x[1],
          ids |-> {e \in todo(x[1]) : BatchNo(todo(x[1]), e) = BatchNo(todo(x[1]), x[2])}] :
            x \in {y \in Users \X Events : y[2] \in todo(y[1])}}

\* A created task gets its first turn.  The debounced one has slept before.
Runs(j) ==
    /\ job[j].phase = "created"
    /\ Launch(j, IF j.kind = "bootstrap" THEN BootstrapPasses ELSE job[j].passes, score)
    /\ UNCHANGED <<ev, windowOpen, like, prefs, missed, queue, restarts>>

-----------------------------------------------------------------------------
(* What users and administrators do.                                       *)

\* Does j wait for an answer on behalf of u, with e in this call or a next one?
HeldBy(j, u, e) == /\ job[j].phase = "llm" /\ job[j].user = u
                   /\ e \in job[j].sent \cup job[j].rest
Held(u, e) == \E j \in JobIds : HeldBy(j, u, e)

\* Fresh by the LLM.
FreshLlm(u, e) == score[u][e] # None /\ score[u][e].source = "llm"
                                     /\ ~score[u][e].stale

SetExplicit(u, e, s) == score' = [score EXCEPT ![u][e] = ExplicitRow(s)]

\* Mutant: the undo leaves the score.
ClearExplicitNever(u, e) == UNCHANGED score

\* clear_explicit_score
ClearExplicit(u, e) ==
    score' = [score EXCEPT ![u][e] =
                IF @ # None /\ @.source \in Explicit THEN None ELSE @]

LikeToggled(u, e, s) ==
    /\ Present(e)
    /\ like' = [like EXCEPT ![u][e] = IF @ = s THEN None ELSE s]
    /\ UNCHANGED <<ev, windowOpen, prefs, missed, queue, job, restarts>>

\* POST /api/likes/toggle with sentiment s.
Toggle(u, e, s) ==
    /\ LikeToggled(u, e, s)
    /\ IF like[u][e] = s THEN ClearExplicit(u, e)
       ELSE (Held(u, e) => MidPass) /\ SetExplicit(u, e, s)

\* The like is committed, the score is not: its commit fails, or the process
\* ends between the two.
HalfToggle(u, e, s) ==
    HalfRequests /\ LikeToggled(u, e, s) /\ UNCHANGED score

\* DELETE /api/admin/likes/{id}
DeleteLike(u, e) ==
    /\ AdminUnlikes
    /\ like[u][e] # None
    /\ like' = [like EXCEPT ![u][e] = None]
    /\ UNCHANGED <<ev, windowOpen, score, prefs, missed, queue, job, restarts>>

\* Mutant: a re-rate that runs already is left alone.
ScheduleRerateUnlessRunning(us) ==
    job' = [j \in JobIds |->
              IF j.kind = "debounced" /\ j.user \in us /\ job[j].phase # "llm"
              THEN Created(ForEach({j.user}, {})) ELSE job[j]]

\* schedule_rerate for each of us: a re-rate that sleeps or runs is cancelled.
ScheduleRerate(us) ==
    job' = [j \in JobIds |->
              IF j.kind = "debounced" /\ j.user \in us
              THEN Created(ForEach({j.user}, {})) ELSE job[j]]

\* Mark what the LLM or a rule rated for us, and have it rated again.
Invalidate(us) ==
    /\ score' = [u \in Users |-> IF u \in us THEN MarkStale(score[u]) ELSE score[u]]
    /\ ScheduleRerate(us)
    /\ UNCHANGED <<ev, windowOpen, like, queue, restarts>>

NewPreferences(u) == prefs[u] < MaxPrefs /\ prefs' = [prefs EXCEPT ![u] = @ + 1]

\* POST /api/admin/user-preferences: the profile is committed, then the marks.
\* Out of their reach are the events some job other than the debounced re-rate,
\* which is cancelled, is having rated with the old preferences.
ChangePreferences(u) ==
    /\ NewPreferences(u)
    /\ Invalidate({u})
    /\ missed' = [missed EXCEPT ![u] =
           {e \in Events : \E j \in JobIds : j.kind # "debounced" /\ HeldBy(j, u, e)}]

\* Only the profile is committed: the second commit fails, or the process ends
\* between the two.  No score that is fresh or on its way is reached.
HalfPreferences(u) ==
    /\ HalfRequests
    /\ NewPreferences(u)
    /\ missed' = [missed EXCEPT ![u] = {e \in Events : Held(u, e) \/ FreshLlm(u, e)}]
    /\ UNCHANGED <<ev, windowOpen, score, like, queue, job, restarts>>

\* A viewing session is assigned to a user, taken from one, or both.
AssignSession(us) ==
    /\ us # {} /\ Cardinality(us) <= 2
    /\ Invalidate(us)
    /\ UNCHANGED <<prefs, missed>>

-----------------------------------------------------------------------------
(* What the EPG, the clock and the operating system do.                    *)

\* An EPG fetch brings a new event.
NewEvent(e) ==
    /\ ev[e] = "absent"
    /\ \E when \in {"later", "soon"} : ev' = [ev EXCEPT ![e] = when]
    /\ queue' = queue \cup {e}
    /\ UNCHANGED <<windowOpen, score, like, prefs, missed, job, restarts>>

\* An EPG fetch brings an event again, with other texts or the same.
EventFetchedAgain(e, changed) ==
    /\ Present(e)
    /\ changed /\ (\E u \in Users : like[u][e] # None) => LikedChange
    /\ score' = IF ~changed THEN score
                ELSE [u \in Users |-> [score[u] EXCEPT ![e] =
                        IF @ = None THEN None ELSE [@ EXCEPT !.stale = TRUE]]]
    /\ queue' = IF Future(e) THEN queue \cup {e} ELSE queue
    /\ UNCHANGED <<ev, windowOpen, like, prefs, missed, job, restarts>>

\* A row of epg_events is deleted, its scores with it: an event to come that a
\* schedule shift replaced, or an old one nobody scores any more.  The foreign
\* key of user_likes protects the others.
EventDeleted(e) ==
    /\ Present(e)
    /\ \A u \in Users : like[u][e] = None
    /\ IF Future(e) THEN EventsVanish ELSE \A u \in Users : ~Held(u, e)
    /\ ev' = [ev EXCEPT ![e] = "gone"]
    /\ score' = [u \in Users |-> [score[u] EXCEPT ![e] = None]]
    /\ UNCHANGED <<windowOpen, like, prefs, missed, queue, job, restarts>>

TimePasses(e) ==
    /\ \/ ev[e] = "later" /\ ev' = [ev EXCEPT ![e] = "soon"]
       \/ ev[e] = "soon" /\ ev' = [ev EXCEPT ![e] = "over"]
    /\ UNCHANGED <<windowOpen, score, like, prefs, missed, queue, job, restarts>>

WindowFlips ==
    /\ HasWindow
    /\ windowOpen' = ~windowOpen
    /\ UNCHANGED <<ev, score, like, prefs, missed, queue, job, restarts>>

AtStartup == [j \in JobIds |-> IF j.kind = "bootstrap" THEN Created({}) ELSE Idle]

\* The process dies and starts again: jobs and queue are lost.
Restart ==
    /\ restarts < MaxRestarts
    /\ restarts' = restarts + 1
    /\ queue' = {}
    /\ job' = AtStartup
    /\ UNCHANGED <<ev, windowOpen, score, like, prefs, missed>>

Init ==
    /\ ev = [e \in Events |-> "absent"]
    /\ windowOpen \in IF HasWindow THEN BOOLEAN ELSE {TRUE}
    /\ score = [u \in Users |-> [e \in Events |-> None]]
    /\ like = [u \in Users |-> [e \in Events |-> None]]
    /\ prefs = [u \in Users |-> 0]
    /\ missed = [u \in Users |-> {}]
    /\ queue = {}
    /\ job = AtStartup
    /\ restarts = 0

JobStep(j) ==
    \/ WorkerTakes(j)
    \/ DailyStarts(j)
    \/ WatcherProbes(j)
    \/ ProbeAnswered(j)
    \/ ProbeFails(j)
    \/ \E us \in SUBSET Users, reach \in SUBSET Events :
          WindowRequested(j, us, reach)
    \/ \E page \in SUBSET Events : PageVisited(j, page)
    \/ Runs(j)
    \/ LlmAnswers(j)
    \/ FallsBack(j)

Surroundings ==
    \/ \E u \in Users, e \in Events, s \in {"like", "dislike"} :
          Toggle(u, e, s) \/ HalfToggle(u, e, s)
    \/ \E u \in Users, e \in Events : DeleteLike(u, e)
    \/ \E u \in Users : ChangePreferences(u) \/ HalfPreferences(u)
    \/ \E us \in SUBSET Users : AssignSession(us)
    \/ \E e \in Events : NewEvent(e)
    \/ \E e \in Events, changed \in BOOLEAN : EventFetchedAgain(e, changed)
    \/ \E e \in Events : EventDeleted(e)
    \/ \E e \in Events : TimePasses(e)
    \/ WindowFlips
    \/ Restart

Next == (\E j \in JobIds : JobStep(j)) \/ Surroundings

Spec == Init /\ [][Next]_vars

-----------------------------------------------------------------------------
(* Properties.                                                             *)

\* What a user says of an event is what the table says of it, as long as the
\* event is there: no re-rate replaces a like or dislike (scoring.py:773-774,
\* likes.py:100-107).
JudgementSurvives ==
    \A u \in Users, e \in Events :
        like[u][e] # None =>
            /\ score[u][e] # None
            /\ score[u][e].source = ExplicitRow(like[u][e]).source

\* And only what a user says of an event makes its score an explicit one
\* (scoring.py:803-811, admin.py:587-595).
ExplicitHasLike ==
    \A u \in Users, e \in Events :
        score[u][e] # None /\ score[u][e].source \in Explicit => like[u][e] # None

\* A fresh score by the LLM is of the preferences the user has stated now, but
\* for what the last change of them could not reach: what other jobs had with the
\* LLM just then, or everything if only the change itself got committed
\* (profile.py:130, admin.py:417-422).
Outdated(u, e) == FreshLlm(u, e) /\ score[u][e].basis # prefs[u]

FreshIsCurrent ==
    \A u \in Users, e \in Events : Outdated(u, e) => e \in missed[u]

\* Without the exception, which the code does not live up to: the answer to a
\* prompt with the old preferences clears the stale mark the new ones have set.
NeverOutdated == \A u \in Users, e \in Events : ~Outdated(u, e)

\* Only a failed LLM call turns an LLM score into a rule score: putting events
\* off until the LLM window keeps what they have (scoring.py:484-490).
LlmScoreOnlyLostToFailure ==
    [][\A u \in Users, e \in Events :
         /\ score[u][e] # None /\ score[u][e].source = "llm"
         /\ score'[u][e] # None /\ score'[u][e].source = "rule"
         => \E j \in JobIds : /\ job[j].phase = "llm" /\ job[j].user = u
                              /\ e \in job[j].sent
                              /\ job'[j] # job[j]]_vars

\* Outside the LLM window no batch goes to the LLM with an event that could
\* wait for it: a run that is still going when the window closes stops
\* (scoring.py:489-490, docs/deploy.md:416).
RunStopsWithWindow ==
    [][\A j \in JobIds :
         job'[j].phase = "llm" /\ job'[j].sent # job[j].sent
         => \A e \in job'[j].sent : Urgent(e)]_vars

\* Is e still to be scored for u: queued, or in a pass or call of the worker or
\* of the bootstrap, or will a bootstrap that has not begun look for it?
InWork(j, u, e) ==
    \/ j.kind = "bootstrap" /\ job[j].phase = "created"
    \/ /\ j.kind \in {"worker", "bootstrap"} /\ job[j].phase = "llm"
       /\ \/ job[j].user = u /\ e \in job[j].sent \cup job[j].rest
          \/ \E p \in job[j].passes : p.user = u /\ e \in p.ids

Awaited(u, e) == e \in queue \/ \E j \in JobIds : InWork(j, u, e)

\* No step drops what is still to be scored, whatever the LLM answers, other
\* jobs write, or a restart makes the worker forget: it remains to be scored
\* until it has a row or is over (scoring.py:465-568, 944-983, 1064-1102).
NoneDropped ==
    [][\A u \in Users : \A e \in Visible[u] :
         Awaited(u, e) => Awaited(u, e)' \/ score'[u][e] # None \/ ~Future(e)']_vars

\* Every queued event gets a score for every user who can see it, unless it is
\* over first (scoring.py:944-983; after a restart 1064-1102).
QueuedGetsScored ==
    \A u \in Users : \A e \in Visible[u] :
        (e \in queue) ~> (score[u][e] # None \/ ~Future(e))

\* Fairness.  The event loop runs a created task and resumes one whose call
\* has returned; ask_json returns, if with nothing, after its timeout.
Of(kind) == {j \in JobIds : j.kind = kind}
JobsProgress ==
    /\ \A j \in Of("worker") : WF_vars(WorkerTakes(j))
    /\ \A j \in JobIds : WF_vars(Runs(j)) /\ WF_vars(LlmAnswers(j) \/ FallsBack(j))

\* The LLM window opens every night, and in it the daily job starts.
NightComes ==
    /\ WF_vars(WindowFlips)
    /\ \A j \in Of("daily") : SF_vars(DailyStarts(j))

\* As long as there are rule scores, the watcher finds the LLM up in some window
\* again; and the LLM answers for every event it is asked about again and again.
RuleScored(u, e) == score[u][e] # None /\ score[u][e].source = "rule" /\ Future(e)

OllamaRecovers ==
    \A j \in Of("watcher") :
        /\ \/ []<>(\A u \in Users, e \in Events : ~RuleScored(u, e))
           \/ []<><<windowOpen /\ ProbeAnswered(j)>>_vars
        /\ \A e \in Events : SF_vars(e \in job[j].sent /\ LlmAnswers(j))

\* If the LLM recovers, every rule score is upgraded (scoring.py:988-1027).
RuleGetsUpgraded ==
    OllamaRecovers =>
    \A u \in Users : \A e \in Visible[u] : RuleScored(u, e) ~> ~RuleScored(u, e)

\* If the daily job starts inside the window, every stale LLM or rule score is
\* replaced (scoring.py:1259-1270).
StaleGetsRerated ==
    NightComes =>
    \A u \in Users : \A e \in Visible[u] :
        (score[u][e] # None /\ score[u][e].stale)
            ~> (score[u][e] = None \/ ~score[u][e].stale \/ ~Future(e))

FairSpec == Spec /\ JobsProgress

=============================================================================
