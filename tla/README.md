# TV-Tipps: formal models, model checking and proofs

TV-Tipps is a FastAPI application that polls Enigma2 receivers ("boxes"),
records what is watched, keeps a programme guide (EPG), lets an LLM rate coming
programmes for each user, and switches boxes on and off at night to harvest
their EPG. This directory holds TLA+ models of its core logic, the TLC runs that
check them and theorems about them that TLAPS proves.

Source lines are quoted as `file.py:line`; `poller.py`, `scoring.py`, `epg.py`
and `power.py` are in `src/app/services/`, `admin.py` and `likes.py` in
`src/app/routers/`, `client.py` in `src/app/enigma/`. So are `remote.py` and
`i18n.py` in `src/app/routers/`, `active_viewer.py`, `ollama.py` and the other
`i18n.py` in `src/app/services/`.

## How the program runs

One process, one asyncio event loop. Timers (APScheduler), the scoring worker
and `async` request handlers are coroutines of that loop; `def` handlers run in
a thread pool. Between two awaits a coroutine is alone with the others, so in
the models **an action is what a coroutine does from one await to the next**,
and everything else may happen in the gaps. What is in memory (`_state`,
`_score_queue`, `_last_tour_at`, `_tour_lock`, `_active`) is lost in a restart;
what is committed to SQLite is not. Foreign keys are enforced
(`PRAGMA foreign_keys=ON`), and SQLite gives the id of the last row out again
when that row is deleted.

## Inventory

| Component | State | Operations | Hard parts | Correct when |
|---|---|---|---|---|
| Viewing sessions (`poller.py` 48-217, 549-572, 611-658) | `_state` per receiver, table `viewing_sessions` | poll, confirm, close, orphan sweep, retention, delete | two awaits per poll with an old clock reading, backdated ends, crash, rollback, row id reuse | confirmed sessions are long enough, disjoint, ended once, none is lost or left open |
| Match scores (`scoring.py`, `likes.py`, `admin.py`) | `user_event_scores`, `user_likes`, `_score_queue`, the LLM window | worker, daily job, availability watcher, window re-rate, page, bootstrap, debounced re-rate, like, preferences, assigned sessions, EPG ingest | LLM calls of minutes between reading and writing, seven jobs on one table, outage and recovery, restarts | a user's judgement survives, a fresh score is of the preferences stated last, everything queued gets scored, rule scores get upgraded |
| EPG wake and tours (`poller.py` 332-528, `power.py`, `epg.py` 384-464) | `_tour_lock`, `_last_tour_at`, woken boxes, the boxes themselves | nightly wake, tour, sweep, hand-back, opportunistic tour | people and timers use the boxes meanwhile, answers get lost, boxes boot slowly, check and act are apart | no two tours at once, nobody's picture or recording is cut, woken boxes go back to sleep |
| EPG store (`epg.py` 34-258, 694-731) | `epg_events` and what refers to it | full fetch, now/next fetch, overlap removal, cleanup | schedule shifts, old clock readings, foreign keys, ties | programmes to come do not overlap, what has begun stays, old rows go, fresh scores match the texts |
| EPG sweep bookkeeping (`poller.py` 220-292, 332-361, `epg.py` 504-553) | `_last_full_sweep_at`, `_skipped_channels` | hourly, requested and nightly sweeps, coverage, forecast | several runs at once, boxes that go in between, an exception ends a run, day changes | what is booked as swept has data, every box gets its sweep, the forecast comes true |
| Dwell (`epg.py` 261-381) | none | transponder groups, dwell until saturated | thresholds | bounds |
| Receivers and poll jobs (`admin.py` 149-261, `poller.py` 587-608, 647-657, `main.py` 17-57) | `receivers`, scheduler jobs | create, change, delete, seed, start | two states changed one after the other, a commit that fails, a crash in between | every listed receiver is polled, nothing else is |
| Remote control, active viewer (`remote.py`, `active_viewer.py`) | `_active` | zap, key, recording timer, attribution | check, then a key that toggles; answers that come late; four hours of attribution | a zap leaves the box on, sessions belong to who watched |
| LLM client (`ollama.py`) | semaphore, last usage per task | ask, retry | the semaphore is given up between the two requests; cancelled tasks | one request at a time, usage is that of the answer returned |
| Profile, recommendations, now/next | none | queries | none of its own | |
| Channels and bouquets (`channels.py`) | `channels` | refresh | channels that become known during a session | |
| Translations (`i18n.py`) | `translations`, `_BATCH_JOBS` | fill in by LLM | background tasks started by several page loads | one task per language, none stuck |
| Time ranges (`timezones.py`) | none | local to UTC, LLM window | midnight, wrap-around windows | |
| Web application, database, settings | none | start-up | order of start-up jobs | |

Interactions: the poll job links a session to the EPG row on the air, which
pins that row; EPG ingest puts new events into `_score_queue` and marks scores
of changed texts stale; the nightly wake runs EPG sweeps; stated
preferences change the prompts and, like an assignment of a session to a user, mark
scores stale and schedule re-rates; likes change the prompts and mark nothing; zaps write
the registry from which sessions are attributed; scoring passes and translations
share the LLM's semaphore.

## Modules

| Module | Models | Used by |
|---|---|---|
| `PollSession` | viewing sessions | `MCPollSession` (symmetry), `PollSessionProofs` |
| `SessionLog` | what readers of the sessions rely on: an abstract specification | instantiated by `PollSession`, `SessionLogProofs` |
| `Scoring` | match scores | `MCScoring` (who sees which channel), `ScoringProofs` |
| `EpgWake` | the nightly and the opportunistic job, the boxes, the people | TLC directly, `EpgWakeProofs` |
| `EpgStore` | schedule of one channel | TLC directly, `EpgStoreProofs` |
| `Receivers` | table of receivers and poll jobs | extended by `Remote` |
| `Remote` | remote control and attribution, with boxes, people and polls, composed with `Receivers` | `MCRemote`, `RemoteProofs` |
| `LlmClient` | `ask_json` and its semaphore | extended by `LlmCallers` |
| `LlmCallers` | scoring passes and translations on top of the client | `MCLlmCallers`, `LlmProofs` |
| `Sweep` | sweeps, their bookkeeping, coverage and forecast | `MCSweep` (a channel two boxes share), `SweepProofs` |

The `MC` modules are what TLC runs where a constant is no plain value or symmetry is
used; `EpgWake` and `EpgStore` need none. The `.cfg` files give the constants.
Operators whose comment begins with *Mutant* are wrong versions of the operator
after them. No specification uses them; they show, put in place of the right
one, that a property does notice a bug of that kind.

### PollSession

`rows` is the table (id to row), `mem` is `_state`, `poll` the coroutine of each
receiver's poll with the `now` it read (`poller.py:58`), `known` the channels
that have a row. `PollBegin`, `PollOn`/`PollNotOn`/`PollOffline`, and
`PollService` / `PollUnparsable` are the pieces of `_poll_receiver` between its
awaits; `ChannelChange` and `SameChannel` its two branches. `ProbeReceiver`,
`RefreshChannels`, `DeleteSession`, `CleanupOldSessions` are the handlers that
touch the same state, `Crash` and `Startup` the restart with
`_close_orphan_sessions`. `lastSeen` and `streak` are history: they record what
the polls saw, so that properties can say what was watched.
`CommitMayFail` lets a commit raise after the memory has been changed;
`TrackedMayBeDeleted` lets a row go that a poll job still refers to.

### Scoring

`score` and `like` are the tables, `prefs` the version of the preferences a user
has stated, `queue` is `_score_queue`, `job` the coroutine of each kind of
job with the passes it has still to make and the batch in the LLM call. An
event is absent, later, soon (starts before the LLM window opens), over or gone.
`Launch` begins a pass with the selection of its kind
(`Pending`, `StaleIds`, `RuleIds`, all of a window), writes rule rows for what
is deferred to the window, and sends the first batch; `Answer` stores what came
back and sends the next. The prompt, the value of a score and the pairing of
answers and candidates are abstracted: a row has a source, a stale mark and the
version of the preferences it was computed from. A toggle commits the like and then
the score, a change of preferences the profile and then the stale marks;
`HalfToggle` and `HalfPreferences` are requests that get no further than the first
commit (`HalfRequests`). `missed` is history: the events that the last change of a
user's preferences could not reach, because another job than the debounced re-rate,
which it cancels, had them in a call, or because it stopped half-way.

A prompt also shows likes, dislikes, what the user has watched and a profile
computed from that. The code lets all of these change without a stale mark: a toggle
marks nothing (`likes.py:93-98`), nor does the deletion of a session or the
recomputation of a profile older than a day (`profile.py:104-109`); `AssignSession` does
mark. So no score promises to be of the current likes, and the model keeps no
version of them.

### EpgWake

`job` holds the two coroutines. The nightly job is
lock → wake (→ boot → failed) → prime → tour → sweep → claim → down, one box at
a time; one coroutine stands for `_nightly_full_sweep` however it was started
(timer or an administrator's full EPG run). The opportunistic job does wake
(which here only picks the next box), claim, tour, sweep for each box. Both
share the steps of `prime_epg_cache`: ask for power, ask for timers, zap, dwell.
What a box answers is an operator (`SaysOnline`, `SaysPower`, `SaysRecording`);
with `Losses` answers of a box that is up, and commands to it, can get lost.
`UserMidCheck` lets people and timers act between an answer of a box and what rests
on it. Whoever switches on a box that is off or in deep standby waits (`watching`)
until it has booted (`UserSwitchesOn`, `Booted`), and may give up before; this may
happen at any time, also while the job waits for the same box. `blind` is history:
did the box answer nothing when the job last turned to it? Such a box the job takes
for one nobody uses. `ours` and `harvested` are history: a box the job has switched on and nobody has
taken over; a box fully toured within the cooldown. A recording that runs when
the boxes are handed back takes a box over, as in the code. `NightResends` may
happen any number of times (the code resends once): a second command to a box
that boots already does nothing. A box that wakes itself from deep standby for a timer
is not modelled.

### EpgStore

`rows` are the rows of one channel by start time, the second half of their
unique key, `watched` and `liked` the rows that sessions and likes refer to,
`score` the score of one user, `rating` an LLM call in flight with what its
prompt showed of the row (`Prompt`: the texts, the long description too, and the times), `fetching` the clock reading of a now/next fetch. `Ingest` is
`_upsert_events`, all of it: upsert, comparison of the texts without the long
description (`Changed`), overlap removal, stale marks, in one transaction that fails as a whole when it meets the foreign key of
a like. `CleanupEpg` is the nightly job with its two bulk deletes.

### SessionLog

`book` is the log of confirmed sessions: a session begins when all others of its
receiver are over, ends once, after `MinWatch`, and may be removed. `PollSession`
defines `Log == INSTANCE SessionLog WITH book <- Book`, where `Book` forgets the
unconfirmed rows and all memory, clocks and polls. `LogIsKept == Log!Spec` is
checked and proved.

### Receivers and Remote

The administrator's handlers run in threads and change the table and the
scheduler one after the other, so each is two actions of `Receivers`
(`CreateCommits`, `CreateReturns`; `DeleteUnschedules`, `DeleteCommits`), and a
crash (`ReceiversRestart`) may come between them. A delete fails if anything
refers to the receiver; `botched` records that.

`Remote` extends it. `request` holds the handlers under way: a zap goes
probe (→ wait) → power (→ key) → tune → done, one step per await; keys and
timers are sent and answered (`CommandSent`, `Answered`). What a command does to
`box` and `chan` happens when it is sent, what it means for `active`
(`active_viewer._active`) when its answer is there, and everything may come in
between. `PollAsksPower` and `PollSeesService` are the poll job as far as
attribution goes: `sess` is the session in memory with what its row says.
`PersonActs` is the infrared remote control and the mains. `acted`, `claim` and
`disturbed` are history: who has acted on a box and when, whose action tuned it,
which zaps somebody has interfered with. `Overlapping` lets two zaps of a box
run at a time, `BootsAsleep` lets a box come up in standby, `Losses` lets answers
and keys get lost. `CommandSent` stands for `send_key` and `add_record_timer`,
which end in the same way. A poll whose receiver is gone stores nothing: its update of
`last_seen` makes the next flush fail.

### LlmClient and LlmCallers

`LlmClient` is one call of `ask_json` per task: `free` and `waiting` are the
semaphore, taken anew for each of the up to two requests; leaving it hands it to
the first that waits. `usage` is the context variable behind `last_usage()`;
the reply says how a request can come back, and what the call returns follows
(`Returned`). `LlmCallers` puts its callers on top. A scoring pass is the
recursion of `_score_chunk` laid out as a list of chunks still to do: an answer
that is cut off, has the wrong length or cannot be attributed replaces a chunk
by its halves, or is settled by rule scores. `Answers(n)` are all numberings a
model may give its `n` entries; `Attributed` says whose entry each candidate
gets (`_align_to_chunk`). Translations are background tasks (`task`) that ask
for the missing keys of a language; `batchJobs` is `_BATCH_JOBS`.
`_ai_seen_alive`, which the passes write, is never read. Exceptions other than
transport errors and `ValueError` are left out.

### Sweep

`job` holds the runs of `_refresh_all_epg`, one for each that may start it. A run
asks each box whether it is online, refreshes now/next, and then sweeps the boxes
whose sweep is overdue (the nightly one: all) channel by channel, those skipped
last time first. `ahead` is how far a channel's EPG reaches. A failing transaction
ends the whole run (`RunRaises`), bookkeeping included. `Covered`, `Percent` and
`DaysUntilForcedScan` are translated from `epg.py`; `Percent` rounds half to even as
Python does.

## Runs

A passing run says what holds on its instance; the middle column is the scope.
`tlc -config <cfg> <module>` repeats one, with the names in `PROJECT.json`.

| Run | Scope | Shows |
|---|---|---|
| `session_one` | 1 box, 2 channels, 3 row ids, clock to 6, no faults | what is watched long enough is recorded; confirmed sessions are disjoint; none is left open; the table implements `SessionLog` |
| `session_faulty` | 1 box, failing commits, deleted rows | which promises survive faults: confirmed sessions last `min_watch_sec`, an end is final, a restart settles every row |
| `scoring_jobs` | 1 user, 1 event; window, page, debounced and bootstrap re-rates; users act during calls, requests stop half-way, events change and vanish, 1 restart | a fresh score is of the preferences stated last, but for what the change could not reach; LLM scores are lost to failures only |
| `scoring_queue` | 2 events; worker, watcher, daily job; LLM free to fail | no step drops a queued event, and everything queued gets a score; rule scores become LLM scores if the LLM recovers; stale scores are re-rated if the daily job gets its turn in the window; likes and explicit scores stay together |
| `wake_quiet` | 1 box on a mains switch, 1 on WOL, 1 restart, no losses, nobody acts on a box between its answer and what rests on it | one tour at a time; nobody's picture or recording is touched on a box that was up when the job looked; the box on the mains switch goes back to sleep, and is asleep whenever the nightly job is over |
| `store_overlap` | boxes that send overlapping events | the cleanup leaves one of two, old rows go |
| `store_text` | 2 starts, 1 title, 1 genre, 1 long description, likes that fail transactions, a scoring job | shifts leave no overlap and touch nothing that has begun; a fresh score is of the title and genre the row has |
| `control` | 1 box, 2 channels, 2 users, 1 request, an administrator, restarts | a zap leaves the box on; sessions belong to whoever tuned the box, within the TTL; listed receivers are polled |
| `llm` | 1 pass over 4 events in batches of 3, 2 translation tasks, 1 language | the semaphore is kept; usage is that of the answer; each event is scored once, with nobody else's score; one task per language; everybody ends |
| `sweep` | 2 boxes that share a channel, hourly and nightly job, 1 restart, a channel that may raise | what is booked has data; the forecast is kept; a box that stays online is swept again and again |
| `store_liked` | 2 starts, 1 title, events that are liked | a violation, see below |
| `store_prose` | 1 start, 2 durations, 1 title, 1 long description, a scoring job | a violation, see below |

### Bounds

Row ids, clock, versions of preferences and restarts are bounded by constants
(`MaxRows`, `MaxTime`, `MaxId`, `MaxPrefs`, `MaxRestarts`, `MaxCrashes`). The
clocks run past every threshold by at least one tick (`MinWatch`,
`OfflineAfter`, `Retention`, `PollInterval`), so that each comparison is met
from both sides, and a session can be opened, confirmed, closed, swept, retired
and its id given out again within them. TLC looks at one box in `PollSession`:
poll jobs share the table but no row of it; the theorems below are about any
number of boxes. One box with each power method suffices for the wake, since the
nightly job handles them one at a time, and there too the theorems have no
bounds. One user with one or two events suffices for
the scores, since a pass is made for one user and meets other events only as another
batch (`BatchSize = 1`); what jobs do for other users is in the theorems, which hold
for any number of users and events. Channels do not interact in the EPG store, so one is
enough. In `Remote` one box suffices since no step touches two; its ages run one
tick past the TTL and `MinWatch`. In `LlmCallers` the limits 12 and 8 are 2 and 1,
and batches have 3 events and 1: a batch can be halved, its half, too, after one kind
of answer but not after the other, and the second batch is smaller than the first.
In `Sweep` time is counted in half days and a broadcaster sends two days: EPG lives long
enough to be swept once and forgotten after.

### Fairness

Liveness is checked under weak fairness of what the event loop and the scheduler
guarantee: a coroutine whose answer has come or whose timeout is over is resumed
(`JobsProgress`; the wake steps), timers fire again and again (the daily job,
the watcher, `CleanupEpg`). What the code cannot guarantee is an antecedent of
the property that needs it and no fairness of the specification:
`RuleGetsUpgraded` asks for an LLM that recovers (`OllamaRecovers`),
`StaleGetsRerated` for a daily job that starts within the LLM window again and
again (`NightComes`); `QueuedGetsScored` needs neither. `llm` assumes that a request ends, if by its
timeout, and that a background task gets its turn; that the queue of the
semaphore is first come, first served is in the model. `sweep` assumes that the
hourly job starts and a fetch ends; that a box stays online, and that no channel
of a box that is online always raises, are antecedents of `SweptDaily`.
`HandedBack` assumes that a box with power boots and,
strongly, that a tour ends: its transponders are finite and its time budget is
checked before every zap (`epg.py:427-448`), which the model replaces by "any
number of zaps". No fairness is assumed of people.

## Where code and documents disagree

Two runs are such disagreements, quoted in `PROJECT.json`. `store_liked`: an old
liked event makes every nightly cleanup fail, although the documents say that a
like survives the cleanup and old events go. `store_prose`: a comment calls genre,
title and short description "the fields the LLM prompt uses" (`epg.py:37-38`), but the
prompt shows the long description and the times, too, and a fetch that changes these
leaves the score fresh (`ScoreMatchesPrompt`).

Further configurations are kept beside the runs as counterexamples: TLC finds
the property they name violated. Most lift a restriction of a passing run and show what
that restriction leaves out; some check what a document says. The hazards in
`PROJECT.json` refer to them.

| Configuration | Module | What happens |
|---|---|---|
| `PollSessionDeaf` | `MCPollSession` | A box tuned to a service without a channel row, or whose unconfirmed session was dropped with `last_sref` kept, is watched without a session until its channel changes. |
| `PollSessionAlias` | `MCPollSession` | After a failed commit or a deleted row the job's session id is given to another row, which is then confirmed too early (`CommitMayFail`, `TrackedMayBeDeleted`). |
| `ScoringIngest` | `MCScoring` | A like of an event whose text changes: its explicit score is marked stale and the LLM overwrites it (`epg.py:26`), although `scoring.py:772-774` says that explicit rows are not touched (`LikedChange`). |
| `ScoringHalf` | `MCScoring` | A toggle that stops between its two commits leaves a score without like, or a like without score, for good (`HalfRequests`). |
| `ScoringRace` | `MCScoring` | A like given during an LLM call is overwritten by the answer (`MidPass`). |
| `ScoringWindow` | `MCScoring` | So is a like in a window that is re-rated (kind `window`). |
| `ScoringOutlier` | `MCScoring` | An administrator deletes a like; its score stays (`AdminUnlikes`). |
| `ScoringStale` | `MCScoring` | The answer to a prompt with the old preferences clears the stale mark the new ones have set: `NeverOutdated` is `FreshIsCurrent` without its exception. |
| `ScoringNight` | `MCScoring` | A pass begun in the LLM window goes on after it. |
| `EpgWakeRepeat` | `EpgWake` | A complete opportunistic tour earns no cooldown, because `_prime_woken_receiver` drops its result (`poller.py:514`), although `poller.py:24-25` says that the harvest does not repeat every ten minutes. |
| `EpgWakeSlow` | `EpgWake` | A WOL box that boots after the timeout stays on. |
| `EpgWakeLost` | `EpgWake` | A lost answer counts as "nobody there" (`Losses`). |
| `EpgWakeLate` | `EpgWake` | The mains are cut up to 90 s after the last look (`UserMidCheck`). |
| `EpgWakeBoot` | `EpgWake` | Somebody switches on a box that is off; it is silent while it boots, the nightly job takes it for one it has to wake, and sends it to standby at its first answer, or cuts it off if it is slow (`power.py:205-214`, 260-301): `NeverCutComingUp` is `NeverCutInUse` for boxes that were silent when the job looked. |
| `EpgStoreLag` | `EpgStore` | A now/next fetch removes a programme that has begun during its requests (`MidFetch`). |
| `EpgStoreRace` | `EpgStore` | A score for the old text, in flight during a text change, counts as fresh (`MidRating`). |
| `ReceiversUndeleted` | `MCRemote` | A receiver whose delete fails is listed and polled no more until a restart. |
| `RemoteTwoZaps` | `MCRemote` | Two zaps at a time of a box in standby: the second power key undoes the first (`Overlapping`). |
| `RemoteAsleep` | `MCRemote` | A box that boots into standby is tuned and stays there: after a wake the zap does not ask (`BootsAsleep`). |
| `RemoteInfrared` | `MCRemote` | What somebody tunes to with the infrared remote control within four hours of a browser action counts as the browser user's. |
| `SweepStarved` | `MCSweep` | One channel whose transaction fails ends every run; boxes behind it are never swept (`epg.py:141`). |
| `SweepRounded` | `MCSweep` | With three important channels the coverage 2/3 is rounded up to a threshold of 67 %: the forecast says 0, "the threshold is already breached and the next nightly run will scan" (`epg.py:530-532`), and the nightly run does not wake. |

The passing runs exclude these situations by the constants named in
brackets, or their properties by an exception: they show that nothing else goes wrong.
`EpgWakeBoot` and `ScoringStale` are of the second kind, the situation is part of the
passing run. With `Losses = TRUE` in
`RemoteControl.cfg`, too, TLC finds `ZapWakes` violated: a lost answer, or a lost key,
leaves the box in standby, and the zap reports success.

Two smaller observations: `i18n.py:4` says that translation is "triggered once", but a
key the model leaves out is asked for again at every page load; and a toggle
that stopped half-way leaves an explicit score that, marked stale, no daily job
picks up.

## Proofs

`PollSessionProofs` (for any receivers, services and bounds)

- `TypeCorrect`: `Spec => []TypeOK`, faults included.
- `Invariance`: `NoFaults => (Spec => []IInv)`, with
  `NoFaults == ~CommitMayFail /\ ~TrackedMayBeDeleted`; without it
  `PollSessionAlias` is a counterexample.
- `ConfirmedSessionsAreLong`, `ConfirmedSessionsAreDisjoint`: consequences.
- `EndsAreFinal`: `NoFaults => (Spec => EndIsFinal)`; what a poll closes is the
  open row it remembers (`MemMatchesRow`), and a new session gets a row that is
  not there. `RestartSettles`: `Spec => RestartSettlesSessions`, faults included.
- `WatchedGetsRecorded`: `NoFaults /\ MinWatch > 0 => (Spec => []WatchedIsRecorded)`.
  `Attentive` ties the history to the memory of the poll job: the polls that report
  one service in a row began with the session or later. With `min_watch_sec = 0` a
  session is confirmed only by the second poll, so that the condition is needed.

- `NoneLeftOpen`: `NoFaults => (Spec => []OpenConfirmedIsTracked)`, a part of `IInv`.
- `LongWhateverFails` and `EndsAreFinalWhateverFails`: with one receiver
  (`OneReceiver`) `ConfirmedLongEnough` and `EndIsFinal` hold with faults, too. What
  a failed commit or a deleted row leaves in the memory of the job may no longer
  be in the table, or may be the id of another row. `FaultyInv` says what survives:
  if the row remembered is there at all, it is open, begun when the job thinks, and
  not confirmed unless the job thinks so (`Fits`); and the job's own times are in
  order (`Timely`). With a second receiver another job may have been given that
  id, and `PollSessionAlias` is the counterexample.

`ConfirmedLongEnough` and `NoOverlap` are not inductive. That a close with a
backdated end is late enough needs `ClockOrder` (the last successful poll of a
confirmed session is `MinWatch` after its start); that a new session does not
overlap an old one needs `EndsInThePast` (an ended session ended before the
reading any poll in flight works with, which may lag behind the clock); that the
row a job closes is its own needs `MemMatchesRow` and `OpenConfirmedIsTracked`;
a restart needs `DownIsBlank`. The proof has one lemma for each kind of change
to the table (open, confirm, close, remove, clock, crash, start-up), and one
step for each action that says which kind it is. The assumption
`PollInterval <= OfflineAfter` of `TimesAssumption` is what the settings' defaults
and the constant 600 give.

`EpgWakeProofs` (for any boxes, power methods and number of restarts)

- `TypeCorrect`: `Spec => []TypeOK`, and `MutualExclusion`: `Spec => []OneTour`,
  with losses and people acting at any time. `OneTour` is inductive with types:
  it says not only that the two jobs exclude each other but also that the lock
  says which one is busy.
- `ChecksStayGood`: `Orderly => (Spec => []IInv)`, with
  `Orderly == ~Losses /\ ~UserMidCheck`; `EpgWakeLost` and `EpgWakeLate` are the
  counterexamples without it. It is about boxes that have answered: of one that was
  silent (`blind`) a job knows nothing, and `EpgWakeBoot` shows what may follow.
- `NothingInUseIsCut` (`NeverCutInUse`) and `NobodyIsZapped` (`NeverZapInUse`):
  consequences, under the same condition and for boxes that were up when the job
  looked.
- `NothingStaysOn`: `~Losses => (Spec => []NoneLeftOn)`, whenever people and timers
  act. `Accounted` follows a box behind a mains switch that the job has switched on
  through all phases of the night: until somebody takes it over it is asleep, or in
  the job's hands (`InHand`): on its list of woken boxes or of those to put away, or
  the one it handles. With lost answers the job gives up a box that is up
  (`EpgWakeLost`).

That a job cuts nobody off is no invariant of one step: between the question for
the power state and the command lie the question for the timers, a wait of 90
seconds, and steps of everybody else. `CheckStillGood` says what a job knows of
its box in each of its phases. It is kept because no step starts a use of a box
with a check standing (`StepCalm`), which in turn needs `UseNeedsPower`: who watches
has a box that is on or comes up, and nothing records on one that is not up. Each action of a job then has to establish only what its own next
phase says.

`SessionLogProofs` (for any receivers, services and bounds)

- `LogRefinement`: `NoFaults => (Spec => LogIsKept)`. `Book` of the initial state
  is the empty log; each kind of change to the table (the lemmas of
  `PollSessionProofs`) is a `Begin`, a `Settle` or no change of the log. That a
  confirmed session may begin needs `NoOverlap` after the step and
  `OpenConfirmedIsTracked` before it; that it ends late enough needs
  `ConfirmedLongEnough` after the step.

`RemoteProofs` (for any receivers, users, channels, requests and ages)

- `JobsMatch`: `Spec => []JobsMatchTable`, inductive once it is known which half of a
  handler is done (`HalfDone`); the steps of zaps and polls are steps of `Receivers`.
- `TypeCorrect`: `Spec => []TypeOK`.
- `Ownership`: `Spec => OnlyActorsOwn`; `ActiveIsLatest` ties the registry to the
  history: the entry of a box is its latest action, and as old as that.
- `ZapperOwnership`: `Spec => ZapperOwns`, from `ClaimIsActive` (whose claim
  stands is still in the registry) and `Unattributed` (no session owns anything
  before it is confirmed).
- `ZapsWake`: `Calm => (Spec => []ZapWakes)`, with
  `Calm == ~Overlapping /\ ~BootsAsleep /\ ~Losses`; `RemoteTwoZaps`
  and `RemoteAsleep` are counterexamples without it, and so is a run with losses.
  `ZapProgress` says what an undisturbed zap knows of its box in each of its
  phases, `OneZap` that no other is under way.

`LlmProofs` (for any tasks, events, batch sizes, limits, languages and keys)

- `CallersAreClients`: `Spec => ClientSpec`: scoring and translating refine the
  client.
- `SemaphoreIsKept`, `UsageIsOfResult`: invariants of `ClientSpec`, and so of
  `Spec`. `SemaphoreKept` is inductive with types; a cancelled task in the middle
  of the queue is the hard case. `UsageOfResult` needs `RawIsUsage`: while a call
  retries, the text kept from its first request is the one its usage is of.
- `OneTask`: `Spec => []OneTaskPerLanguage`, from `Tasks`: a translation task is in
  its call exactly as long as it counts as asking.
- `EventsAreScoredOnce`: `Spec => []EachEventOnce`, and `ScoresAreOnesOwn`:
  `Spec => []NobodyElsesScore`, for batches of any size and any pattern of halves,
  cut-off answers and rule scores. Neither is inductive, since both say too little of
  the chunks that are left. `Working` says that they tile the rest of the batch: they
  are disjoint, in order, without a gap, and begin where the scored part ends
  (`Tiles`, `Filled`); that the batch begins at a multiple of the batch size
  (`Boundary`), so that a cancelled pass has written whole batches; and that each
  score in hand is the event's own (`Fair`). Halving a chunk keeps a tiling, an
  answer that fits moves its first chunk to the scored part.
- `TypeCorrect`: `Spec => []TypeOK`.

`ScoringProofs` (for any users, events, kinds of jobs, batch sizes and bounds)

- `TypeCorrect`: `Spec => []TypeOK`. It takes with it `Own`: a job of one user
  works for that user only.
- `FreshScores`: `Spec => []FreshIsCurrent`, without conditions. The strengthening
  `CallsReached` says that a call in flight works with the preferences stated last or
  that its events are in `missed`; `ScoringStale` shows that the exception is needed.
- `LostToFailure`: `Spec => LlmScoreOnlyLostToFailure`, whatever people do.
- `LikesSurvive` and `ExplicitIsLiked`: `JudgementSurvives` and `ExplicitHasLike`
  are inductive only together, and with two more facts: an explicit score is
  never stale (`ExplicitFresh`), so that no selection picks it, and no call in
  flight asks about one (`CallsSpareLikes`). Each of the five conditions has a
  counterexample to one of the two: `MidPass` (`ScoringRace`), `LikedChange` (`ScoringIngest`),
  `AdminUnlikes` (`ScoringOutlier`), `HalfRequests` (`ScoringHalf`) and the kind
  `window` (`ScoringWindow`).

- `QueueIsServed`: `~EventsVanish /\ (MaxRestarts = 0 \/ "bootstrap" \in Kinds)
  => (Spec => NoneDropped)`, the safety core of `QueuedGetsScored`, with any users,
  batches and jobs. `Steady` says that the passes of a job have a turn each
  (`Distinct`; for the bootstrap, which serves users in turns, that is arithmetic on
  batch numbers), so that `Launch` takes exactly one of those it begins into the
  call, and that no event in a call has been deleted (`HeldPresent`), so that no job
  dies of an answer. A step may then take an event out of the queue, a pass or a call
  only to score it, to give it a rule row until the window, or because it is over.
  With `EventsVanish = TRUE` a schedule shift removes an event during a call, the job
  dies, and the rest of what it had merged is dropped until a restart
  (`scoring.py:965-983`); without the bootstrap a restart forgets the queue.

All that the proofs need of a job's step is that it is a `StepOf(j)`: the job
begins or goes on with a pass, or stores an answer and goes on. That each kind of
job takes no other step is proved once.

`EpgStoreProofs` (for any starts, durations, texts and bounds)

- `TypeCorrect`: `Spec => []TypeOK`, with `Base`: no two rows have the same id, and
  a session refers to nothing that has not begun.
- `Unified`: `Tidy /\ ~MidFetch => (Spec => []FutureIsUnified)`. `FutureIsUnified` is
  inductive because an event that comes in drives out every row to come that it
  overlaps; among themselves the events of a fetch are `Tidy`.
- `StartedKept`: `~MidFetch => (Spec => StartedStays)`, since a fetch works with the
  current time (`FetchIsNow`); `EpgStoreLag` is the counterexample without it.
- `CleanupIsComplete`: `~Likes => (Spec => CleanupCleans)`; with likes the whole
  transaction may fail.
- `ScoresAreOfTheRow`: `~MidRating => (Spec => []ScoreMatchesCompared)`; `RatingCurrent`
  says that title and genre in a call are those of the row. `EpgStoreRace` is the
  counterexample; that it cannot say more is the finding of `store_prose`.
- `GenreKept`: a genre once known stays known.

`SweepProofs` (for any boxes, channels, jobs and depths)

- `SweptData`: `Spec => []SweptMeansData`, with any number of sweeps at a time,
  boxes that come and go, raising channels and restarts. It rests on `InOrder`:
  whatever a sweep under way has behind it has its data or is on its list of
  skipped channels. That another run may write over that list does no harm is
  the point of the proof.
- `SkippedFirst`: `Spec => RetriedFirst`: channels skipped last time come first.
- `ForecastIsKept`: `Foreseeable /\ NoNearMiss => (Spec => ForecastKept)`, for any
  number of important channels, depths and thresholds. `Foreseeable` are the settings
  for which there is something to forecast: the threshold and the hours to be covered
  are positive, and no EPG reaches so far that `max_days` ends the search. `NoNearMiss`
  says that no share of the important channels, of which there are finitely many
  (`ForecastAssumption`), lies less than half a percent below the
  threshold, where `epg_coverage` rounds up and `days_until_forced_scan` does not;
  `SweepRounded` is the counterexample. `Reach` (EPG reaches no further than a harvest
  does) makes the search end; that it counts down follows because a day takes the same
  off each channel, and the channels covered only become fewer as days go by, so that
  the first day that falls short is the least.
- `NoWakeBeforeForecast`: `Foreseeable` alone excludes a wake before the day of the
  forecast: rounding can only make it late.

## Only model-checked

Every invariant and every action property of the passing runs is stated by a theorem.
`TypeOK` is an invariant of one run only; the other modules have a theorem
`TypeCorrect` (`Sweep` within `SweptData`). What only TLC checks is liveness, since TLAPS handles neither fairness nor `ENABLED`:
`QueuedGetsScored`, `RuleGetsUpgraded`, `StaleGetsRerated`, `HandedBack`, `OldGoes`,
`AskersEnd` and `SweptDaily`. For two of them a theorem has the part that is safety:
`QueueIsServed` (what is queued remains to be scored) and `NothingStaysOn` (a box that
is on for a job is in its hands). No module with theorems declares a `RECURSIVE` operator,
and none so far defines anything by recursion.

## Not modelled

Parsing of OpenWebif answers and HTTP; contents of prompts and values of scores;
which transponder carries which channel and how long a tour dwells; screenshots and
lists of timers; statistics; the web pages. `PROJECT.json` lists each part with the
reason.

## Plan

1. done: `PollSession`, `Scoring`, `EpgWake`, `EpgStore`; then `SessionLog`,
   `Receivers`, `Remote`, `LlmClient`, `LlmCallers`, `Sweep`, with their runs and the
   proofs above.
2. Compose `EpgStore` ingest with the score queue.
3. Pure algorithms against reference definitions: the LLM window and local time,
   dwell until saturated, transponder groups.
4. More theorems: the safety parts of the other liveness properties; what the
   hypotheses `Foreseeable` and `OneReceiver` leave open.
