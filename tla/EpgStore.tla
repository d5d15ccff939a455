------------------------------ MODULE EpgStore ------------------------------
(***************************************************************************)
(* The schedule of one channel: the epg_events rows that fetches write     *)
(* (app/services/epg.py), the sessions and likes that refer to them, and   *)
(* the nightly cleanup.  Channels do not interact.                         *)
(*                                                                         *)
(* A fetch writes in one transaction after its last await; refresh_now_next*)
(* has read the clock before its awaits, refresh_epg_service after.        *)
(*                                                                         *)
(* Abstracted: of the texts, genre stands for short_desc, too, which a     *)
(* fetch fills in and compares like it, and desc is long_desc, which it    *)
(* fills in and does not compare; scores are those of one user, computed   *)
(* from what the prompt showed of the row: its times and all its texts.    *)
(***************************************************************************)
EXTENDS Naturals, FiniteSets

CONSTANTS
    Starts,      \* start times events can have
    Durations,   \* and how long they can be
    Titles,
    Genres,
    Descs,       \* long descriptions
    None,        \* SQL NULL, an absent row
    MinEvents,   \* fewer events from a full fetch are ignored (epg.py:243)
    Retention,   \* settings.epg_retention_days
    MaxTime,     \* bound on the clock
    MaxId,       \* bound on row ids
    Tidy,        \* are the events of one fetch free of overlaps?
    MidFetch,    \* may the clock advance during a now/next fetch?
    Likes,       \* do users like or dislike events?
    Rates,       \* does a scoring job run?
    MidRating    \* may a fetch change what the job is just scoring?

ASSUME TimesAssumption ==
    /\ Starts \subseteq Nat /\ Durations \subseteq Nat \ {0}
    /\ {MinEvents, Retention, MaxTime, MaxId} \subseteq Nat

ASSUME ScopeAssumption ==
    {Tidy, MidFetch, Likes, Rates, MidRating} \subseteq BOOLEAN

VARIABLES
    now,       \* the clock
    rows,      \* table epg_events, by the unique key start_time
    watched,   \* starts of the rows viewing_sessions refer to
    liked,     \* starts of the rows user_likes refer to
    score,     \* by start, the row of user_event_scores
    rating,    \* by start, the id of a row in an LLM call and what that shows
    fetching   \* the time a now/next fetch in flight has read

vars == <<now, rows, watched, liked, score, rating, fetching>>

Time == 0..MaxTime
Text == [title : Titles, genre : Genres \cup {None}, desc : Descs \cup {None}]
Ends == {s + d : s \in Starts, d \in Durations}
Row == [end : Ends, text : Text, cached : Time, id : 1..MaxId]
Shown == [end : Ends, text : Text]   \* what a prompt shows of a row
Score == [basis : Shown, stale : BOOLEAN]
Rating == [id : 1..MaxId, basis : Shown]

ASSUME NoneAssumption ==
    None \notin Row \cup Score \cup Rating \cup Genres \cup Descs \cup Time

TypeOK ==
    /\ now \in Time
    /\ rows \in [Starts -> Row \cup {None}]
    /\ watched \in SUBSET Starts
    /\ liked \in SUBSET Starts
    /\ score \in [Starts -> Score \cup {None}]
    /\ rating \in [Starts -> Rating \cup {None}]
    /\ fetching \in Time \cup {None}

-----------------------------------------------------------------------------
(* Rows and intervals.                                                     *)

Live(s) == rows[s] # None
Present == {s \in Starts : Live(s)}

\* What a box can answer: at most one event per start time.  Of several with
\* one start time the last is meant.
Answers == UNION {[S -> [len : Durations, text : Text]] : S \in SUBSET Starts}

\* Mutant: only an event that begins within another one overlaps it.
OverlapsAtStart(s, e, t, f) == s >= t /\ s < f

\* Do [s, e) and [t, f) overlap?
Overlaps(s, e, t, f) == s < f /\ t < e

\* When event s of fetch F ends.
End(F, s) == s + F[s].len

Sensible(F) ==
    Tidy => \A s, t \in DOMAIN F : s # t => ~Overlaps(s, End(F, s), t, End(F, t))

\* Mutant: a fetch without a genre blanks the one that is known.
FilledInNever(new, old) == new

\* coalesce(excluded.genre, genre)
FilledIn(new, old) == IF new # None THEN new ELSE old

\* Mutant: only another title counts as a change.
ChangedTitle(old, new) == new.title # old.title

\* What counts as a change; the description and the times do not.
Changed(old, new) == new.title # old.title \/ new.genre # old.genre

-----------------------------------------------------------------------------
(* A fetch.                                                                *)

\* New rows get ids above all others, in any order that TLC need not tell
\* apart: that of their starts.
NewId(F, s) ==
    LET largest == IF Present = {} THEN 0
                   ELSE rows[CHOOSE p \in Present : \A q \in Present : rows[q].id <= rows[p].id].id
    IN  largest + Cardinality({t \in DOMAIN F : ~Live(t) /\ t <= s})

\* insert ... on conflict (channel_id, start_time) do update
Stored(F, s, at) ==
    IF Live(s)
    THEN [rows[s] EXCEPT !.end = End(F, s), !.cached = at,
                         !.text = [title |-> F[s].text.title,
                                   genre |-> FilledIn(F[s].text.genre, @.genre),
                                   desc |-> FilledIn(F[s].text.desc, @.desc)]]
    ELSE [end |-> End(F, s), text |-> F[s].text, cached |-> at, id |-> NewId(F, s)]

\* Mutant: programmes that run already are removed, too.
OverlappedEvenRunning(F, at) ==
    {s \in (Present \ DOMAIN F) \ watched :
        \E t \in DOMAIN F : Overlaps(s, rows[s].end, t, End(F, t))}

\* _remove_overlapped: what a fetch at time `at` makes obsolete.
Overlapped(F, at) ==
    {s \in (Present \ DOMAIN F) \ watched :
        /\ s > at
        /\ \E t \in DOMAIN F : Overlaps(s, rows[s].end, t, End(F, t))}

\* The rows gone are deleted, their scores with them.  The foreign key of
\* user_likes, which nobody heeds, makes the whole transaction fail.
Ingest(F, at) ==
    LET gone == Overlapped(F, at)
        text(s) == Stored(F, s, at).text
        stale == {s \in DOMAIN F : Live(s) /\ Changed(rows[s].text, text(s))}
    IN  /\ Sensible(F)
        /\ \A s \in DOMAIN F : ~Live(s) => NewId(F, s) <= MaxId
        /\ (\E s \in stale \cup gone : rating[s] # None) => MidRating
        /\ IF gone \cap liked # {}
           THEN UNCHANGED <<rows, score>>
           ELSE /\ rows' = [s \in Starts |->
                              IF s \in DOMAIN F THEN Stored(F, s, at)
                              ELSE IF s \in gone THEN None ELSE rows[s]]
                /\ score' = [s \in Starts |->
                              IF s \in gone THEN None
                              ELSE IF s \in stale /\ score[s] # None
                              THEN [score[s] EXCEPT !.stale = TRUE] ELSE score[s]]

\* refresh_epg_service, the full schedule of the channel.
RefreshService(F) ==
    /\ Cardinality(DOMAIN F) >= MinEvents
    /\ Ingest(F, now)
    /\ UNCHANGED <<now, watched, liked, rating, fetching>>

\* refresh_now_next
NowNextBegins ==
    /\ fetching = None
    /\ fetching' = now
    /\ UNCHANGED <<now, rows, watched, liked, score, rating>>

NowNextEnds(F) ==
    /\ fetching # None
    /\ IF F = <<>> THEN UNCHANGED <<rows, score>> ELSE Ingest(F, fetching)
    /\ fetching' = None
    /\ UNCHANGED <<now, watched, liked, rating>>

-----------------------------------------------------------------------------
(* The nightly cleanup.                                                    *)

\* Mutant: only what got old since the last night.
OldToday(at) == {s \in Present : rows[s].end + Retention + 1 = at}

Old(at) == {s \in Present : rows[s].end + Retention < at}

\* Mutant: no tie-break.
OlderStrictly(s, t) == rows[s].cached < rows[t].cached

\* Is row s older than row t?
Older(s, t) ==
    \/ rows[s].cached < rows[t].cached
    \/ rows[s].cached = rows[t].cached /\ rows[s].id < rows[t].id

\* cleanup_overlapping_events among the rows left, all at once.
Superseded(left, refs) ==
    {s \in left \ refs :
        /\ s > now
        /\ \E t \in left \ {s} : /\ Overlaps(s, rows[s].end, t, rows[t].end)
                                 /\ Older(s, t)}

Delete(S) ==
    /\ rows' = [s \in Starts |-> IF s \in S THEN None ELSE rows[s]]
    /\ score' = [s \in Starts |-> IF s \in S THEN None ELSE score[s]]

\* _cleanup_epg, after it has removed sessions that are too old (some or
\* none).  Each DELETE fails as a whole if it hits a liked row; if the first
\* fails, the second is not tried.
CleanupEpg ==
    \E refs \in SUBSET watched :
        LET old == Old(now) \ refs
            twice == Superseded(Present \ old, refs)
        IN  /\ (\E s \in old \cup twice : rating[s] # None) => MidRating
            /\ watched' = refs
            /\ IF old \cap liked # {} THEN UNCHANGED <<rows, score>>
               ELSE IF twice \cap liked # {} THEN Delete(old)
               ELSE Delete(old \cup twice)
            /\ UNCHANGED <<now, liked, rating, fetching>>

-----------------------------------------------------------------------------
(* Sessions, likes, scores and the clock.                                  *)

\* _confirm_session links what was on at the session's start t, of several
\* events the one that began last.
LinkSession(t) ==
    LET on == {s \in Present : s <= t /\ t < rows[s].end} IN
    /\ t <= now
    /\ on # {}
    /\ watched' = watched \cup {CHOOSE s \in on : \A r \in on : r <= s}
    /\ UNCHANGED <<now, rows, liked, score, rating, fetching>>

\* An administrator deletes the sessions of an event.
DeleteSessions(s) ==
    /\ s \in watched
    /\ watched' = watched \ {s}
    /\ UNCHANGED <<now, rows, liked, score, rating, fetching>>

\* toggle_like; the score it sets is not modelled here.
ToggleLike(s) ==
    /\ Likes
    /\ Live(s)
    /\ liked' = IF s \in liked THEN liked \ {s} ELSE liked \cup {s}
    /\ UNCHANGED <<now, rows, watched, score, rating, fetching>>

\* _build_scoring_prompt
Prompt(s) == [end |-> rows[s].end, text |-> rows[s].text]

\* A scoring job reads what is pending and not over, and asks the LLM ...
RatingBegins(s) ==
    /\ Rates
    /\ Live(s) /\ rows[s].end > now /\ rating[s] = None
    /\ score[s] # None => score[s].stale
    /\ rating' = [rating EXCEPT ![s] = [id |-> rows[s].id, basis |-> Prompt(s)]]
    /\ UNCHANGED <<now, rows, watched, liked, score, fetching>>

\* ... and stores the score with the row that has the id now, if there is one
\* and the call does not fail.
RatingEnds(s) ==
    /\ rating[s] # None
    /\ \/ \E t \in Present :
             /\ rows[t].id = rating[s].id
             /\ score' = [score EXCEPT ![t] = [basis |-> rating[s].basis, stale |-> FALSE]]
       \/ UNCHANGED score
    /\ rating' = [rating EXCEPT ![s] = None]
    /\ UNCHANGED <<now, rows, watched, liked, fetching>>

Tick ==
    /\ now < MaxTime
    /\ fetching # None => MidFetch
    /\ now' = now + 1
    /\ UNCHANGED <<rows, watched, liked, score, rating, fetching>>

Init ==
    /\ now = 0
    /\ rows = [s \in Starts |-> None]
    /\ watched = {}
    /\ liked = {}
    /\ score = [s \in Starts |-> None]
    /\ rating = [s \in Starts |-> None]
    /\ fetching = None

Next ==
    \/ \E F \in Answers : RefreshService(F) \/ NowNextEnds(F)
    \/ NowNextBegins
    \/ CleanupEpg
    \/ \E t \in Time : LinkSession(t)
    \/ \E s \in Starts :
          DeleteSessions(s) \/ ToggleLike(s) \/ RatingBegins(s) \/ RatingEnds(s)
    \/ Tick

Spec == Init /\ [][Next]_vars

-----------------------------------------------------------------------------
(* Properties.                                                             *)

\* No two programmes that have yet to begin overlap, whatever schedule shifts
\* the fetches have brought (epg.py:106-145).
FutureIsUnified ==
    \A s, t \in Present :
        s # t /\ s > now /\ t > now => ~Overlaps(s, rows[s].end, t, rows[t].end)

\* A programme that has begun is removed by nothing but the retention
\* (epg.py:106-115).
StartedStays ==
    [][\A s \in Starts :
         Live(s) /\ s <= now /\ rows'[s] = None => s \in Old(now)]_vars

\* A genre once known stays known as long as the row does (epg.py:34-43).
GenreStaysKnown ==
    [][\A s \in Starts :
         Live(s) /\ rows[s].text.genre # None /\ rows'[s] # None
         => rows'[s].text.genre # None]_vars

Fresh(s) == score[s] # None /\ ~score[s].stale

\* A score that is not stale was computed with the title, genre and short
\* description the row has now, however often it was fetched, deleted and made
\* again meanwhile (epg.py:21-23, 91-100).
ScoreMatchesCompared ==
    \A s \in Starts :
        Fresh(s) => /\ Live(s)
                    /\ score[s].basis.text.title = rows[s].text.title
                    /\ score[s].basis.text.genre = rows[s].text.genre

\* As if these were "the fields the LLM prompt uses" (epg.py:37-38), a score that
\* is not stale would be of what a prompt shows of the row now; the long
\* description and the times are in it, too (scoring.py:130-135, 207-212).
ScoreMatchesPrompt == \A s \in Starts : Fresh(s) => Live(s) /\ score[s].basis = Prompt(s)

\* After the nightly cleanup a row past the retention is one a session refers
\* to, and only one of two overlapping rows to come is left
\* (epg.py:694-731, docs/deploy.md:305).
CleanupCleans ==
    [][CleanupEpg =>
         LET left == {s \in Starts : rows'[s] # None} IN
         /\ \A s \in left : rows[s].end + Retention < now => s \in watched'
         /\ \A s, t \in left :
               s # t /\ s > now /\ t > now
               => s \in watched' \/ t \in watched'
                  \/ ~Overlaps(s, rows[s].end, t, rows[t].end)]_vars

\* A row past the retention is deleted in the end, unless a session refers to
\* it (docs/deploy.md:305).
OldGoes ==
    \A s \in Starts :
        (Live(s) /\ rows[s].end + Retention < now)
            ~> (~Live(s) \/ rows[s].end + Retention >= now \/ s \in watched)

\* Fairness: the cleanup runs every night.
FairSpec == Spec /\ WF_vars(CleanupEpg)

=============================================================================
