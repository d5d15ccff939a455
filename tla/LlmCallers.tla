------------------------------ MODULE LlmCallers ------------------------------
(***************************************************************************)
(* Who asks the language model, and what they make of its answers:          *)
(*  - scoring passes (score_events_for_user and _score_chunk of scoring.py) *)
(*    send a batch, halve it when the answer is cut off or does not fit it, *)
(*    and fall back to rule scores;                                         *)
(*  - translate_missing of i18n.py translates the strings of a language,    *)
(*    one background task at a time for each.                               *)
(* Their calls are those of LlmClient; a caller goes on in the same step in *)
(* which its call returns.                                                  *)
(*                                                                         *)
(* Abstracted: scores, reasons and prompts.  Of an answer only the numbers  *)
(* (index) of its entries matter, 0 for one that has none; an answer with   *)
(* the wrong number of entries is the empty one.                            *)
(***************************************************************************)
EXTENDS LlmClient, FiniteSets

CONSTANTS
    Scorers,        \* tasks that score
    Translators,    \* background tasks that translate
    None,
    LastEvent,      \* a pass has the events 1..LastEvent, in this order
    BatchSize,      \* _BATCH_SIZE
    HalveMismatch,  \* the 12 of _halve_or_rule
    HalveOverflow,  \* the 8 of _score_chunk
    Langs,          \* language codes other than de
    Keys,           \* keys of static/i18n/de.json
    Curated         \* per language, the keys of its own file

ASSUME CallersAssumption ==
    /\ Callers = Scorers \cup Translators
    /\ Scorers \cap Translators = {}
    /\ None \notin Langs

ASSUME BatchAssumption ==
    /\ {LastEvent, BatchSize, HalveMismatch, HalveOverflow} \subseteq Nat \ {0}
    /\ Curated \in [Langs -> SUBSET Keys]

VARIABLES
    pass,      \* per scorer, its pass
    batchJobs, \* _BATCH_JOBS
    task,      \* per translator, the background task
    stored     \* table translations: per language, the keys it has

callerVars == <<pass, batchJobs, task, stored>>
vars == <<clientVars, callerVars>>

\* A row: absent, scored by the rule, or with the entry of the answer that
\* was meant for the event ("own"), that stood at its place in an answer that
\* does not tell its candidates apart ("place"), or another's ("wrong").
Rows == {"none", "rule", "own", "place", "wrong"}

\* chunks: still to be scored of the current batch, as intervals of events,
\* the first is with the LLM.  triples: what _score_chunk has so far.
\* rest: the first event of the next batch.  rows: what has been written.
Interval == [first : 1..LastEvent, last : 0..LastEvent]

TypeOK ==
    /\ ClientTypeOK
    /\ \A s \in Scorers :
          /\ pass[s].chunks \in Seq(Interval)
          /\ pass[s].triples \in [1..LastEvent -> Rows]
          /\ pass[s].rest \in 1..(LastEvent + BatchSize)
          /\ pass[s].rows \in [1..LastEvent -> Rows]
    /\ batchJobs \subseteq Langs
    /\ task \in [Translators -> [lang : Langs \cup {None}, asks : BOOLEAN]]
    /\ stored \in [Langs -> SUBSET Keys]

NoRows == [e \in 1..LastEvent |-> "none"]
NoTask == [lang |-> None, asks |-> FALSE]

Init ==
    /\ ClientInit
    /\ pass = [s \in Scorers |-> [chunks |-> <<>>, triples |-> NoRows,
                                  rest |-> 1, rows |-> NoRows]]
    /\ batchJobs = {}
    /\ task = [t \in Translators |-> NoTask]
    /\ stored = [l \in Langs |-> {}]

-----------------------------------------------------------------------------
(* Chunks and answers.                                                     *)

Size(c) == c.last + 1 - c.first

\* Mutant: the second half starts with the last event of the first.
HalvesOverlap(c) ==
    LET half == Size(c) \div 2
    IN  <<[first |-> c.first, last |-> c.first + half - 1],
          [first |-> c.first + half - 1, last |-> c.last]>>

Halves(c) ==
    LET half == Size(c) \div 2
    IN  <<[first |-> c.first, last |-> c.first + half - 1],
          [first |-> c.first + half, last |-> c.last]>>

\* Mutant: nothing clips the last batch.
BatchUnclipped(e) == [first |-> e, last |-> e + BatchSize - 1]

\* The batch that starts at event e.
Batch(e) ==
    [first |-> e, last |-> IF e + BatchSize - 1 < LastEvent
                           THEN e + BatchSize - 1 ELSE LastEvent]

Numbers(idx) == {idx[k] : k \in DOMAIN idx}

\* Answers to a chunk of n: any numbering, n + 1 stands for all too large.
Answers(n) == [1..n -> 0..(n + 1)] \cup {<<>>}

\* An answer that does not tell its candidates apart: no entry is numbered,
\* or all have the same number.
Undistinguished(idx) == Cardinality(Numbers(idx)) = 1

\* Mutant: any answer of the right length is sorted by its numbers.
FitsByLength(idx, n) == Len(idx) = n

\* _align_to_chunk, and the length check before it: can it be attributed?
Fits(idx, n) ==
    /\ Len(idx) = n
    /\ Undistinguished(idx) \/ Numbers(idx) = 1..n

\* Which entry the k-th candidate gets: the entry at its place, or the k-th
\* when they are sorted by number.
EntryFor(idx, k) ==
    IF Undistinguished(idx) THEN k
    ELSE CHOOSE j \in DOMAIN idx :
            /\ Cardinality({i \in DOMAIN idx : idx[i] < idx[j]}) < k
            /\ Cardinality({i \in DOMAIN idx : idx[i] <= idx[j]}) >= k

\* What the candidates 1..n get from an answer, <<>> if it cannot be used.
Attributed(idx, n) ==
    IF ~Fits(idx, n) THEN <<>>
    ELSE [k \in 1..n |-> IF Undistinguished(idx) THEN "place"
                         ELSE IF idx[EntryFor(idx, k)] = k THEN "own" ELSE "wrong"]

\* All that can come of a chunk of n.
Outcomes == [n \in 0..BatchSize |-> {Attributed(idx, n) : idx \in Answers(n)}]

Ruled(c) == [e \in c.first..c.last |-> "rule"]

-----------------------------------------------------------------------------
(* Scoring.                                                                *)

Scoring(s) == pass[s].chunks # <<>>

\* The pass selects its events and sends the first batch.
PassStarts(s) ==
    /\ ~Scoring(s)
    /\ Ask(s)
    /\ pass' = [pass EXCEPT ![s] = [chunks |-> <<Batch(1)>>, triples |-> NoRows,
                                    rest |-> 1 + BatchSize, rows |-> NoRows]]
    /\ UNCHANGED <<batchJobs, task, stored>>

\* Mutant: of a batch that was halved only the last chunk's rows are kept.
LastChunkOnly(p, got) ==
    [e \in 1..LastEvent |-> IF e \in DOMAIN got THEN got[e] ELSE "none"]

\* The rows of the batch so far.
Triples(p, got) ==
    [e \in 1..LastEvent |-> IF e \in DOMAIN got THEN got[e] ELSE p.triples[e]]

\* The first chunk is done with these rows.  When the last chunk of a batch
\* is done, the batch is written, and the next one is begun.
ChunkDone(p, got) ==
    LET triples == Triples(p, got)
        written == [e \in 1..LastEvent |-> IF triples[e] # "none" THEN triples[e]
                                           ELSE p.rows[e]]
    IN  IF Len(p.chunks) > 1
        THEN [p EXCEPT !.chunks = Tail(@), !.triples = triples]
        ELSE [chunks |-> IF p.rest > LastEvent THEN <<>> ELSE <<Batch(p.rest)>>,
              triples |-> NoRows,
              rest |-> IF p.rest > LastEvent THEN p.rest ELSE p.rest + BatchSize,
              rows |-> written]

\* Mutant: a chunk as small as the limit is halved, too.
HalvesSmallest(p, limit) ==
    LET c == Head(p.chunks)
    IN  IF Size(c) >= limit THEN [p EXCEPT !.chunks = Halves(c) \o Tail(@)]
        ELSE ChunkDone(p, Ruled(c))

HalveOrRule(p, limit) ==
    LET c == Head(p.chunks)
    IN  IF Size(c) > limit THEN [p EXCEPT !.chunks = Halves(c) \o Tail(@)]
        ELSE ChunkDone(p, Ruled(c))

\* _score_chunk has an answer, which comes to this for the chunk; the usage
\* says whether it was cut off.
Scored(p, result, cutOff, outcome) ==
    LET c == Head(p.chunks)
    IN  IF result.of = 0 THEN ChunkDone(p, Ruled(c))
        ELSE IF cutOff THEN HalveOrRule(p, HalveOverflow)
        ELSE IF result.parsed /\ outcome # <<>>
             THEN ChunkDone(p, [e \in c.first..c.last |-> outcome[e + 1 - c.first]])
        ELSE HalveOrRule(p, HalveMismatch)

\* A call of the pass returns, and the pass makes the next call or ends.
ScorerGoesOn(s, reply, full) ==
    LET cutOff == Recorded(s, reply, full)[s].full
        chunk == Head(pass[s].chunks)
    IN  /\ Asking(s)
        /\ \E outcome \in Outcomes[Size(chunk)] :
                LET p == Scored(pass[s], Returned(s, reply), cutOff, outcome)
                IN  /\ pass' = [pass EXCEPT ![s] = p]
                    /\ IF p.chunks = <<>> THEN Returns(s, reply, full)
                       ELSE ReturnsAndAsks(s, reply, full)
                    /\ UNCHANGED <<batchJobs, task, stored>>

ScorerRetries(s, reply, full) ==
    Retries(s, reply, full) /\ UNCHANGED callerVars

\* schedule_rerate cancels a debounced re-rate that waits for the LLM; what
\* the pass has written stays.
PassCancelled(s) ==
    /\ Cancelled(s)
    /\ pass' = [pass EXCEPT ![s].chunks = <<>>, ![s].triples = NoRows, ![s].rest = 1]
    /\ UNCHANGED <<batchJobs, task, stored>>

-----------------------------------------------------------------------------
(* Translation.                                                            *)

\* get_translations: what the page still shows in German.
Missing(l) == Keys \ (Curated[l] \cup stored[l])

\* GET /api/i18n/{lang} adds a background task, run after the response.
PageAsksFor(t, l) ==
    /\ task[t] = NoTask
    /\ Missing(l) # {}
    /\ l \notin batchJobs
    /\ task' = [task EXCEPT ![t] = [lang |-> l, asks |-> FALSE]]
    /\ UNCHANGED <<clientVars, pass, batchJobs, stored>>

\* Mutant: the task relies on the page having looked.
Unguarded(l) == TRUE

\* Is no other task translating l?  (asked again in translate_missing)
NoneTranslates(l) == l \notin batchJobs

\* translate_missing makes its call, or leaves it to the one that runs.
TaskStarts(t) ==
    LET l == task[t].lang
    IN  /\ l # None /\ ~task[t].asks
        /\ \/ /\ NoneTranslates(l)
              /\ batchJobs' = batchJobs \cup {l}
              /\ task' = [task EXCEPT ![t] = [lang |-> l, asks |-> TRUE]]
              /\ Ask(t)
           \/ /\ ~NoneTranslates(l)
              /\ task' = [task EXCEPT ![t] = NoTask]
              /\ UNCHANGED <<clientVars, batchJobs>>
        /\ UNCHANGED <<pass, stored>>

\* Mutant: the language is only released if there was something to store.
ReleasedIfStored(l, result) == IF result.parsed THEN batchJobs \ {l} ELSE batchJobs

\* The finally of translate_missing.
BatchReleased(l, result) == batchJobs \ {l}

\* The call returns: what it has of the known keys is stored.
TaskEnds(t, reply, full) ==
    LET l == task[t].lang
        result == Returned(t, reply)
    IN  /\ Returns(t, reply, full)
        /\ \E got \in IF result.parsed THEN SUBSET Keys ELSE {{}} :
              stored' = [stored EXCEPT ![l] = @ \cup got]
        /\ batchJobs' = BatchReleased(l, result)
        /\ task' = [task EXCEPT ![t] = NoTask]
        /\ UNCHANGED pass

TaskRetries(t, reply, full) ==
    Retries(t, reply, full) /\ UNCHANGED callerVars

-----------------------------------------------------------------------------

Answered(c) ==
    \E reply \in Replies, full \in BOOLEAN :
        \/ c \in Scorers /\ (ScorerGoesOn(c, reply, full) \/ ScorerRetries(c, reply, full))
        \/ /\ c \in Translators /\ ~full   \* nobody reads their usage
           /\ TaskEnds(c, reply, full) \/ TaskRetries(c, reply, full)

Next ==
    \/ \E s \in Scorers : PassStarts(s) \/ PassCancelled(s)
    \/ \E t \in Translators, l \in Langs : PageAsksFor(t, l)
    \/ \E t \in Translators : TaskStarts(t)
    \/ \E c \in Callers : Answered(c)

Spec == Init /\ [][Next]_vars

\* A request ends, if only by its timeout; a background task gets its turn.
FairSpec ==
    /\ Spec
    /\ \A c \in Callers : WF_vars(Answered(c))
    /\ \A t \in Translators : WF_vars(TaskStarts(t))

-----------------------------------------------------------------------------
(* Properties.                                                             *)

In(e, c) == c.first <= e /\ e <= c.last

\* However a batch is cut up, each of its events is still to be scored in
\* exactly one chunk, or has been scored, never both.  So a pass that comes
\* to its end has a row for every event; one that is cancelled has written
\* whole batches.
EachEventOnce ==
    \A s \in Scorers :
        LET p == pass[s]
            open(e) == {i \in DOMAIN p.chunks : In(e, p.chunks[i])}
            batch == {e \in 1..LastEvent : e < p.rest /\ e + BatchSize >= p.rest}
            written == {e \in 1..LastEvent : p.rows[e] # "none"}
        IN  IF Scoring(s)
            THEN \A e \in 1..LastEvent :
                    IF e \in batch
                    THEN Cardinality(open(e)) + (IF p.triples[e] = "none" THEN 0 ELSE 1) = 1
                    ELSE open(e) = {} /\ p.triples[e] = "none"
            ELSE /\ p.rest > LastEvent => written = 1..LastEvent
                 /\ \A e \in written : \A d \in 1..LastEvent :
                       (d - 1) \div BatchSize = (e - 1) \div BatchSize => d \in written

\* If an answer numbers its entries, no event gets the score of another.
NobodyElsesScore ==
    \A s \in Scorers, e \in 1..LastEvent :
        "wrong" \notin {pass[s].rows[e], pass[s].triples[e]}

TasksFor(l) == {t \in Translators : task[t].lang = l /\ task[t].asks}

\* A language is marked as being translated exactly as long as one task, and
\* only one, asks for its translation: otherwise it would be asked for twice,
\* or never again.
OneTaskPerLanguage ==
    \A l \in Langs :
        /\ Cardinality(TasksFor(l)) <= 1
        /\ TasksFor(l) # {} <=> l \in batchJobs

\* Whatever the model answers, and however often it does not: halving comes
\* to an end, and so does a pass; no language stays "pending" for a task that
\* is stuck or did not clean up.
AskersEnd ==
    /\ \A s \in Scorers : Scoring(s) ~> ~Scoring(s)
    /\ \A l \in Langs : l \in batchJobs ~> l \notin batchJobs
=============================================================================
