---------------------------- MODULE EpgStoreProofs ----------------------------
(***************************************************************************)
(* Proofs about the schedule of a channel (EpgStore): types, the future    *)
(* without overlaps, what fetches and the cleanup leave alone, and the     *)
(* texts scores were computed from.                                        *)
(***************************************************************************)
EXTENDS EpgStore, TLAPS, FiniteSetTheorems, WellFoundedInduction

\* A bounded set of numbers has a largest.
LEMMA Largest ==
    ASSUME NEW S \in SUBSET Nat, S # {}, NEW n \in Nat, \A x \in S : x <= n
    PROVE  \E x \in S : \A y \in S : y <= x
<1> DEFINE T == {n - x : x \in S}
<1>1. T \subseteq Nat /\ T # {}
  <2>1. \A x \in S : n - x \in Nat
    OBVIOUS
  <2> QED
    BY <2>1
<1>2. PICK m \in T : \A k \in T : <<k, m>> \notin OpToRel(<, Nat)
  BY <1>1, NatLessThanWellFounded, WFMin
<1>3. \A k \in T : ~(k < m)
  BY <1>1, <1>2 DEF OpToRel
<1>4. PICK x \in S : m = n - x
  OBVIOUS
<1>5. \A y \in S : y <= x
  <2> TAKE y \in S
  <2>1. n - y \in T
    OBVIOUS
  <2>2. ~(n - y < n - x)
    BY <1>3, <1>4, <2>1
  <2> QED
    BY <2>2
<1> QED
  BY <1>5

-----------------------------------------------------------------------------
(* Answers of a box, and the rows they become.                             *)

LEMMA AnswerFacts ==
    ASSUME NEW F \in Answers
    PROVE  /\ DOMAIN F \subseteq Starts
           /\ \A s \in DOMAIN F :
                 /\ s \in Nat /\ F[s].len \in Nat \ {0} /\ F[s].text \in Text
                 /\ End(F, s) \in Ends /\ End(F, s) \in Nat
<1>1. PICK S \in SUBSET Starts : F \in [S -> [len : Durations, text : Text]]
  BY DEF Answers
<1>2. DOMAIN F = S /\ \A s \in S : F[s].len \in Durations /\ F[s].text \in Text
  BY <1>1
<1>3. \A s \in Starts, d \in Durations : s \in Nat /\ d \in Nat \ {0} /\ s + d \in Ends /\ s + d \in Nat
  BY TimesAssumption DEF Ends
<1> QED
  BY <1>2, <1>3 DEF End

LEMMA RowFacts ==
    ASSUME TypeOK
    PROVE  /\ now \in Nat
           /\ \A s \in Starts :
                 /\ s \in Nat
                 /\ Live(s) => /\ rows[s] \in Row /\ rows[s].end \in Nat
                               /\ rows[s].id \in Nat \ {0} /\ rows[s].id <= MaxId
                               /\ rows[s].cached \in Nat /\ rows[s].text \in Text
<1>1. Ends \subseteq Nat /\ Starts \subseteq Nat /\ Time \subseteq Nat
  BY TimesAssumption DEF Ends, Time
<1>2. \A s \in Starts : Live(s) => rows[s] \in Row
  BY DEF TypeOK, Live
<1>3. \A r \in Row : /\ r.end \in Nat /\ r.id \in Nat \ {0} /\ r.id <= MaxId
                     /\ r.cached \in Nat /\ r.text \in Text
  <2> TAKE r \in Row
  <2>1. r.end \in Ends /\ r.id \in 1..MaxId /\ r.cached \in Time /\ r.text \in Text
    BY DEF Row
  <2>2. MaxId \in Nat
    BY TimesAssumption
  <2>3. r.id \in Nat \ {0} /\ r.id <= MaxId
    BY <2>1, <2>2
  <2> QED
    BY <1>1, <2>1, <2>3
<1> QED
  BY <1>1, <1>2, <1>3 DEF TypeOK


\* The two parts of NewId.
HighestId ==
    IF Present = {} THEN 0
    ELSE rows[CHOOSE p \in Present : \A q \in Present : rows[q].id <= rows[p].id].id

NewUpTo(F, s) == {t \in DOMAIN F : ~Live(t) /\ t <= s}

LEMMA HighestFacts ==
    ASSUME TypeOK
    PROVE  HighestId \in Nat /\ \A p \in Present : rows[p].id <= HighestId
<1>1. CASE Present = {}
  BY <1>1 DEF HighestId
<1>2. CASE Present # {}
  <2> DEFINE ids == {rows[p].id : p \in Present}
             top == CHOOSE p \in Present : \A q \in Present : rows[q].id <= rows[p].id
  <2>1. \A p \in Present : rows[p].id \in Nat /\ rows[p].id <= MaxId
    BY RowFacts DEF Present
  <2>2. ids \in SUBSET Nat /\ ids # {} /\ \A x \in ids : x <= MaxId
    BY <1>2, <2>1
  <2>3. PICK x \in ids : \A y \in ids : y <= x
    BY <2>2, Largest, TimesAssumption
  <2>4. \E p \in Present : \A q \in Present : rows[q].id <= rows[p].id
    BY <2>3
  <2>5. top \in Present /\ \A q \in Present : rows[q].id <= rows[top].id
    BY <2>4
  <2>6. HighestId = rows[top].id
    BY <1>2 DEF HighestId
  <2> HIDE DEF top
  <2> QED
    BY <2>1, <2>5, <2>6
<1> QED
  BY <1>1, <1>2

LEMMA NewUpToFacts ==
    ASSUME NEW F \in Answers, NEW s \in DOMAIN F
    PROVE  IsFiniteSet(NewUpTo(F, s)) /\ Cardinality(NewUpTo(F, s)) \in Nat
<1>1. s \in Nat /\ NewUpTo(F, s) \in SUBSET (0..s)
  BY AnswerFacts DEF NewUpTo
<1>2. IsFiniteSet(0..s)
  BY <1>1, FS_Interval
<1>3. IsFiniteSet(NewUpTo(F, s))
  BY <1>1, <1>2, FS_Subset
<1> QED
  BY <1>3, FS_CardinalityType

\* The ids of new rows are above all others.
LEMMA NewIdFacts ==
    ASSUME TypeOK, NEW F \in Answers, NEW s \in DOMAIN F, ~Live(s)
    PROVE  /\ NewId(F, s) \in Nat \ {0}
           /\ \A p \in Present : rows[p].id < NewId(F, s)
<1>1. s \in NewUpTo(F, s)
  BY AnswerFacts DEF NewUpTo
<1>2. Cardinality(NewUpTo(F, s)) \in Nat \ {0}
  BY <1>1, NewUpToFacts, FS_EmptySet
<1>3. NewId(F, s) = HighestId + Cardinality(NewUpTo(F, s))
  BY DEF NewId, HighestId, NewUpTo
<1>4. \A p \in Present : rows[p].id \in Nat
  BY RowFacts DEF Present
<1> QED
  BY <1>2, <1>3, <1>4, HighestFacts

\* No two of them are the same.
LEMMA NewIdsDiffer ==
    ASSUME TypeOK, NEW F \in Answers, NEW s \in DOMAIN F, NEW t \in DOMAIN F,
           ~Live(s), ~Live(t), NewId(F, s) = NewId(F, t)
    PROVE  s = t
<1>1. ASSUME NEW x \in DOMAIN F, NEW y \in DOMAIN F, ~Live(x), ~Live(y), x < y
      PROVE  Cardinality(NewUpTo(F, x)) # Cardinality(NewUpTo(F, y))
  <2>1. x \in Nat /\ y \in Nat /\ \A z \in DOMAIN F : z \in Nat
    BY AnswerFacts
  <2>2. NewUpTo(F, x) \in SUBSET NewUpTo(F, y)
    BY <1>1, <2>1 DEF NewUpTo
  <2>3. y \in NewUpTo(F, y) /\ y \notin NewUpTo(F, x)
    BY <1>1, <2>1 DEF NewUpTo
  <2> QED
    BY <2>2, <2>3, NewUpToFacts, FS_Subset
<1>2. /\ NewId(F, s) = HighestId + Cardinality(NewUpTo(F, s))
      /\ NewId(F, t) = HighestId + Cardinality(NewUpTo(F, t))
  BY DEF NewId, HighestId, NewUpTo
<1>3. s \in Nat /\ t \in Nat
  BY AnswerFacts
<1>4. Cardinality(NewUpTo(F, s)) = Cardinality(NewUpTo(F, t))
  <2>1. HighestId \in Nat /\ Cardinality(NewUpTo(F, s)) \in Nat /\ Cardinality(NewUpTo(F, t)) \in Nat
    BY HighestFacts, NewUpToFacts
  <2>2. HighestId + Cardinality(NewUpTo(F, s)) = HighestId + Cardinality(NewUpTo(F, t))
    BY <1>2
  <2>3. \A a, b, c \in Nat : a + b = a + c => b = c
    OBVIOUS
  <2> QED
    BY <2>1, <2>2, <2>3, Zenon
<1>5. ~(s < t) /\ ~(t < s)
  BY <1>1, <1>4
<1> QED
  BY <1>3, <1>5

\* Two texts with the same title and genre.
SameCompared(x, y) == x.title = y.title /\ x.genre = y.genre

\* What a fetch makes of an event.
LEMMA StoredFacts ==
    ASSUME TypeOK, NEW F \in Answers, NEW s \in DOMAIN F, NEW at \in Time,
           ~Live(s) => NewId(F, s) <= MaxId
    PROVE  /\ Stored(F, s, at) \in Row
           /\ Stored(F, s, at).end = End(F, s)
           /\ Live(s) => Stored(F, s, at).id = rows[s].id
           /\ ~Live(s) => Stored(F, s, at).id = NewId(F, s)
           /\ Live(s) /\ rows[s].text.genre # None => Stored(F, s, at).text.genre # None
           /\ Live(s) /\ ~Changed(rows[s].text, Stored(F, s, at).text)
                 => SameCompared(Stored(F, s, at).text, rows[s].text)
<1>1. F[s].text \in Text /\ End(F, s) \in Ends /\ s \in Starts
  BY AnswerFacts
<1>2. CASE Live(s)
  <2> DEFINE text == [title |-> F[s].text.title,
                      genre |-> FilledIn(F[s].text.genre, rows[s].text.genre),
                      desc |-> FilledIn(F[s].text.desc, rows[s].text.desc)]
  <2>1. rows[s] \in Row /\ rows[s].text \in Text
    BY <1>1, <1>2, RowFacts
  <2>2. Stored(F, s, at) = [rows[s] EXCEPT !.end = End(F, s), !.cached = at, !.text = text]
    BY <1>2 DEF Stored
  <2>3. text \in Text
    BY <1>1, <2>1 DEF Text, FilledIn
  <2>4. rows[s].text.genre # None => text.genre # None
    BY DEF FilledIn
  <2>5. ~Changed(rows[s].text, text) => SameCompared(text, rows[s].text)
    BY DEF Changed, SameCompared
  <2> HIDE DEF text
  <2>6. /\ Stored(F, s, at) \in Row /\ Stored(F, s, at).end = End(F, s)
        /\ Stored(F, s, at).id = rows[s].id /\ Stored(F, s, at).text = text
    BY <1>1, <2>1, <2>2, <2>3 DEF Row
  <2> QED
    BY <1>2, <2>4, <2>5, <2>6
<1>3. CASE ~Live(s)
  <2>1. Stored(F, s, at) = [end |-> End(F, s), text |-> F[s].text, cached |-> at, id |-> NewId(F, s)]
    BY <1>3 DEF Stored
  <2>2. NewId(F, s) \in 1..MaxId
    BY <1>3, NewIdFacts, TimesAssumption
  <2> QED
    BY <1>1, <1>3, <2>1, <2>2 DEF Row
<1> QED
  BY <1>2, <1>3

-----------------------------------------------------------------------------
(* Fetches that change the schedule.                                       *)

\* The events whose text a fetch at time `at` changes.
ChangedBy(F, at) ==
    {s \in DOMAIN F : Live(s) /\ Changed(rows[s].text, Stored(F, s, at).text)}

\* The transaction of a fetch is committed.
Ingested(F, at) ==
    /\ \A s \in DOMAIN F : ~Live(s) => NewId(F, s) <= MaxId
    /\ rows' = [s \in Starts |->
                  IF s \in DOMAIN F THEN Stored(F, s, at)
                  ELSE IF s \in Overlapped(F, at) THEN None ELSE rows[s]]
    /\ score' = [s \in Starts |->
                  IF s \in Overlapped(F, at) THEN None
                  ELSE IF s \in ChangedBy(F, at) /\ score[s] # None
                  THEN [score[s] EXCEPT !.stale = TRUE] ELSE score[s]]

LEMMA IngestCases ==
    ASSUME NEW F, NEW at, Ingest(F, at)
    PROVE  /\ Sensible(F)
           /\ ~MidRating => \A s \in ChangedBy(F, at) \cup Overlapped(F, at) : rating[s] = None
           /\ UNCHANGED <<rows, score>> \/ Ingested(F, at)
BY DEF Ingest, ChangedBy, Ingested

\* What is left of row s.
LEMMA RowAfter ==
    ASSUME TypeOK, NEW F \in Answers, NEW at \in Time, Ingested(F, at), NEW s \in Starts
    PROVE  /\ s \in DOMAIN F => rows'[s] = Stored(F, s, at)
           /\ s \in Overlapped(F, at) => Live(s) /\ s \notin DOMAIN F /\ rows'[s] = None
           /\ s \notin DOMAIN F /\ s \notin Overlapped(F, at) => rows'[s] = rows[s]
           /\ rows'[s] \in Row \cup {None}
           /\ s \in DOMAIN F => rows'[s] # None
           /\ rows'[s] # None /\ Live(s) => rows'[s].id = rows[s].id
           /\ rows'[s] # None /\ ~Live(s) => s \in DOMAIN F /\ rows'[s].id = NewId(F, s)
<1>1. s \in Overlapped(F, at) => Live(s) /\ s \notin DOMAIN F
  BY DEF Overlapped, Present
<1>2. /\ s \in DOMAIN F => rows'[s] = Stored(F, s, at)
      /\ s \in Overlapped(F, at) => rows'[s] = None
      /\ s \notin DOMAIN F /\ s \notin Overlapped(F, at) => rows'[s] = rows[s]
  BY <1>1 DEF Ingested
<1>3. s \in DOMAIN F =>
        /\ Stored(F, s, at) \in Row
        /\ Live(s) => Stored(F, s, at).id = rows[s].id
        /\ ~Live(s) => Stored(F, s, at).id = NewId(F, s)
  BY StoredFacts DEF Ingested
<1>4. rows[s] \in Row \cup {None} /\ None \notin Row
  BY NoneAssumption DEF TypeOK
<1> QED
  BY <1>1, <1>2, <1>3, <1>4 DEF Live

LEMMA ScoreAfter ==
    ASSUME TypeOK, NEW F \in Answers, NEW at \in Time, Ingested(F, at), NEW s \in Starts
    PROVE  /\ score'[s] \in Score \cup {None}
           /\ s \in Overlapped(F, at) => score'[s] = None
           /\ score'[s] # None /\ ~score'[s].stale
                 => /\ score[s] # None /\ ~score[s].stale /\ score'[s] = score[s]
                    /\ s \notin Overlapped(F, at) /\ s \notin ChangedBy(F, at)
<1>1. score[s] \in Score \cup {None} /\ None \notin Score
  BY NoneAssumption DEF TypeOK
<1>2. score'[s] = IF s \in Overlapped(F, at) THEN None
                  ELSE IF s \in ChangedBy(F, at) /\ score[s] # None
                  THEN [score[s] EXCEPT !.stale = TRUE] ELSE score[s]
  BY DEF Ingested
<1> QED
  BY <1>1, <1>2 DEF Score

-----------------------------------------------------------------------------
(* Types, ids, and sessions of what has begun.                             *)

Unique == \A s, t \in Present : rows[s].id = rows[t].id => s = t

WatchedBegan == \A s \in watched : s <= now

Base == TypeOK /\ Unique /\ WatchedBegan

LEMMA IngestKeeps ==
    ASSUME Base, NEW F \in Answers, NEW at \in Time, Ingest(F, at)
    PROVE  /\ rows' \in [Starts -> Row \cup {None}] /\ score' \in [Starts -> Score \cup {None}]
           /\ Unique'
<1>1. CASE UNCHANGED <<rows, score>>
  BY <1>1 DEF Base, TypeOK, Unique, Present, Live
<1>2. CASE Ingested(F, at)
  <2>1. rows' \in [Starts -> Row \cup {None}]
    <3>1. \A s \in Starts : rows'[s] \in Row \cup {None}
      BY <1>2, RowAfter DEF Base
    <3> QED
      BY <1>2, <3>1 DEF Ingested
  <2>2. score' \in [Starts -> Score \cup {None}]
    <3>1. \A s \in Starts : score'[s] \in Score \cup {None}
      BY <1>2, ScoreAfter DEF Base
    <3> QED
      BY <1>2, <3>1 DEF Ingested
  <2>3. ASSUME NEW s \in Present', NEW t \in Present', rows'[s].id = rows'[t].id
        PROVE  s = t
    <3>1. s \in Starts /\ t \in Starts /\ rows'[s] # None /\ rows'[t] # None
      BY DEF Present, Live
    <3>2. /\ Live(s) => rows'[s].id = rows[s].id
          /\ ~Live(s) => s \in DOMAIN F /\ rows'[s].id = NewId(F, s)
          /\ Live(t) => rows'[t].id = rows[t].id
          /\ ~Live(t) => t \in DOMAIN F /\ rows'[t].id = NewId(F, t)
      BY <1>2, <3>1, RowAfter DEF Base
    <3>3. CASE Live(s) /\ Live(t)
      BY <2>3, <3>1, <3>2, <3>3 DEF Base, Unique, Present
    <3>4. CASE Live(s) /\ ~Live(t)
      <4>1. rows[s].id < NewId(F, t) /\ rows[s].id \in Nat /\ NewId(F, t) \in Nat
        BY <3>1, <3>2, <3>4, NewIdFacts, RowFacts DEF Base, Present
      <4> QED
        BY <2>3, <3>2, <3>4, <4>1
    <3>5. CASE ~Live(s) /\ Live(t)
      <4>1. rows[t].id < NewId(F, s) /\ rows[t].id \in Nat /\ NewId(F, s) \in Nat
        BY <3>1, <3>2, <3>5, NewIdFacts, RowFacts DEF Base, Present
      <4> QED
        BY <2>3, <3>2, <3>5, <4>1
    <3>6. CASE ~Live(s) /\ ~Live(t)
      BY <2>3, <3>2, <3>6, NewIdsDiffer DEF Base
    <3> QED
      BY <3>3, <3>4, <3>5, <3>6
  <2> QED
    BY <2>1, <2>2, <2>3 DEF Unique
<1> QED
  BY <1>1, <1>2, IngestCases

\* What the cleanup of a night deletes.
LEMMA CleanupParts ==
    ASSUME CleanupEpg
    PROVE  \E refs \in SUBSET watched, gone \in SUBSET Present :
              /\ watched' = refs
              /\ gone \subseteq (Old(now) \ refs) \cup Superseded(Present \ (Old(now) \ refs), refs)
              /\ liked = {} => gone = (Old(now) \ refs)
                                        \cup Superseded(Present \ (Old(now) \ refs), refs)
              /\ ~MidRating => \A s \in gone : rating[s] = None
              /\ Delete(gone) \/ (gone = {} /\ UNCHANGED <<rows, score>>)
              /\ UNCHANGED <<now, liked, rating, fetching>>
<1>1. PICK refs \in SUBSET watched :
        LET old == Old(now) \ refs
            twice == Superseded(Present \ old, refs)
        IN  /\ (\E s \in old \cup twice : rating[s] # None) => MidRating
            /\ watched' = refs
            /\ IF old \cap liked # {} THEN UNCHANGED <<rows, score>>
               ELSE IF twice \cap liked # {} THEN Delete(old)
               ELSE Delete(old \cup twice)
            /\ UNCHANGED <<now, liked, rating, fetching>>
  BY DEF CleanupEpg
<1> DEFINE old == Old(now) \ refs
           twice == Superseded(Present \ old, refs)
<1>2. old \subseteq Present /\ twice \subseteq Present
  BY DEF Old, Superseded
<1> HIDE DEF old, twice
<1>3. PICK gone \in SUBSET Present :
         /\ gone \subseteq old \cup twice
         /\ liked = {} => gone = old \cup twice
         /\ Delete(gone) \/ (gone = {} /\ UNCHANGED <<rows, score>>)
  <2>1. CASE old \cap liked # {}
    BY <1>1, <2>1 DEF old, twice
  <2>2. CASE old \cap liked = {} /\ twice \cap liked # {}
    BY <1>1, <1>2, <2>2 DEF old, twice
  <2>3. CASE old \cap liked = {} /\ twice \cap liked = {}
    <3>1. Delete(old \cup twice) /\ old \cup twice \in SUBSET Present
      BY <1>1, <1>2, <2>3 DEF old, twice
    <3> QED
      BY <3>1
  <2> QED
    BY <2>1, <2>2, <2>3
<1>4. ~MidRating => \A s \in old \cup twice : rating[s] = None
  BY <1>1 DEF old, twice
<1> QED
  BY <1>1, <1>3, <1>4 DEF old, twice

LEMMA CleanupKeeps ==
    ASSUME Base, CleanupEpg
    PROVE  Base'
<1>1. PICK refs \in SUBSET watched, gone \in SUBSET Present :
         /\ watched' = refs
         /\ Delete(gone) \/ (gone = {} /\ UNCHANGED <<rows, score>>)
         /\ UNCHANGED <<now, liked, rating, fetching>>
  BY CleanupParts
<1>2. \A s \in Starts : /\ rows'[s] = None \/ rows'[s] = rows[s]
                        /\ score'[s] = None \/ score'[s] = score[s]
  BY <1>1 DEF Delete
<1>3. rows' \in [Starts -> Row \cup {None}] /\ score' \in [Starts -> Score \cup {None}]
  BY <1>1, <1>2 DEF Base, TypeOK, Delete
<1>4. Unique'
  BY <1>2 DEF Base, Unique, Present, Live
<1> QED
  BY <1>1, <1>3, <1>4 DEF Base, TypeOK, WatchedBegan

\* Of what is on there is a programme that began last.
LEMMA LinkKeeps ==
    ASSUME Base, NEW t \in Time, LinkSession(t)
    PROVE  Base'
<1> DEFINE on == {s \in Present : s <= t /\ t < rows[s].end}
           last == CHOOSE s \in on : \A r \in on : r <= s
<1>1. /\ t <= now /\ on # {} /\ watched' = watched \cup {last}
      /\ UNCHANGED <<now, rows, liked, score, rating, fetching>>
  BY DEF LinkSession
<1>2. t \in Nat /\ now \in Nat
  BY TimesAssumption DEF Time, Base, TypeOK
<1>3. on \in SUBSET Nat /\ on \subseteq Starts /\ \A s \in on : s <= t
  BY TimesAssumption DEF Present
<1>4. \E s \in on : \A r \in on : r <= s
  BY <1>1, <1>2, <1>3, Largest
<1>5. last \in on
  BY <1>4
<1>6. last \in Starts /\ last <= now
  BY <1>1, <1>2, <1>3, <1>5
<1> HIDE DEF last, on
<1> QED
  BY <1>1, <1>6 DEF Base, TypeOK, Unique, WatchedBegan, Present, Live

LEMMA RateKeeps ==
    ASSUME Base, NEW s \in Starts, RatingBegins(s) \/ RatingEnds(s)
    PROVE  Base'
<1>1. CASE RatingBegins(s)
  <2>1. rows[s] \in Row /\ rows[s].id \in 1..MaxId /\ Prompt(s) \in Shown
    BY <1>1 DEF RatingBegins, Base, TypeOK, Live, Row, Prompt, Shown
  <2>2. rating' \in [Starts -> Rating \cup {None}]
    BY <1>1, <2>1 DEF RatingBegins, Base, TypeOK, Rating
  <2> QED
    BY <1>1, <2>2 DEF RatingBegins, Base, TypeOK, Unique, WatchedBegan, Present, Live
<1>2. CASE RatingEnds(s)
  <2>1. rating[s] \in Rating /\ rating[s].basis \in Shown
    BY <1>2 DEF RatingEnds, Base, TypeOK, Rating
  <2>2. score' \in [Starts -> Score \cup {None}]
    <3>1. CASE UNCHANGED score
      BY <3>1 DEF Base, TypeOK
    <3>2. ASSUME NEW t \in Present,
                 score' = [score EXCEPT ![t] = [basis |-> rating[s].basis, stale |-> FALSE]]
          PROVE  score' \in [Starts -> Score \cup {None}]
      BY <2>1, <3>2 DEF Base, TypeOK, Score, Present
    <3> QED
      BY <1>2, <3>1, <3>2 DEF RatingEnds
  <2>3. rating' \in [Starts -> Rating \cup {None}]
    BY <1>2 DEF RatingEnds, Base, TypeOK
  <2> QED
    BY <1>2, <2>2, <2>3 DEF RatingEnds, Base, TypeOK, Unique, WatchedBegan, Present, Live
<1> QED
  BY <1>1, <1>2

LEMMA BaseInit == Init => Base
BY TimesAssumption DEF Init, Base, TypeOK, Unique, WatchedBegan, Present, Live, Time

LEMMA BaseNext == Base /\ [Next]_vars => Base'
<1> SUFFICES ASSUME Base, [Next]_vars PROVE Base'
  OBVIOUS
<1>1. ASSUME NEW F \in Answers, RefreshService(F) \/ NowNextEnds(F) PROVE Base'
  <2>1. CASE RefreshService(F)
    <3>1. now \in Time
      BY DEF Base, TypeOK
    <3> QED
      BY <2>1, <3>1, IngestKeeps DEF RefreshService, Base, TypeOK, WatchedBegan
  <2>2. CASE NowNextEnds(F) /\ Ingest(F, fetching)
    <3>1. fetching \in Time
      BY <2>2 DEF NowNextEnds, Base, TypeOK
    <3> QED
      BY <2>2, <3>1, IngestKeeps DEF NowNextEnds, Base, TypeOK, WatchedBegan
  <2>3. CASE NowNextEnds(F) /\ UNCHANGED <<rows, score>>
    BY <2>3 DEF NowNextEnds, Base, TypeOK, Unique, WatchedBegan, Present, Live
  <2> QED
    BY <1>1, <2>1, <2>2, <2>3 DEF NowNextEnds
<1>2. CASE NowNextBegins
  BY <1>2 DEF NowNextBegins, Base, TypeOK, Unique, WatchedBegan, Present, Live
<1>3. ASSUME NEW s \in Starts, DeleteSessions(s) \/ ToggleLike(s) PROVE Base'
  BY <1>3 DEF DeleteSessions, ToggleLike, Base, TypeOK, Unique, WatchedBegan, Present, Live
<1>4. CASE Tick
  <2>1. now \in Nat /\ now' = now + 1 /\ now' \in Time
    BY <1>4, TimesAssumption DEF Tick, Time, Base, TypeOK
  <2>2. \A s \in watched : s \in Nat
    BY TimesAssumption DEF Base, TypeOK
  <2>3. WatchedBegan'
    BY <1>4, <2>1, <2>2 DEF Tick, Base, WatchedBegan
  <2> QED
    BY <1>4, <2>1, <2>3 DEF Tick, Base, TypeOK, Unique, Present, Live
<1>5. CASE UNCHANGED vars
  BY <1>5 DEF vars, Base, TypeOK, Unique, WatchedBegan, Present, Live
<1> QED
  BY <1>1, <1>2, <1>3, <1>4, <1>5, CleanupKeeps, LinkKeeps, RateKeeps DEF Next

LEMMA BaseHolds == Spec => []Base
BY BaseInit, BaseNext, PTL DEF Spec

\* Rows, scores and what refers to them keep their types, and no two rows
\* share an id.
THEOREM TypeCorrect == Spec => []TypeOK
BY BaseHolds, PTL DEF Base

-----------------------------------------------------------------------------
(* What a fetch and a cleanup leave alone.                                 *)

\* A fetch in flight has read the time it is now.
FetchIsNow == fetching # None => fetching = now

LEMMA FetchIsNowNext ==
    ASSUME ~MidFetch, Base, FetchIsNow, [Next]_vars
    PROVE  FetchIsNow'
<1>1. None \notin Time
  BY NoneAssumption
<1>2. now' = now \/ (fetching = None /\ fetching' = None)
  BY DEF Next, vars, RefreshService, NowNextBegins, NowNextEnds, CleanupEpg, LinkSession,
         DeleteSessions, ToggleLike, RatingBegins, RatingEnds, Tick
<1>3. fetching' \in {None, now, fetching}
  BY DEF Next, vars, RefreshService, NowNextBegins, NowNextEnds, CleanupEpg, LinkSession,
         DeleteSessions, ToggleLike, RatingBegins, RatingEnds, Tick
<1> QED
  BY <1>2, <1>3 DEF FetchIsNow

LEMMA FetchIsNowHolds == ~MidFetch => (Spec => []FetchIsNow)
<1> SUFFICES ASSUME ~MidFetch PROVE Spec => []FetchIsNow
  OBVIOUS
<1>1. Init => FetchIsNow
  BY DEF Init, FetchIsNow
<1> QED
  BY <1>1, FetchIsNowNext, BaseHolds, PTL DEF Spec

\* The schedules fetches bring are ingested as of now, everything else leaves
\* the rows alone, deletes some in the cleanup, or just looks at them.
LEMMA RowSteps ==
    ASSUME Base, FetchIsNow, [Next]_vars
    PROVE  \/ \E F \in Answers : Ingest(F, now) /\ UNCHANGED <<now, watched, liked, rating>>
           \/ CleanupEpg
           \/ UNCHANGED rows
<1>1. ASSUME NEW F \in Answers, RefreshService(F) \/ NowNextEnds(F)
      PROVE  (Ingest(F, now) /\ UNCHANGED <<now, watched, liked, rating>>) \/ UNCHANGED rows
  BY <1>1 DEF RefreshService, NowNextEnds, FetchIsNow
<1>2. CASE NowNextBegins \/ Tick \/ UNCHANGED vars
  BY <1>2 DEF NowNextBegins, Tick, vars
<1>3. CASE \E t \in Time : LinkSession(t)
  BY <1>3 DEF LinkSession
<1>4. CASE \E s \in Starts :
             DeleteSessions(s) \/ ToggleLike(s) \/ RatingBegins(s) \/ RatingEnds(s)
  BY <1>4 DEF DeleteSessions, ToggleLike, RatingBegins, RatingEnds
<1> QED
  BY <1>1, <1>2, <1>3, <1>4 DEF Next

LEMMA IngestUnifies ==
    ASSUME Tidy, Base, FutureIsUnified, NEW F \in Answers, Ingest(F, now), now' = now
    PROVE  FutureIsUnified'
<1>1. CASE UNCHANGED <<rows, score>>
  BY <1>1 DEF FutureIsUnified, Present, Live
<1>2. CASE Ingested(F, now)
  <2> SUFFICES ASSUME NEW s \in Starts, NEW t \in Starts, rows'[s] # None, rows'[t] # None,
                      s # t, s > now, t > now
               PROVE  ~Overlaps(s, rows'[s].end, t, rows'[t].end)
    BY DEF FutureIsUnified, Present, Live
  <2>1. now \in Time
    BY DEF Base, TypeOK
  <2>2. /\ s \in DOMAIN F => rows'[s] = Stored(F, s, now)
        /\ t \in DOMAIN F => rows'[t] = Stored(F, t, now)
        /\ s \notin DOMAIN F => Live(s) /\ s \notin Overlapped(F, now) /\ rows'[s] = rows[s]
        /\ t \notin DOMAIN F => Live(t) /\ t \notin Overlapped(F, now) /\ rows'[t] = rows[t]
    BY <1>2, <2>1, RowAfter DEF Base, Live
  <2>3. /\ s \in DOMAIN F => rows'[s].end = End(F, s)
        /\ t \in DOMAIN F => rows'[t].end = End(F, t)
    BY <1>2, <2>1, <2>2, StoredFacts DEF Base, Ingested
  <2>4. s \in Nat /\ t \in Nat /\ now \in Nat
    BY RowFacts DEF Base
  <2>5. s \notin watched /\ t \notin watched
    BY <2>4 DEF Base, WatchedBegan
  <2>6. CASE s \in DOMAIN F /\ t \in DOMAIN F
    BY <2>3, <2>6, IngestCases DEF Sensible
  <2>7. CASE s \in DOMAIN F /\ t \notin DOMAIN F
    <3>1. ~Overlaps(t, rows[t].end, s, End(F, s))
      BY <2>2, <2>5, <2>7 DEF Overlapped, Present
    <3> QED
      BY <2>2, <2>3, <2>7, <3>1 DEF Overlaps
  <2>8. CASE s \notin DOMAIN F /\ t \in DOMAIN F
    <3>1. ~Overlaps(s, rows[s].end, t, End(F, t))
      BY <2>2, <2>5, <2>8 DEF Overlapped, Present
    <3> QED
      BY <2>2, <2>3, <2>8, <3>1
  <2>9. CASE s \notin DOMAIN F /\ t \notin DOMAIN F
    BY <2>2, <2>9 DEF FutureIsUnified, Present
  <2> QED
    BY <2>6, <2>7, <2>8, <2>9
<1> QED
  BY <1>1, <1>2, IngestCases

\* Once only tidy schedules come in, and are stored as of now, no two
\* programmes that have yet to begin overlap, however schedules shift
\* (epg.py:106-145).
THEOREM Unified == Tidy /\ ~MidFetch => (Spec => []FutureIsUnified)
<1> SUFFICES ASSUME Tidy, ~MidFetch PROVE Spec => []FutureIsUnified
  OBVIOUS
<1>1. Init => FutureIsUnified
  BY DEF Init, FutureIsUnified, Present, Live
<1>2. Base /\ FetchIsNow /\ FutureIsUnified /\ [Next]_vars => FutureIsUnified'
  <2> SUFFICES ASSUME Base, FetchIsNow, FutureIsUnified, [Next]_vars PROVE FutureIsUnified'
    OBVIOUS
  <2>1. CASE \E F \in Answers : Ingest(F, now) /\ UNCHANGED <<now, watched, liked, rating>>
    BY <2>1, IngestUnifies
  <2>2. CASE CleanupEpg
    <3>1. now' = now /\ \A s \in Starts : rows'[s] = None \/ rows'[s] = rows[s]
      BY <2>2, CleanupParts DEF Delete
    <3> QED
      BY <3>1 DEF FutureIsUnified, Present, Live
  <2>3. CASE UNCHANGED rows
    <3>1. now \in Nat /\ now' \in {now, now + 1} /\ \A s \in Starts : s \in Nat
      BY RowFacts DEF Base, Next, vars, RefreshService, NowNextBegins, NowNextEnds, CleanupEpg,
         LinkSession, DeleteSessions, ToggleLike, RatingBegins, RatingEnds, Tick
    <3> QED
      BY <2>3, <3>1 DEF FutureIsUnified, Present, Live
  <2> QED
    BY <2>1, <2>2, <2>3, RowSteps
<1>3. Spec => []Base /\ []FetchIsNow
  BY BaseHolds, FetchIsNowHolds
<1> QED
  BY <1>1, <1>2, <1>3, PTL DEF Spec

\* Whatever shift a fetch brings, and whatever overlaps there are, a programme
\* that has begun is removed by nothing but the retention (epg.py:106-115,
\* 694-731).
THEOREM StartedKept == ~MidFetch => (Spec => StartedStays)
<1> SUFFICES ASSUME ~MidFetch PROVE Spec => StartedStays
  OBVIOUS
<1>1. Base /\ FetchIsNow /\ [Next]_vars =>
        [\A s \in Starts :
           Live(s) /\ s <= now /\ rows'[s] = None => s \in Old(now)]_vars
  <2> SUFFICES ASSUME Base, FetchIsNow, [Next]_vars, NEW s \in Starts,
                      Live(s), s <= now, rows'[s] = None
               PROVE  s \in Old(now)
    OBVIOUS
  <2>1. s \in Nat /\ now \in Nat /\ now \in Time /\ ~(s > now)
    BY RowFacts DEF Base, TypeOK
  <2>2. ASSUME NEW F \in Answers, Ingest(F, now) PROVE FALSE
    <3>1. CASE UNCHANGED rows
      BY <3>1 DEF Live
    <3>2. CASE Ingested(F, now)
      <4>1. s \in Overlapped(F, now)
        BY <2>1, <3>2, RowAfter DEF Base, Live
      <4> QED
        BY <2>1, <4>1 DEF Overlapped
    <3> QED
      BY <2>2, <3>1, <3>2, IngestCases
  <2>3. CASE CleanupEpg
    <3>1. PICK refs, gone :
             /\ gone \subseteq (Old(now) \ refs) \cup Superseded(Present \ (Old(now) \ refs), refs)
             /\ Delete(gone) \/ (gone = {} /\ UNCHANGED <<rows, score>>)
      BY <2>3, CleanupParts
    <3>2. s \in gone
      BY <3>1 DEF Delete, Live
    <3> QED
      BY <2>1, <3>1, <3>2 DEF Superseded
  <2>4. CASE UNCHANGED rows
    BY <2>4 DEF Live
  <2> QED
    BY <2>2, <2>3, <2>4, RowSteps
<1>2. Spec => []Base /\ []FetchIsNow
  BY BaseHolds, FetchIsNowHolds
<1> QED
  BY <1>1, <1>2, PTL DEF Spec, StartedStays

-----------------------------------------------------------------------------
(* The cleanup.                                                            *)

\* If nobody likes anything, the cleanup removes all that is past the
\* retention or doubly planned, except what a session refers to
\* (epg.py:694-731, docs/deploy.md:305).
THEOREM CleanupIsComplete == ~Likes => (Spec => CleanupCleans)
<1> SUFFICES ASSUME ~Likes PROVE Spec => CleanupCleans
  OBVIOUS
<1> DEFINE NoLikes == liked = {}
<1>1. Spec => []NoLikes
  <2>1. Init => NoLikes
    BY DEF Init
  <2>2. NoLikes /\ [Next]_vars => NoLikes'
    BY DEF Next, vars, RefreshService, NowNextBegins, NowNextEnds, CleanupEpg,
       LinkSession, DeleteSessions, ToggleLike, RatingBegins, RatingEnds, Tick
  <2> QED
    BY <2>1, <2>2, PTL DEF Spec
<1>2. Base /\ NoLikes /\ [Next]_vars =>
        [CleanupEpg =>
           LET left == {s \in Starts : rows'[s] # None} IN
           /\ \A s \in left : rows[s].end + Retention < now => s \in watched'
           /\ \A s, t \in left :
                 s # t /\ s > now /\ t > now
                 => s \in watched' \/ t \in watched'
                    \/ ~Overlaps(s, rows[s].end, t, rows[t].end)]_vars
  <2> SUFFICES ASSUME Base, NoLikes, CleanupEpg
               PROVE  LET left == {s \in Starts : rows'[s] # None} IN
                      /\ \A s \in left : rows[s].end + Retention < now => s \in watched'
                      /\ \A s, t \in left :
                            s # t /\ s > now /\ t > now
                            => s \in watched' \/ t \in watched'
                               \/ ~Overlaps(s, rows[s].end, t, rows[t].end)
    OBVIOUS
  <2>1. PICK refs \in SUBSET watched, gone \in SUBSET Present :
           /\ watched' = refs
           /\ gone = (Old(now) \ refs) \cup Superseded(Present \ (Old(now) \ refs), refs)
           /\ Delete(gone) \/ (gone = {} /\ UNCHANGED <<rows, score>>)
    BY CleanupParts
  <2>2. \A s \in Starts : rows'[s] # None => s \in Present \ gone
    BY <2>1 DEF Delete, Present, Live
  <2>3. ASSUME NEW s \in Starts, rows'[s] # None, rows[s].end + Retention < now
        PROVE  s \in watched'
    BY <2>1, <2>2, <2>3 DEF Old
  <2>4. ASSUME NEW s \in Starts, NEW t \in Starts, rows'[s] # None, rows'[t] # None,
               s # t, s > now, t > now, s \notin refs, t \notin refs,
               Overlaps(s, rows[s].end, t, rows[t].end)
        PROVE  FALSE
    <3>1. s \in Present /\ t \in Present /\ s \notin gone /\ t \notin gone
      BY <2>2, <2>4
    <3>2. rows[s].id # rows[t].id
      BY <2>4, <3>1 DEF Base, Unique
    <3>3. /\ rows[s].id \in Nat /\ rows[t].id \in Nat
          /\ rows[s].cached \in Nat /\ rows[t].cached \in Nat
      BY <3>1, RowFacts DEF Base, Present
    <3>4. Older(s, t) \/ Older(t, s)
      BY <3>2, <3>3 DEF Older
    <3>5. Overlaps(t, rows[t].end, s, rows[s].end)
      BY <2>4 DEF Overlaps
    <3>6. s \in Present \ (Old(now) \ refs) /\ t \in Present \ (Old(now) \ refs)
      BY <2>1, <3>1
    <3>7. s \in Superseded(Present \ (Old(now) \ refs), refs)
          \/ t \in Superseded(Present \ (Old(now) \ refs), refs)
      BY <2>4, <3>4, <3>5, <3>6 DEF Superseded
    <3> QED
      BY <2>1, <3>1, <3>7
  <2> QED
    BY <2>1, <2>3, <2>4
<1> QED
  BY <1>1, <1>2, BaseHolds, PTL DEF Spec, CleanupCleans

-----------------------------------------------------------------------------
(* Texts and scores.                                                       *)

\* Whatever fetch ends, it ingests at a time that was read before.
LEMMA FetchSteps ==
    ASSUME Base, NEW F \in Answers, RefreshService(F) \/ NowNextEnds(F)
    PROVE  /\ UNCHANGED rating
           /\ UNCHANGED <<rows, score>> \/ (\E at \in Time : Ingest(F, at))
BY DEF RefreshService, NowNextEnds, Base, TypeOK

\* A fetch without a genre does not blank the one that is known (epg.py:34-43).
THEOREM GenreKept == Spec => GenreStaysKnown
<1>1. Base /\ [Next]_vars =>
        [\A s \in Starts :
           Live(s) /\ rows[s].text.genre # None /\ rows'[s] # None
           => rows'[s].text.genre # None]_vars
  <2> SUFFICES ASSUME Base, [Next]_vars, NEW s \in Starts,
                      Live(s), rows[s].text.genre # None, rows'[s] # None
               PROVE  rows'[s].text.genre # None
    OBVIOUS
  <2>1. ASSUME NEW F \in Answers, NEW at \in Time, Ingested(F, at)
        PROVE  rows'[s].text.genre # None
    <3>1. CASE s \in DOMAIN F
      BY <2>1, <3>1, RowAfter, StoredFacts DEF Base, Ingested
    <3>2. CASE s \notin DOMAIN F
      BY <2>1, <3>2, RowAfter DEF Base
    <3> QED
      BY <3>1, <3>2
  <2>2. CASE \E F \in Answers : RefreshService(F) \/ NowNextEnds(F)
    BY <2>1, <2>2, FetchSteps, IngestCases
  <2>3. CASE CleanupEpg
    BY <2>3, CleanupParts DEF Delete
  <2>4. CASE UNCHANGED rows
    BY <2>4
  <2>5. CASE \E t \in Time : LinkSession(t)
    BY <2>4, <2>5 DEF LinkSession
  <2>6. CASE \E t \in Starts :
               DeleteSessions(t) \/ ToggleLike(t) \/ RatingBegins(t) \/ RatingEnds(t)
    BY <2>4, <2>6 DEF DeleteSessions, ToggleLike, RatingBegins, RatingEnds
  <2>7. CASE NowNextBegins \/ Tick \/ UNCHANGED vars
    BY <2>4, <2>7 DEF NowNextBegins, Tick, vars
  <2> QED
    BY <2>2, <2>3, <2>5, <2>6, <2>7 DEF Next
<1> QED
  BY <1>1, BaseHolds, PTL DEF Spec, GenreStaysKnown

\* What a job is just scoring has the title and genre of a row there is.
RatingCurrent ==
    \A s \in Starts :
        rating[s] # None => /\ Live(s)
                            /\ rating[s].id = rows[s].id
                            /\ SameCompared(rating[s].basis.text, rows[s].text)

TextInv == ScoreMatchesCompared /\ RatingCurrent

LEMMA IngestKeepsText ==
    ASSUME ~MidRating, Base, TextInv, NEW F \in Answers, NEW at \in Time,
           Ingest(F, at), UNCHANGED rating
    PROVE  TextInv'
<1>1. CASE UNCHANGED <<rows, score>>
  BY <1>1 DEF TextInv, ScoreMatchesCompared, Fresh, SameCompared, RatingCurrent, Live
<1>2. CASE Ingested(F, at)
  <2>1. ASSUME NEW s \in Starts, Live(s), s \notin Overlapped(F, at), s \notin ChangedBy(F, at)
        PROVE  /\ rows'[s] # None /\ rows'[s].id = rows[s].id
               /\ SameCompared(rows'[s].text, rows[s].text)
    <3>1. CASE s \in DOMAIN F
      <4>1. ~Changed(rows[s].text, Stored(F, s, at).text)
        BY <2>1, <3>1 DEF ChangedBy
      <4> QED
        BY <1>2, <2>1, <3>1, <4>1, RowAfter, StoredFacts DEF Base, Ingested
    <3>2. CASE s \notin DOMAIN F
      BY <1>2, <2>1, <3>2, RowAfter DEF Base, Live, SameCompared
    <3> QED
      BY <3>1, <3>2
  <2>2. ScoreMatchesCompared'
    <3> SUFFICES ASSUME NEW s \in Starts, score'[s] # None, ~score'[s].stale
                 PROVE  rows'[s] # None /\ SameCompared(score'[s].basis.text, rows'[s].text)
      BY DEF ScoreMatchesCompared, Fresh, Live, SameCompared
    <3>1. /\ score[s] # None /\ ~score[s].stale /\ score'[s] = score[s]
          /\ s \notin Overlapped(F, at) /\ s \notin ChangedBy(F, at)
      BY <1>2, ScoreAfter DEF Base
    <3>2. Live(s) /\ SameCompared(score[s].basis.text, rows[s].text)
      BY <3>1 DEF TextInv, ScoreMatchesCompared, Fresh, SameCompared
    <3> QED
      BY <2>1, <3>1, <3>2 DEF SameCompared
  <2>3. RatingCurrent'
    <3> SUFFICES ASSUME NEW s \in Starts, rating[s] # None
                 PROVE  /\ rows'[s] # None /\ rating[s].id = rows'[s].id
                        /\ SameCompared(rating[s].basis.text, rows'[s].text)
      BY DEF RatingCurrent, Live
    <3>1. s \notin Overlapped(F, at) /\ s \notin ChangedBy(F, at)
      BY IngestCases
    <3>2. /\ Live(s) /\ rating[s].id = rows[s].id
          /\ SameCompared(rating[s].basis.text, rows[s].text)
      BY DEF TextInv, RatingCurrent
    <3> QED
      BY <2>1, <3>1, <3>2 DEF SameCompared
  <2> QED
    BY <2>2, <2>3 DEF TextInv
<1> QED
  BY <1>1, <1>2, IngestCases

LEMMA CleanupKeepsText ==
    ASSUME ~MidRating, Base, TextInv, CleanupEpg
    PROVE  TextInv'
<1>1. PICK gone \in SUBSET Present :
         /\ \A s \in gone : rating[s] = None
         /\ Delete(gone) \/ (gone = {} /\ UNCHANGED <<rows, score>>)
         /\ UNCHANGED rating
  BY CleanupParts
<1>2. \A s \in Starts :
        /\ s \in gone => score'[s] = None
        /\ s \notin gone => rows'[s] = rows[s] /\ score'[s] = score[s]
  BY <1>1 DEF Delete
<1> QED
  BY <1>1, <1>2 DEF TextInv, ScoreMatchesCompared, Fresh, SameCompared, RatingCurrent, Live

LEMMA RatingKeepsText ==
    ASSUME Base, TextInv, NEW s \in Starts, RatingBegins(s) \/ RatingEnds(s)
    PROVE  TextInv'
<1>1. UNCHANGED rows /\ rating \in [Starts -> Rating \cup {None}]
      /\ score \in [Starts -> Score \cup {None}]
  BY DEF RatingBegins, RatingEnds, Base, TypeOK
<1>2. CASE RatingBegins(s)
  <2>1. /\ Live(s) /\ score' = score
        /\ rating' = [rating EXCEPT ![s] = [id |-> rows[s].id, basis |-> Prompt(s)]]
    BY <1>2 DEF RatingBegins
  <2>2. ScoreMatchesCompared'
    BY <1>1, <2>1 DEF TextInv, ScoreMatchesCompared, Fresh, Live
  <2>3. \A r \in Starts : rating'[r] = IF r = s THEN [id |-> rows[s].id, basis |-> Prompt(s)]
                                       ELSE rating[r]
    BY <1>1, <2>1
  <2>4. SameCompared(Prompt(s).text, rows[s].text)
    BY DEF Prompt, SameCompared
  <2>5. RatingCurrent'
    BY <1>1, <2>1, <2>3, <2>4 DEF TextInv, RatingCurrent, Live, SameCompared
  <2> QED
    BY <2>2, <2>5 DEF TextInv
<1>3. CASE RatingEnds(s)
  <2>1. rating' = [rating EXCEPT ![s] = None] /\ rating[s] # None
    BY <1>3 DEF RatingEnds
  <2>2. RatingCurrent'
    BY <1>1, <2>1 DEF TextInv, RatingCurrent, Live
  <2>3. /\ Live(s) /\ rating[s].id = rows[s].id
        /\ SameCompared(rating[s].basis.text, rows[s].text)
    BY <2>1 DEF TextInv, RatingCurrent
  <2>4. CASE UNCHANGED score
    BY <1>1, <2>2, <2>4 DEF TextInv, ScoreMatchesCompared, Fresh, SameCompared, Live
  <2>5. ASSUME NEW t \in Present, rows[t].id = rating[s].id,
               score' = [score EXCEPT ![t] = [basis |-> rating[s].basis, stale |-> FALSE]]
        PROVE  ScoreMatchesCompared'
    <3>1. t = s
      BY <2>3, <2>5 DEF Base, Unique, Present
    <3> QED
      BY <1>1, <2>3, <2>5, <3>1 DEF TextInv, ScoreMatchesCompared, Fresh, SameCompared, Live
  <2> QED
    BY <1>3, <2>2, <2>4, <2>5 DEF RatingEnds, TextInv
<1> QED
  BY <1>2, <1>3

\* A score that is not stale was computed with the title, genre and short
\* description the row has now, whatever fetches, deletions and scoring jobs come
\* in between, if no fetch changes what is just being scored (epg.py:21-23,
\* 91-100).
THEOREM ScoresAreOfTheRow == ~MidRating => (Spec => []ScoreMatchesCompared)
<1> SUFFICES ASSUME ~MidRating PROVE Spec => []ScoreMatchesCompared
  OBVIOUS
<1>1. Init => TextInv
  BY DEF Init, TextInv, ScoreMatchesCompared, Fresh, SameCompared, RatingCurrent
<1>2. Base /\ TextInv /\ [Next]_vars => TextInv'
  <2> SUFFICES ASSUME Base, TextInv, [Next]_vars PROVE TextInv'
    OBVIOUS
  <2>1. CASE UNCHANGED <<rows, score, rating>>
    BY <2>1 DEF TextInv, ScoreMatchesCompared, Fresh, SameCompared, RatingCurrent, Live
  <2>2. CASE \E F \in Answers : RefreshService(F) \/ NowNextEnds(F)
    BY <2>1, <2>2, FetchSteps, IngestKeepsText
  <2>3. CASE \E t \in Time : LinkSession(t)
    BY <2>1, <2>3 DEF LinkSession
  <2>4. CASE \E s \in Starts : DeleteSessions(s) \/ ToggleLike(s)
    BY <2>1, <2>4 DEF DeleteSessions, ToggleLike
  <2>5. CASE NowNextBegins \/ Tick \/ UNCHANGED vars
    BY <2>1, <2>5 DEF NowNextBegins, Tick, vars
  <2> QED
    BY <2>2, <2>3, <2>4, <2>5, CleanupKeepsText, RatingKeepsText DEF Next
<1>3. TextInv => ScoreMatchesCompared
  BY DEF TextInv
<1> QED
  BY <1>1, <1>2, <1>3, BaseHolds, PTL DEF Spec

=============================================================================
