---------------------------- MODULE ScoringProofs ----------------------------
(***************************************************************************)
(* Proofs about the scoring jobs (Scoring): types, that likes survive all  *)
(* that happens during calls of the language model, and that fresh scores  *)
(* are of the preferences a user has stated now.                           *)
(*                                                                         *)
(* Every step of a job is reduced to what it does to a single row          *)
(* (RowStep) and to the job itself (JobAfter); the invariants need no more.*)
(***************************************************************************)
EXTENDS Scoring, TLAPS, FiniteSetTheorems, WellFoundedInduction

Rows == [Events -> Row \cup {None}]
Scores == [Users -> Rows]

\* A call is made for a user, and if the job is one of a user, for that user.
OwnJob(j, c) ==
    /\ c.phase = "llm" => c.user \in Users
    /\ j.kind \in UserKinds =>
          /\ \A p \in c.passes : p.user = j.user
          /\ c.phase = "llm" => c.user = j.user

Own == \A j \in JobIds : OwnJob(j, job[j])

Typed == TypeOK /\ Own

-----------------------------------------------------------------------------
(* Rows, batches and passes.                                               *)

LEMMA Numbers ==
    /\ Users \subseteq Nat /\ Events \subseteq Nat
    /\ MaxUser \in Nat /\ MaxPrefs \in Nat /\ BatchSize \in Nat \ {0} /\ MaxRestarts \in Nat
    /\ 0 \in 0..MaxPrefs
BY IdsAssumption, BoundsAssumption

LEMMA RowTypes ==
    /\ None \notin Row /\ None \notin Users
    /\ RuleRow \in Row /\ RuleRow.source = "rule" /\ ~RuleRow.stale
    /\ \A s \in {"like", "dislike"} :
          ExplicitRow(s) \in Row /\ ExplicitRow(s).source \in Explicit /\ ~ExplicitRow(s).stale
    /\ ExplicitRow("like").source # ExplicitRow("dislike").source
    /\ \A r \in Row : /\ [r EXCEPT !.stale = TRUE] \in Row
                      /\ [r EXCEPT !.stale = TRUE].stale
                      /\ [r EXCEPT !.stale = TRUE].source = r.source
BY NoneAssumption, Numbers DEF Row, RuleRow, ExplicitRow, Explicit, Rerated

LEMMA MarkStaleFacts ==
    ASSUME NEW f \in Rows
    PROVE  /\ MarkStale(f) \in Rows
           /\ \A e \in Events :
                IF f[e] # None /\ f[e].source \in Rerated
                THEN MarkStale(f)[e] = [f[e] EXCEPT !.stale = TRUE]
                ELSE MarkStale(f)[e] = f[e]
<1>1. \A e \in Events : f[e] \in Row \cup {None}
  BY DEF Rows
<1> QED
  BY <1>1, RowTypes DEF MarkStale, Rows

LEMMA UpsertFacts ==
    ASSUME NEW f \in Rows, NEW b \in 0..MaxPrefs, NEW S \in SUBSET Events,
           NEW source \in [S -> Rerated]
    PROVE  /\ Upsert(f, b, S, source) \in Rows
           /\ \A e \in Events \ S : Upsert(f, b, S, source)[e] = f[e]
           /\ \A e \in S :
                /\ Upsert(f, b, S, source)[e] \in Row
                /\ Upsert(f, b, S, source)[e].source = source[e]
                /\ source[e] = "llm" => Upsert(f, b, S, source)[e].basis = b
<1>1. ASSUME NEW e \in S
      PROVE  [source |-> source[e], stale |-> FALSE,
              basis |-> IF source[e] = "llm" THEN b ELSE 0] \in Row
  BY Numbers DEF Row
<1> QED
  BY <1>1 DEF Upsert, Rows

LEMMA IdleFacts == Idle \in Job /\ Idle.phase = "idle" /\ Idle.passes = {}
BY Numbers DEF Idle, Job

LEMMA CreatedFacts ==
    ASSUME NEW ps \in SUBSET Pass
    PROVE  Created(ps) \in Job /\ Created(ps).phase = "created" /\ Created(ps).passes = ps
<1> HIDE DEF Idle
<1> QED
  BY IdleFacts DEF Created, Job

LEMMA ForEachFacts ==
    ASSUME NEW us \in SUBSET Users, NEW ids \in SUBSET Events
    PROVE  /\ ForEach(us, ids) \subseteq Pass
           /\ \A p \in ForEach(us, ids) : p.user \in us
BY Numbers DEF ForEach, Pass

\* A batch takes something from whatever is left.
LEMMA BatchNotEmpty ==
    ASSUME NEW S \in SUBSET Events, S # {}
    PROVE  FirstBatch(S) # {}
<1>1. S \subseteq Nat
  BY Numbers
<1>2. PICK x \in S : \A y \in S : <<y, x>> \notin OpToRel(<, Nat)
  BY <1>1, NatLessThanWellFounded, WFMin
<1>3. {d \in S : d < x} = {}
  BY <1>1, <1>2 DEF OpToRel
<1>4. Cardinality({d \in S : d < x}) = 0
  BY <1>3, FS_EmptySet
<1>5. 0 < BatchSize
  BY Numbers
<1> QED
  BY <1>4, <1>5 DEF FirstBatch

LEMMA BootstrapFacts == TypeOK => BootstrapPasses \subseteq Pass
<1> SUFFICES ASSUME TypeOK PROVE BootstrapPasses \subseteq Pass
  OBVIOUS
<1> DEFINE todo(u) == Pending(score[u], {e \in Events : Future(e)})
<1>1. ASSUME NEW u \in Users, NEW e \in Events
      PROVE  BatchNo(todo(u), e) * (MaxUser + 1) + u \in Nat
  <2>1. todo(u) \subseteq Events
    BY DEF Pending
  <2> DEFINE before == {d \in todo(u) : d < e}
  <2>2. e \in Nat /\ before \in SUBSET (0..e)
    <3> HIDE DEF todo
    <3>1. e \in Nat /\ \A d \in before : d \in Nat /\ d < e
      BY <2>1, Numbers
    <3> QED
      BY <3>1
  <2>3. IsFiniteSet(0..e)
    BY <2>2, FS_Interval
  <2>4. Cardinality(before) \in Nat
    BY <2>2, <2>3, FS_Subset, FS_CardinalityType
  <2>5. BatchNo(todo(u), e) = Cardinality(before) \div BatchSize
    BY DEF BatchNo
  <2> HIDE DEF before, todo
  <2>6. \A n \in Nat, b \in Nat \ {0} : n \div b \in Nat
    OBVIOUS
  <2>7. BatchNo(todo(u), e) \in Nat
    BY <2>4, <2>5, <2>6, Numbers
  <2>8. \A n, m, k \in Nat : n * (m + 1) + k \in Nat
    OBVIOUS
  <2> QED
    BY <2>7, <2>8, Numbers
<1>2. \A u \in Users : todo(u) \subseteq Events
  BY DEF Pending
<1> HIDE DEF todo
<1>3. ASSUME NEW x \in {y \in Users \X Events : y[2] \in todo(y[1])}
      PROVE  [turn |-> BatchNo(todo(x[1]), x[2]) * (MaxUser + 1) + x[1], user |-> x[1],
              ids |-> {e \in todo(x[1]) : BatchNo(todo(x[1]), e) = BatchNo(todo(x[1]), x[2])}]
             \in Pass
  <2>1. x[1] \in Users /\ x[2] \in Events
    OBVIOUS
  <2>2. {e \in todo(x[1]) : BatchNo(todo(x[1]), e) = BatchNo(todo(x[1]), x[2])} \subseteq Events
    BY <1>2, <2>1
  <2>3. BatchNo(todo(x[1]), x[2]) * (MaxUser + 1) + x[1] \in Nat
    BY <1>1, <2>1
  <2> QED
    BY <2>1, <2>2, <2>3 DEF Pass
<1> QED
  BY <1>3 DEF BootstrapPasses, todo

-----------------------------------------------------------------------------
(* Launch.                                                                 *)

\* What Launch may do to a row of the table it finds.
Prepared(old, new) ==
    \/ new = old
    \/ old = None /\ new = RuleRow
    \/ old # None /\ old.source \in Rerated /\ new = [old EXCEPT !.stale = TRUE]

\* What kind of row a job may replace.
Replaceable(kind, row) ==
    row = None \/ row.stale \/ row.source \in Rerated \/ kind = "window"

LEMMA SelectedIsReplaceable ==
    ASSUME NEW kind \in GlobalKinds \cup UserKinds, NEW p \in Pass, NEW f \in Rows,
           NEW e \in Candidates(kind, p, f)
    PROVE  e \in Events /\ Replaceable(kind, f[e])
<1>1. p.ids \subseteq Events
  BY DEF Pass
<1>2. e \in Selection(kind, p, f)
  BY DEF Candidates
<1>3. CASE kind \in {"worker", "bootstrap", "page"}
  BY <1>1, <1>2, <1>3 DEF Selection, Pending, Replaceable
<1>4. CASE kind \in {"debounced", "daily"}
  BY <1>2, <1>4 DEF Selection, StaleIds, Replaceable
<1>5. CASE kind = "watcher"
  BY <1>2, <1>5 DEF Selection, RuleIds, Replaceable, Rerated
<1>6. CASE kind = "window"
  BY <1>1, <1>2, <1>6 DEF Selection, Replaceable
<1> QED
  BY <1>3, <1>4, <1>5, <1>6 DEF GlobalKinds, UserKinds

LEMMA PreparedKeeps ==
    ASSUME NEW old \in Row \cup {None}, NEW new, Prepared(old, new), NEW kind
    PROVE  /\ new \in Row \cup {None}
           /\ Replaceable(kind, old) => Replaceable(kind, new)
BY RowTypes DEF Prepared, Replaceable, Rerated

LEMMA LaunchFacts ==
    ASSUME TypeOK, NEW j \in JobIds, NEW ps \in SUBSET Pass, NEW sc \in Scores,
           Launch(j, ps, sc)
    PROVE  /\ score' \in Scores
           /\ \A u \in Users, e \in Events : Prepared(sc[u][e], score'[u][e])
           /\ \/ job' = [job EXCEPT ![j] = Idle]
              \/ \E c \in Job, p \in ps :
                    /\ job' = [job EXCEPT ![j] = c]
                    /\ c.phase = "llm" /\ c.user = p.user /\ c.basis = prefs[p.user]
                    /\ c.passes \subseteq ps /\ p \notin c.passes
                    /\ c.sent \cup c.rest \subseteq Candidates(j.kind, p, sc[p.user])
<1> DEFINE now(p) == ForLlm(j.kind, p, sc[p.user])
           ready == {p \in ps : now(p) # {}}
           first == {p \in ready : \A q \in ready : p.turn <= q.turn}
           begun == {p \in ps : \A q \in first : p.turn <= q.turn}
           ruled(u) == UNION {Deferred(j.kind, p, sc[u]) : p \in {q \in begun : q.user = u}}
           marked(u) == IF j.kind = "window" /\ (\E p \in begun : p.user = u)
                        THEN MarkStale(sc[u]) ELSE sc[u]
<1>1. /\ score' = [u \in Users |->
                     [e \in Events |-> IF e \in ruled(u) THEN RuleRow ELSE marked(u)[e]]]
      /\ \/ /\ ready = {}
            /\ job' = [job EXCEPT ![j] = Idle]
         \/ \E p \in first :
              job' = [job EXCEPT ![j] =
                  [phase |-> "llm", passes |-> ps \ begun, user |-> p.user,
                   sent |-> FirstBatch(now(p)),
                   rest |-> now(p) \ FirstBatch(now(p)),
                   basis |-> prefs[p.user]]]
  BY DEF Launch
<1>2. \A u \in Users : sc[u] \in Rows
  BY DEF Scores
<1>3. \A u \in Users : \A e \in ruled(u) : sc[u][e] = None
  BY DEF Deferred
<1>4. ASSUME NEW u \in Users, NEW e \in Events
      PROVE  Prepared(sc[u][e], score'[u][e])
  <2>1. score'[u][e] = IF e \in ruled(u) THEN RuleRow ELSE marked(u)[e]
    BY <1>1
  <2>2. marked(u) \in {sc[u], MarkStale(sc[u])}
    OBVIOUS
  <2> HIDE DEF ruled, marked
  <2> QED
    BY <1>2, <1>3, <2>1, <2>2, MarkStaleFacts DEF Prepared
<1>5. score' \in Scores
  <2>1. \A u \in Users, e \in Events : score'[u][e] \in Row \cup {None}
    BY <1>2, <1>4, PreparedKeeps DEF Rows
  <2> HIDE DEF ruled, marked
  <2> QED
    BY <1>1, <2>1 DEF Scores, Rows
<1>6. ASSUME NEW p \in first
      PROVE  /\ [phase |-> "llm", passes |-> ps \ begun, user |-> p.user,
                 sent |-> FirstBatch(now(p)), rest |-> now(p) \ FirstBatch(now(p)),
                 basis |-> prefs[p.user]] \in Job
             /\ p \in ps /\ p \notin ps \ begun
             /\ now(p) \subseteq Candidates(j.kind, p, sc[p.user])
             /\ FirstBatch(now(p)) \subseteq now(p)
  <2>1. p \in ps /\ p \in begun
    <3>1. p \in ready /\ \A q \in ready : p.turn <= q.turn
      OBVIOUS
    <3> QED
      BY <3>1
  <2>2. p.user \in Users
    BY <2>1 DEF Pass
  <2>3. now(p) \subseteq Candidates(j.kind, p, sc[p.user])
    BY DEF ForLlm
  <2>4. j.kind \in GlobalKinds \cup UserKinds
    BY DEF JobIds
  <2>5. now(p) \subseteq Events /\ FirstBatch(now(p)) \subseteq now(p)
    BY <1>2, <2>1, <2>2, <2>3, <2>4, SelectedIsReplaceable DEF FirstBatch
  <2>6. prefs[p.user] \in 0..MaxPrefs
    BY <2>2 DEF TypeOK
  <2> HIDE DEF now, begun
  <2> QED
    BY <2>1, <2>2, <2>3, <2>5, <2>6 DEF Job
<1>7. ASSUME NEW p \in first,
             job' = [job EXCEPT ![j] =
                       [phase |-> "llm", passes |-> ps \ begun, user |-> p.user,
                        sent |-> FirstBatch(now(p)),
                        rest |-> now(p) \ FirstBatch(now(p)),
                        basis |-> prefs[p.user]]]
      PROVE  \E c \in Job, q \in ps :
                /\ job' = [job EXCEPT ![j] = c]
                /\ c.phase = "llm" /\ c.user = q.user /\ c.basis = prefs[q.user]
                /\ c.passes \subseteq ps /\ q \notin c.passes
                /\ c.sent \cup c.rest \subseteq Candidates(j.kind, q, sc[q.user])
  <2> DEFINE c == [phase |-> "llm", passes |-> ps \ begun, user |-> p.user,
                   sent |-> FirstBatch(now(p)), rest |-> now(p) \ FirstBatch(now(p)),
                   basis |-> prefs[p.user]]
  <2>1. c \in Job /\ p \in ps /\ job' = [job EXCEPT ![j] = c]
    BY <1>6, <1>7
  <2>2. /\ c.phase = "llm" /\ c.user = p.user /\ c.basis = prefs[p.user]
        /\ c.passes = ps \ begun /\ c.sent = FirstBatch(now(p))
        /\ c.rest = now(p) \ FirstBatch(now(p))
    OBVIOUS
  <2> HIDE DEF c
  <2>3. c.passes \subseteq ps /\ p \notin c.passes
        /\ c.sent \cup c.rest \subseteq Candidates(j.kind, p, sc[p.user])
    <3> HIDE DEF now, begun, first
    <3> QED
      BY <1>6, <2>2
  <2> QED
    BY <2>1, <2>2, <2>3
<1> HIDE DEF first
<1> QED
  BY <1>1, <1>4, <1>5, <1>7

-----------------------------------------------------------------------------
(* A step of a job.                                                        *)

\* What a step of job j may do to a row: prepare it for a pass, or write it
\* with the answer to a call about it.
RowStep(j, u, e) ==
    \/ Prepared(score[u][e], score'[u][e])
    \/ /\ job[j].phase = "llm" /\ job'[j] # job[j]
       /\ u = job[j].user /\ e \in job[j].sent
       /\ score'[u][e] \in Row /\ score'[u][e].source \in Rerated
       /\ score'[u][e].source = "llm" =>
             score'[u][e].stale \/ score'[u][e].basis = job[j].basis

\* What job j may wait for after its step: the rest of the same pass, or a new
\* pass with the present preferences.
JobAfter(j) ==
    job'[j].phase = "llm" =>
        \/ /\ job[j].phase = "llm"
           /\ job'[j].user = job[j].user /\ job'[j].basis = job[j].basis
           /\ job'[j].sent \cup job'[j].rest \subseteq job[j].sent \cup job[j].rest
        \/ /\ job'[j].basis = prefs[job'[j].user]
           /\ \A e \in job'[j].sent \cup job'[j].rest :
                 Replaceable(j.kind, score'[job'[j].user][e])

\* The others are left alone.
JobMoves(j) ==
    /\ job' \in [JobIds -> Job]
    /\ \A i \in JobIds \ {j} : job'[i] = job[i]
    /\ OwnJob(j, job'[j])
    /\ JobAfter(j)

StepOf(j) ==
    /\ score' \in Scores
    /\ \A u \in Users, e \in Events : RowStep(j, u, e)
    /\ JobMoves(j)
    /\ UNCHANGED <<ev, windowOpen, like, prefs, missed, restarts>>
    /\ queue' \subseteq queue

LEMMA TypedJob ==
    ASSUME Typed, NEW j \in JobIds
    PROVE  /\ job \in [JobIds -> Job] /\ job[j] \in Job
           /\ job[j].passes \subseteq Pass
           /\ job[j].sent \subseteq Events /\ job[j].rest \subseteq Events
           /\ job[j].basis \in 0..MaxPrefs
           /\ OwnJob(j, job[j])
           /\ score \in Scores
           /\ j.kind \in GlobalKinds \cup UserKinds
           /\ j.kind \in UserKinds => j.user \in Users
BY DEF Typed, TypeOK, Own, Job, Scores, Rows, JobIds, GlobalKinds, UserKinds

LEMMA IdleMoves ==
    ASSUME Typed, NEW j \in JobIds, NEW c \in Job, c.phase # "llm",
           j.kind \in UserKinds => \A p \in c.passes : p.user = j.user,
           job' = [job EXCEPT ![j] = c]
    PROVE  JobMoves(j)
<1>1. job \in [JobIds -> Job]
  BY TypedJob
<1>2. job' \in [JobIds -> Job] /\ job'[j] = c /\ \A i \in JobIds \ {j} : job'[i] = job[i]
  BY <1>1
<1> QED
  BY <1>2 DEF JobMoves, JobAfter, OwnJob

LEMMA LaunchMoves ==
    ASSUME Typed, NEW j \in JobIds, NEW ps \in SUBSET Pass, NEW sc \in Scores,
           j.kind \in UserKinds => \A p \in ps : p.user = j.user,
           Launch(j, ps, sc)
    PROVE  JobMoves(j)
<1>1. CASE job' = [job EXCEPT ![j] = Idle]
  BY <1>1, IdleFacts, IdleMoves
<1>2. ASSUME NEW c \in Job, NEW p \in ps,
             job' = [job EXCEPT ![j] = c],
             c.phase = "llm", c.user = p.user, c.basis = prefs[p.user],
             c.passes \subseteq ps,
             c.sent \cup c.rest \subseteq Candidates(j.kind, p, sc[p.user])
      PROVE  JobMoves(j)
  <2>1. job' \in [JobIds -> Job] /\ job'[j] = c /\ \A i \in JobIds \ {j} : job'[i] = job[i]
    BY <1>2, TypedJob
  <2>2. p.user \in Users /\ j.kind \in GlobalKinds \cup UserKinds
    BY TypedJob DEF Pass
  <2>3. OwnJob(j, c)
    BY <1>2, <2>2 DEF OwnJob
  <2>4. ASSUME NEW e \in c.sent \cup c.rest
        PROVE  Replaceable(j.kind, score'[p.user][e])
    <3>1. e \in Candidates(j.kind, p, sc[p.user]) /\ sc[p.user] \in Rows
      BY <1>2, <2>2, <2>4 DEF Scores
    <3>2. e \in Events /\ Replaceable(j.kind, sc[p.user][e])
      BY <2>2, <3>1, SelectedIsReplaceable
    <3>3. sc[p.user][e] \in Row \cup {None} /\ Prepared(sc[p.user][e], score'[p.user][e])
      BY <2>2, <3>1, <3>2, LaunchFacts DEF Rows, Typed
    <3> QED
      BY <3>2, <3>3, PreparedKeeps
  <2> QED
    BY <1>2, <2>1, <2>3, <2>4 DEF JobMoves, JobAfter
<1>3. \/ job' = [job EXCEPT ![j] = Idle]
      \/ \E c \in Job, p \in ps :
            /\ job' = [job EXCEPT ![j] = c]
            /\ c.phase = "llm" /\ c.user = p.user /\ c.basis = prefs[p.user]
            /\ c.passes \subseteq ps
            /\ c.sent \cup c.rest \subseteq Candidates(j.kind, p, sc[p.user])
  BY LaunchFacts DEF Typed
<1> QED
  BY <1>1, <1>2, <1>3

\* A pass begins or ends without a call before it.
LEMMA LaunchStep ==
    ASSUME Typed, NEW j \in JobIds, NEW ps \in SUBSET Pass,
           j.kind \in UserKinds => \A p \in ps : p.user = j.user,
           Launch(j, ps, score),
           UNCHANGED <<ev, windowOpen, like, prefs, missed, restarts>>, queue' \subseteq queue
    PROVE  StepOf(j)
<1>1. score \in Scores
  BY TypedJob
<1>2. score' \in Scores /\ \A u \in Users, e \in Events : Prepared(score[u][e], score'[u][e])
  BY <1>1, LaunchFacts DEF Typed
<1> QED
  BY <1>1, <1>2, LaunchMoves DEF StepOf, RowStep

\* Nothing but the job changes.
LEMMA WaitStep ==
    ASSUME Typed, NEW j \in JobIds, NEW c \in Job, c.phase # "llm",
           j.kind \in UserKinds => \A p \in c.passes : p.user = j.user,
           job' = [job EXCEPT ![j] = c],
           UNCHANGED <<ev, windowOpen, score, like, prefs, missed, restarts>>, queue' \subseteq queue
    PROVE  StepOf(j)
<1>1. score' \in Scores /\ \A u \in Users, e \in Events : RowStep(j, u, e)
  BY TypedJob DEF RowStep, Prepared
<1> QED
  BY <1>1, IdleMoves DEF StepOf

LEMMA AnswerStep ==
    ASSUME Typed, NEW j \in JobIds, NEW source \in [job[j].sent -> Rerated], Answer(j, source)
    PROVE  StepOf(j)
<1> DEFINE c == job[j]
           w == [score EXCEPT ![c.user] = Upsert(@, c.basis, c.sent, source)]
<1>1. /\ c.phase = "llm" /\ c.user \in Users /\ c \in Job /\ score \in Scores
      /\ c.sent \subseteq Events /\ c.rest \subseteq Events /\ c.basis \in 0..MaxPrefs
      /\ score[c.user] \in Rows /\ job \in [JobIds -> Job] /\ c.passes \subseteq Pass
  BY TypedJob DEF Answer, OwnJob, Scores
<1>2. UNCHANGED <<ev, windowOpen, like, prefs, missed, queue, restarts>>
  BY DEF Answer
<1>3. /\ w \in Scores
      /\ \A u \in Users, e \in Events :
            ~(u = c.user /\ e \in c.sent) => w[u][e] = score[u][e]
      /\ \A e \in c.sent : /\ w[c.user][e] \in Row /\ w[c.user][e].source \in Rerated
                           /\ w[c.user][e].source = "llm" => w[c.user][e].basis = c.basis
  <2> DEFINE up == Upsert(score[c.user], c.basis, c.sent, source)
  <2>1. /\ up \in Rows
        /\ \A e \in Events \ c.sent : up[e] = score[c.user][e]
        /\ \A e \in c.sent : /\ up[e] \in Row /\ up[e].source = source[e]
                             /\ source[e] = "llm" => up[e].basis = c.basis
    <3>1. source \in [c.sent -> Rerated] /\ c.sent \in SUBSET Events
      BY <1>1
    <3> HIDE DEF c
    <3>2. ASSUME NEW f \in Rows, NEW b \in 0..MaxPrefs
          PROVE  /\ Upsert(f, b, c.sent, source) \in Rows
                 /\ \A e \in Events \ c.sent : Upsert(f, b, c.sent, source)[e] = f[e]
                 /\ \A e \in c.sent :
                      /\ Upsert(f, b, c.sent, source)[e] \in Row
                      /\ Upsert(f, b, c.sent, source)[e].source = source[e]
                      /\ source[e] = "llm" => Upsert(f, b, c.sent, source)[e].basis = b
      BY <3>1, UpsertFacts
    <3> QED
      BY <1>1, <3>2
  <2>2. w = [score EXCEPT ![c.user] = up]
    OBVIOUS
  <2> HIDE DEF up, w
  <2>3. w \in Scores /\ w[c.user] = up /\ \A u \in Users \ {c.user} : w[u] = score[u]
    BY <1>1, <2>1, <2>2 DEF Scores
  <2> QED
    BY <2>1, <2>3
<1> HIDE DEF w
<1>4. ASSUME NEW sc, sc \in {score, w}, NEW u \in Users, NEW e \in Events,
             Prepared(w[u][e], score'[u][e]), job'[j] # job[j]
      PROVE  RowStep(j, u, e)
  <2>1. CASE u = c.user /\ e \in c.sent
    <3>1. w[u][e] \in Row /\ w[u][e] # None
      BY <1>3, <2>1, RowTypes
    <3>2. score'[u][e] \in Row
      BY <1>4, <3>1, RowTypes DEF Prepared
    <3>3. score'[u][e] = w[u][e] \/ score'[u][e] = [w[u][e] EXCEPT !.stale = TRUE]
      BY <1>4, <3>1 DEF Prepared
    <3>4. score'[u][e].source \in Rerated
      BY <1>3, <2>1, <3>1, <3>3, RowTypes
    <3>5. score'[u][e].source = "llm" => score'[u][e].stale \/ score'[u][e].basis = c.basis
      BY <1>3, <2>1, <3>1, <3>3, RowTypes
    <3> QED
      BY <1>1, <1>4, <2>1, <3>2, <3>4, <3>5 DEF RowStep
  <2>2. CASE ~(u = c.user /\ e \in c.sent)
    BY <1>3, <1>4, <2>2 DEF RowStep
  <2> QED
    BY <2>1, <2>2
<1>5. CASE job' = [job EXCEPT ![j] = Idle] /\ UNCHANGED score
  BY <1>2, <1>5, WaitStep, IdleFacts
<1>6. CASE /\ c.rest # {} /\ score' = w
           /\ job' = [job EXCEPT ![j] =
                 IF \A e \in FirstBatch(c.rest) : Present(e)
                 THEN [c EXCEPT !.sent = FirstBatch(c.rest),
                                !.rest = @ \ FirstBatch(@)]
                 ELSE Idle]
  <2> DEFINE n == [c EXCEPT !.sent = FirstBatch(c.rest), !.rest = @ \ FirstBatch(@)]
  <2>1. FirstBatch(c.rest) # {} /\ FirstBatch(c.rest) \subseteq c.rest
    BY <1>1, <1>6, BatchNotEmpty DEF FirstBatch
  <2>2. /\ n \in Job /\ n.sent = FirstBatch(c.rest) /\ n.rest = c.rest \ FirstBatch(c.rest)
        /\ n.phase = "llm" /\ n.user = c.user /\ n.basis = c.basis /\ n.passes = c.passes
    BY <1>1, <2>1 DEF Job
  <2> HIDE DEF n
  <2>3. n # c /\ Idle # c
    BY <1>1, <2>1, <2>2, IdleFacts
  <2>4. job'[j] = n \/ job'[j] = Idle
    BY <1>1, <1>6 DEF n
  <2>5. \A u \in Users, e \in Events : RowStep(j, u, e)
    BY <1>4, <1>6, <2>3, <2>4 DEF Prepared
  <2>6. JobMoves(j)
    <3>1. CASE job' = [job EXCEPT ![j] = Idle]
      BY <3>1, IdleMoves, IdleFacts
    <3>2. CASE job' = [job EXCEPT ![j] = n]
      <4>1. job' \in [JobIds -> Job] /\ job'[j] = n /\ \A i \in JobIds \ {j} : job'[i] = job[i]
        BY <1>1, <2>2, <3>2
      <4>2. OwnJob(j, n)
        BY <1>1, <2>2, TypedJob DEF OwnJob
      <4>3. JobAfter(j)
        BY <1>1, <2>1, <2>2, <4>1 DEF JobAfter
      <4> QED
        BY <4>1, <4>2, <4>3 DEF JobMoves
    <3> QED
      BY <1>6, <3>1, <3>2 DEF n
  <2> QED
    BY <1>2, <1>3, <1>6, <2>5, <2>6 DEF StepOf
<1>7. CASE Launch(j, c.passes, w)
  <2>1. j.kind \in UserKinds => \A p \in c.passes : p.user = j.user
    BY TypedJob DEF OwnJob
  <2>2. /\ score' \in Scores
        /\ \A u \in Users, e \in Events : Prepared(w[u][e], score'[u][e])
        /\ \/ job' = [job EXCEPT ![j] = Idle]
           \/ \E d \in Job, p \in c.passes :
                job' = [job EXCEPT ![j] = d] /\ p \notin d.passes
    BY <1>1, <1>3, <1>7, LaunchFacts DEF Typed
  <2>3. job'[j] # job[j]
    BY <1>1, <2>2, IdleFacts
  <2>4. \A u \in Users, e \in Events : RowStep(j, u, e)
    BY <1>4, <2>2, <2>3
  <2>5. JobMoves(j)
    BY <1>1, <1>3, <1>7, <2>1, LaunchMoves
  <2> QED
    BY <1>2, <2>2, <2>4, <2>5 DEF StepOf
<1>8. \/ job' = [job EXCEPT ![j] = Idle] /\ UNCHANGED score
      \/ /\ c.rest # {} /\ score' = w
         /\ job' = [job EXCEPT ![j] =
               IF \A e \in FirstBatch(c.rest) : Present(e)
               THEN [c EXCEPT !.sent = FirstBatch(c.rest),
                              !.rest = @ \ FirstBatch(@)]
               ELSE Idle]
      \/ Launch(j, c.passes, w)
  BY DEF Answer, w
<1> QED
  BY <1>5, <1>6, <1>7, <1>8

LEMMA JobStepFacts ==
    ASSUME Typed, NEW j \in JobIds, JobStep(j)
    PROVE  StepOf(j)
<1> USE TypedJob
<1>1. CASE WorkerTakes(j)
  <2>1. Launch(j, ForEach(Users, Merged), score) /\ j.kind = "worker" /\ queue \subseteq Events
    BY <1>1 DEF WorkerTakes, Typed, TypeOK
  <2>2. ForEach(Users, Merged) \subseteq Pass
    BY <2>1, ForEachFacts DEF Merged
  <2>3. j.kind \notin UserKinds
    BY <2>1 DEF UserKinds
  <2> QED
    BY <1>1, <2>1, <2>2, <2>3, LaunchStep DEF WorkerTakes
<1>2. CASE DailyStarts(j)
  <2>1. ForEach(Users, {}) \subseteq Pass
    BY ForEachFacts
  <2>2. j.kind \notin UserKinds
    BY <1>2 DEF DailyStarts, UserKinds
  <2> QED
    BY <1>2, <2>1, <2>2, LaunchStep DEF DailyStarts
<1>3. CASE WatcherProbes(j)
  <2> DEFINE n == [Idle EXCEPT !.phase = "probe", !.passes = ForEach(RuleUsers, {})]
  <2>1. ForEach(RuleUsers, {}) \subseteq Pass
    BY ForEachFacts DEF RuleUsers
  <2>2. n \in Job /\ n.phase = "probe"
    <3> HIDE DEF Idle
    <3> QED
      BY <2>1, IdleFacts DEF Job
  <2>3. j.kind \notin UserKinds
    BY <1>3 DEF WatcherProbes, UserKinds
  <2>4. job' = [job EXCEPT ![j] = n] /\ UNCHANGED <<ev, windowOpen, score, like, prefs, missed, queue, restarts>>
    BY <1>3 DEF WatcherProbes
  <2> HIDE DEF n
  <2> QED
    BY <2>2, <2>3, <2>4, WaitStep
<1>4. CASE ProbeAnswered(j)
  BY <1>4, LaunchStep DEF ProbeAnswered, OwnJob
<1>5. CASE ProbeFails(j)
  BY <1>5, WaitStep, IdleFacts DEF ProbeFails
<1>6. ASSUME NEW us \in SUBSET Users, NEW reach \in SUBSET Events, WindowRequested(j, us, reach)
      PROVE  StepOf(j)
  <2>1. ForEach(us, reach) \subseteq Pass
    BY ForEachFacts
  <2>2. Created(ForEach(us, reach)) \in Job /\ Created(ForEach(us, reach)).phase = "created"
    BY <2>1, CreatedFacts
  <2>3. j.kind \notin UserKinds
    BY <1>6 DEF WindowRequested, UserKinds
  <2> QED
    BY <1>6, <2>2, <2>3, WaitStep DEF WindowRequested
<1>7. ASSUME NEW page \in SUBSET Events, PageVisited(j, page)
      PROVE  StepOf(j)
  <2> DEFINE unscored == {e \in page \cap Visible[j.user] :
                            Future(e) /\ score[j.user][e] = None}
  <2>1. /\ j.kind = "page" /\ job' = [job EXCEPT ![j] = Created(ForEach({j.user}, unscored))]
        /\ UNCHANGED <<ev, windowOpen, score, like, prefs, missed, queue, restarts>>
    BY <1>7 DEF PageVisited
  <2>2. j.user \in Users /\ unscored \subseteq Events
    BY <2>1 DEF UserKinds
  <2> HIDE DEF unscored
  <2>3. /\ ForEach({j.user}, unscored) \subseteq Pass
        /\ \A p \in ForEach({j.user}, unscored) : p.user = j.user
    BY <2>2, ForEachFacts
  <2>4. /\ Created(ForEach({j.user}, unscored)) \in Job
        /\ Created(ForEach({j.user}, unscored)).phase = "created"
        /\ Created(ForEach({j.user}, unscored)).passes = ForEach({j.user}, unscored)
    BY <2>3, CreatedFacts
  <2> QED
    BY <2>1, <2>3, <2>4, WaitStep
<1>8. CASE Runs(j)
  <2>1. CASE j.kind = "bootstrap"
    <3>1. BootstrapPasses \subseteq Pass /\ j.kind \notin UserKinds
      BY <2>1, BootstrapFacts DEF Typed, UserKinds
    <3> QED
      BY <1>8, <2>1, <3>1, LaunchStep DEF Runs
  <2>2. CASE j.kind # "bootstrap"
    BY <1>8, <2>2, LaunchStep DEF Runs, OwnJob
  <2> QED
    BY <2>1, <2>2
<1>9. CASE LlmAnswers(j)
  <2>1. AllLlm(j) \in [job[j].sent -> Rerated]
    BY DEF AllLlm, Rerated
  <2> QED
    BY <1>9, <2>1, AnswerStep DEF LlmAnswers
<1>10. CASE FallsBack(j)
  BY <1>10, AnswerStep DEF FallsBack
<1> QED
  BY <1>1, <1>2, <1>3, <1>4, <1>5, <1>6, <1>7, <1>8, <1>9, <1>10 DEF JobStep

-----------------------------------------------------------------------------
(* Types.                                                                  *)

\* The steps that leave the jobs alone.
Bystander ==
    \/ \E u \in Users, e \in Events, s \in {"like", "dislike"} :
          Toggle(u, e, s) \/ HalfToggle(u, e, s)
    \/ \E u \in Users, e \in Events : DeleteLike(u, e)
    \/ \E e \in Events : NewEvent(e)
    \/ \E e \in Events, changed \in BOOLEAN : EventFetchedAgain(e, changed)
    \/ \E e \in Events : EventDeleted(e)
    \/ \E e \in Events : TimePasses(e)
    \/ WindowFlips
    \/ UNCHANGED vars

LEMMA NextCases ==
    [Next]_vars => \/ \E j \in JobIds : JobStep(j)
                   \/ \E u \in Users : ChangePreferences(u) \/ HalfPreferences(u)
                   \/ \E us \in SUBSET Users : AssignSession(us)
                   \/ Restart
                   \/ Bystander
BY DEF Next, Surroundings, Bystander

\* All that tells these apart is the profile.
OnlyProfile == UNCHANGED <<ev, windowOpen, score, like, queue, job, restarts>>

LEMMA NextKinds ==
    [Next]_vars => \/ \E j \in JobIds : JobStep(j)
                   \/ \E us \in SUBSET Users : Invalidate(us)
                   \/ OnlyProfile
                   \/ Restart
                   \/ Bystander
<1>1. \A u \in Users : {u} \in SUBSET Users
  OBVIOUS
<1> QED
  BY <1>1, NextCases DEF ChangePreferences, HalfPreferences, AssignSession, OnlyProfile

LEMMA BystanderSparesJobs == Bystander => UNCHANGED <<job, prefs, missed, restarts>>
BY DEF Bystander, Toggle, HalfToggle, LikeToggled, DeleteLike, NewEvent, EventFetchedAgain,
       EventDeleted, TimePasses, WindowFlips, vars

LEMMA BystanderTyped ==
    ASSUME Typed, Bystander
    PROVE  Typed'
<1>1. TypeOK /\ score \in Scores
  BY TypedJob DEF Typed, TypeOK, Scores, Rows
<1>2. \A u \in Users : score[u] \in Rows
  BY <1>1 DEF Scores
<1>3. score' \in Scores /\ like' \in [Users -> [Events -> {"like", "dislike", None}]]
  <2>1. ASSUME NEW u \in Users, NEW e \in Events, NEW s \in {"like", "dislike"},
               Toggle(u, e, s) \/ HalfToggle(u, e, s)
        PROVE  score' \in Scores /\ like' \in [Users -> [Events -> {"like", "dislike", None}]]
    <3>1. like' \in [Users -> [Events -> {"like", "dislike", None}]]
      <4>1. like' = [like EXCEPT ![u][e] = IF @ = s THEN None ELSE s]
        BY <2>1 DEF Toggle, HalfToggle, LikeToggled
      <4> QED
        BY <1>1, <4>1 DEF TypeOK
    <3>2. ExplicitRow(s) \in Row
      BY RowTypes
    <3>3. score' \in Scores
      BY <1>1, <2>1, <3>2
         DEF Toggle, HalfToggle, SetExplicit, ClearExplicit, Scores, Rows
    <3> QED
      BY <3>1, <3>3
  <2>2. ASSUME NEW u \in Users, NEW e \in Events, DeleteLike(u, e)
        PROVE  score' \in Scores /\ like' \in [Users -> [Events -> {"like", "dislike", None}]]
    BY <1>1, <2>2 DEF DeleteLike, TypeOK
  <2>3. ASSUME NEW e \in Events, NEW changed \in BOOLEAN, EventFetchedAgain(e, changed)
        PROVE  score' \in Scores /\ like' = like
    <3>1. ASSUME NEW u \in Users
          PROVE  [score[u] EXCEPT ![e] = IF @ = None THEN None ELSE [@ EXCEPT !.stale = TRUE]]
                 \in Rows
      <4>1. (IF score[u][e] = None THEN None ELSE [score[u][e] EXCEPT !.stale = TRUE])
              \in Row \cup {None}
        BY <1>2, RowTypes DEF Rows
      <4> QED
        BY <1>2, <4>1 DEF Rows
    <3> QED
      BY <1>1, <2>3, <3>1 DEF EventFetchedAgain, Scores
  <2>4. ASSUME NEW e \in Events, EventDeleted(e)
        PROVE  score' \in Scores /\ like' = like
    BY <1>2, <2>4 DEF EventDeleted, Scores, Rows
  <2>5. CASE UNCHANGED <<score, like>>
    BY <1>1, <2>5 DEF TypeOK
  <2>6. ASSUME NEW e \in Events, NewEvent(e) \/ TimePasses(e) PROVE UNCHANGED <<score, like>>
    BY <2>6 DEF NewEvent, TimePasses
  <2>7. WindowFlips \/ UNCHANGED vars => UNCHANGED <<score, like>>
    BY DEF WindowFlips, vars
  <2> QED
    BY <1>1, <2>1, <2>2, <2>3, <2>4, <2>5, <2>6, <2>7 DEF Bystander, TypeOK
<1>4. ev' \in [Events -> {"absent", "later", "soon", "over", "gone"}] /\ windowOpen' \in BOOLEAN
      /\ queue' \in SUBSET Events
  BY <1>1 DEF Bystander, Toggle, HalfToggle, LikeToggled, DeleteLike, NewEvent,
     EventFetchedAgain, EventDeleted, TimePasses, WindowFlips, vars, TypeOK
<1> QED
  BY <1>1, <1>3, <1>4, BystanderSparesJobs DEF Typed, TypeOK, Own, Scores, Rows

\* What a mark with its re-rate does to the jobs and the rows of the users us.
LEMMA InvalidateFacts ==
    ASSUME Typed, NEW us \in SUBSET Users, Invalidate(us)
    PROVE  /\ job' \in [JobIds -> Job] /\ \A j \in JobIds : OwnJob(j, job'[j])
           /\ \A j \in JobIds :
                 IF j.kind = "debounced" /\ j.user \in us
                 THEN job'[j].phase = "created" /\ job'[j].passes = ForEach({j.user}, {})
                 ELSE job'[j] = job[j]
           /\ score' \in Scores
           /\ \A u \in Users, e \in Events :
                 score'[u][e] = IF u \in us THEN MarkStale(score[u])[e] ELSE score[u][e]
           /\ UNCHANGED <<ev, windowOpen, like, queue, restarts>>
<1>1. \A u \in us : /\ ForEach({u}, {}) \subseteq Pass /\ \A p \in ForEach({u}, {}) : p.user = u
                    /\ Created(ForEach({u}, {})) \in Job
                    /\ Created(ForEach({u}, {})).phase = "created"
                    /\ Created(ForEach({u}, {})).passes = ForEach({u}, {})
  BY ForEachFacts, CreatedFacts
<1>2. /\ job' = [j \in JobIds |-> job'[j]]
      /\ \A j \in JobIds : job'[j] = IF j.kind = "debounced" /\ j.user \in us
                                     THEN Created(ForEach({j.user}, {})) ELSE job[j]
  BY DEF Invalidate, ScheduleRerate
<1>3. \A j \in JobIds : job[j] \in Job /\ OwnJob(j, job[j])
  BY TypedJob
<1>4. ASSUME NEW j \in JobIds
      PROVE  /\ job'[j] \in Job /\ OwnJob(j, job'[j])
             /\ IF j.kind = "debounced" /\ j.user \in us
                THEN job'[j].phase = "created" /\ job'[j].passes = ForEach({j.user}, {})
                ELSE job'[j] = job[j]
  <2>1. CASE j.kind = "debounced" /\ j.user \in us
    BY <1>1, <1>2, <2>1 DEF OwnJob
  <2>2. CASE ~(j.kind = "debounced" /\ j.user \in us)
    BY <1>2, <1>3, <2>2
  <2> QED
    BY <2>1, <2>2
<1>5. score' \in Scores
  <2>1. \A u \in Users : score[u] \in Rows
    BY DEF Typed, TypeOK, Rows
  <2> QED
    BY <2>1, MarkStaleFacts DEF Invalidate, Scores
<1>6. \A u \in Users, e \in Events :
         score'[u][e] = IF u \in us THEN MarkStale(score[u])[e] ELSE score[u][e]
  BY DEF Invalidate
<1>7. UNCHANGED <<ev, windowOpen, like, queue, restarts>>
  BY DEF Invalidate
<1> QED
  BY <1>2, <1>4, <1>5, <1>6, <1>7

\* Rows it marks stale are LLM or rule rows, and after it none of them is fresh.
LEMMA InvalidateRows ==
    ASSUME Typed, NEW us \in SUBSET Users, Invalidate(us), NEW u \in Users, NEW e \in Events
    PROVE  /\ \/ score'[u][e] = score[u][e]
              \/ /\ score[u][e] # None /\ score[u][e].source \in Rerated
                 /\ score'[u][e] = [score[u][e] EXCEPT !.stale = TRUE]
           /\ u \in us => ~FreshLlm(u, e)'
<1>1. score[u] \in Rows /\ score[u][e] \in Row \cup {None}
  BY DEF Typed, TypeOK, Rows
<1>2. score'[u][e] = IF u \in us THEN MarkStale(score[u])[e] ELSE score[u][e]
  BY InvalidateFacts
<1>3. IF score[u][e] # None /\ score[u][e].source \in Rerated
      THEN MarkStale(score[u])[e] = [score[u][e] EXCEPT !.stale = TRUE]
      ELSE MarkStale(score[u])[e] = score[u][e]
  BY <1>1, MarkStaleFacts
<1>4. "llm" \in Rerated
  BY DEF Rerated
<1> QED
  BY <1>1, <1>2, <1>3, <1>4, RowTypes DEF FreshLlm

LEMMA PreferencesTyped ==
    ASSUME Typed, NEW u \in Users, NewPreferences(u),
           NEW S \in SUBSET Events, missed' = [missed EXCEPT ![u] = S]
    PROVE  prefs' \in [Users -> 0..MaxPrefs] /\ missed' \in [Users -> SUBSET Events]
BY Numbers DEF NewPreferences, Typed, TypeOK

LEMMA ChangeTyped ==
    ASSUME Typed, NEW u \in Users, ChangePreferences(u) \/ HalfPreferences(u)
    PROVE  Typed'
<1>1. prefs' \in [Users -> 0..MaxPrefs] /\ missed' \in [Users -> SUBSET Events]
  BY PreferencesTyped DEF ChangePreferences, HalfPreferences
<1>2. CASE ChangePreferences(u)
  BY <1>1, <1>2, InvalidateFacts DEF ChangePreferences, Typed, TypeOK, Own, Scores, Rows
<1>3. CASE HalfPreferences(u)
  BY <1>1, <1>3 DEF HalfPreferences, Typed, TypeOK, Own
<1> QED
  BY <1>2, <1>3

LEMMA AssignTyped ==
    ASSUME Typed, NEW us \in SUBSET Users, AssignSession(us)
    PROVE  Typed'
BY InvalidateFacts DEF AssignSession, Typed, TypeOK, Own, Scores, Rows

LEMMA StartupFacts ==
    /\ AtStartup \in [JobIds -> Job]
    /\ \A j \in JobIds : AtStartup[j].phase # "llm" /\ OwnJob(j, AtStartup[j])
<1>1. /\ Created({}) \in Job /\ Created({}).phase = "created" /\ Created({}).passes = {}
  BY CreatedFacts
<1> QED
  BY <1>1, IdleFacts DEF AtStartup, OwnJob

LEMMA RestartTyped ==
    ASSUME Typed, Restart
    PROVE  Typed'
BY StartupFacts, Numbers DEF Restart, Typed, TypeOK, Own

LEMMA TypedInit == Init => Typed
<1> SUFFICES ASSUME Init PROVE Typed
  OBVIOUS
<1>1. windowOpen \in BOOLEAN
  BY DEF Init
<1>2. job \in [JobIds -> Job] /\ Own
  BY StartupFacts DEF Init, Own
<1>3. /\ score \in [Users -> [Events -> Row \cup {None}]]
      /\ like \in [Users -> [Events -> {"like", "dislike", None}]]
      /\ prefs \in [Users -> 0..MaxPrefs] /\ missed \in [Users -> SUBSET Events]
      /\ restarts \in 0..MaxRestarts
  BY Numbers DEF Init
<1>4. ev \in [Events -> {"absent", "later", "soon", "over", "gone"}] /\ queue \in SUBSET Events
  BY DEF Init
<1> QED
  BY <1>1, <1>2, <1>3, <1>4 DEF Typed, TypeOK

LEMMA TypedNext == Typed /\ [Next]_vars => Typed'
<1>1. ASSUME Typed, NEW j \in JobIds, JobStep(j) PROVE Typed'
  <2>1. StepOf(j)
    BY <1>1, JobStepFacts
  <2>2. \A i \in JobIds : OwnJob(i, job'[i])
    BY <1>1, <2>1 DEF StepOf, JobMoves, Typed, Own
  <2> QED
    BY <1>1, <2>1, <2>2 DEF StepOf, JobMoves, Typed, TypeOK, Own, Scores, Rows
<1> QED
  BY <1>1, NextCases, BystanderTyped, ChangeTyped, AssignTyped, RestartTyped

LEMMA TypedHolds == Spec => []Typed
BY TypedInit, TypedNext, PTL DEF Spec

\* Scores, likes, jobs and all else keep their types, with any kinds of jobs.
THEOREM TypeCorrect == Spec => []TypeOK
BY TypedHolds, PTL DEF Typed

-----------------------------------------------------------------------------
(* Stated preferences.                                                     *)

\* Whatever the LLM is being asked for a user, it is asked with the present
\* preferences, or about events that the last change of them missed.
Reached(j) ==
    job[j].phase = "llm" =>
        \/ job[j].basis = prefs[job[j].user]
        \/ job[j].sent \cup job[j].rest \subseteq missed[job[j].user]

CallsReached == \A j \in JobIds : Reached(j)

Fresh == FreshIsCurrent /\ CallsReached

LEMMA FreshStep ==
    ASSUME Typed, Fresh, NEW j \in JobIds, StepOf(j)
    PROVE  Fresh'
<1>1. prefs' = prefs /\ missed' = missed
  BY DEF StepOf
<1>2. FreshIsCurrent'
  <2> SUFFICES ASSUME NEW u \in Users, NEW e \in Events,
                      score'[u][e] # None, score'[u][e].source = "llm", ~score'[u][e].stale,
                      score'[u][e].basis # prefs[u]
               PROVE  e \in missed[u]
    BY <1>1 DEF FreshIsCurrent, Outdated, FreshLlm
  <2>1. score[u][e] \in Row \cup {None}
    BY DEF Typed, TypeOK
  <2>2. CASE Prepared(score[u][e], score'[u][e])
    <3>1. score'[u][e] = score[u][e]
      BY <2>1, <2>2, RowTypes DEF Prepared
    <3> QED
      BY <3>1 DEF Fresh, FreshIsCurrent, Outdated, FreshLlm
  <2>3. CASE ~Prepared(score[u][e], score'[u][e])
    BY <2>3 DEF StepOf, RowStep, Fresh, CallsReached, Reached
  <2> QED
    BY <2>2, <2>3
<1>3. ASSUME NEW i \in JobIds PROVE Reached(i)'
  <2>1. CASE i = j
    BY <1>1, <2>1 DEF StepOf, JobMoves, JobAfter, Fresh, CallsReached, Reached
  <2>2. CASE i # j
    BY <1>1, <2>2 DEF StepOf, JobMoves, Fresh, CallsReached, Reached
  <2> QED
    BY <2>1, <2>2
<1> QED
  BY <1>2, <1>3 DEF Fresh, CallsReached

LEMMA FreshChange ==
    ASSUME Typed, Fresh, NEW u \in Users, ChangePreferences(u)
    PROVE  Fresh'
<1> DEFINE held == {e \in Events : \E j \in JobIds : j.kind # "debounced" /\ HeldBy(j, u, e)}
<1>1. /\ prefs' = [prefs EXCEPT ![u] = @ + 1] /\ missed' = [missed EXCEPT ![u] = held]
      /\ prefs \in [Users -> 0..MaxPrefs] /\ missed \in [Users -> SUBSET Events]
      /\ Invalidate({u})
  BY DEF ChangePreferences, NewPreferences, Typed, TypeOK
<1>2. missed'[u] = held
  BY <1>1
<1>3. \A v \in Users \ {u} : prefs'[v] = prefs[v] /\ missed'[v] = missed[v]
  BY <1>1
<1>4. ASSUME NEW v \in Users, NEW e \in Events, Outdated(v, e)'
      PROVE  e \in missed'[v]
  <2>1. v # u
    BY <1>1, <1>4, InvalidateRows DEF Outdated
  <2>2. score'[v][e] = score[v][e]
    BY <1>1, <2>1, InvalidateFacts
  <2> QED
    BY <1>3, <1>4, <2>1, <2>2 DEF Fresh, FreshIsCurrent, Outdated, FreshLlm
<1>5. ASSUME NEW j \in JobIds, job'[j].phase = "llm" PROVE Reached(j)'
  <2>1. job'[j] = job[j] /\ ~(j.kind = "debounced" /\ j.user = u)
    <3>1. {u} \in SUBSET Users
      OBVIOUS
    <3>2. IF j.kind = "debounced" /\ j.user \in {u}
          THEN job'[j].phase = "created" /\ job'[j].passes = ForEach({j.user}, {})
          ELSE job'[j] = job[j]
      BY <1>1, <3>1, InvalidateFacts
    <3> QED
      BY <1>5, <3>2
  <2>2. /\ job[j].user \in Users /\ (j.kind = "debounced" => job[j].user = j.user)
        /\ job[j].sent \cup job[j].rest \subseteq Events
    BY <1>5, <2>1, TypedJob DEF OwnJob, UserKinds
  <2>3. CASE job[j].user = u
    <3>1. j.kind # "debounced"
      BY <2>1, <2>2, <2>3
    <3>2. job[j].sent \cup job[j].rest \subseteq held
      BY <1>5, <2>1, <2>2, <2>3, <3>1 DEF HeldBy
    <3> HIDE DEF held
    <3> QED
      BY <1>2, <2>1, <2>3, <3>2 DEF Reached
  <2>4. CASE job[j].user # u
    BY <1>3, <2>1, <2>2, <2>4 DEF Fresh, CallsReached, Reached
  <2> QED
    BY <2>3, <2>4
<1> QED
  BY <1>4, <1>5 DEF Fresh, FreshIsCurrent, CallsReached, Reached

LEMMA FreshHalf ==
    ASSUME Typed, Fresh, NEW u \in Users, HalfPreferences(u)
    PROVE  Fresh'
<1> DEFINE lost == {e \in Events : Held(u, e) \/ FreshLlm(u, e)}
<1>1. /\ prefs' = [prefs EXCEPT ![u] = @ + 1] /\ missed' = [missed EXCEPT ![u] = lost]
      /\ prefs \in [Users -> 0..MaxPrefs] /\ missed \in [Users -> SUBSET Events]
      /\ score' = score /\ job' = job
  BY DEF HalfPreferences, NewPreferences, Typed, TypeOK
<1>2. missed'[u] = lost
  BY <1>1
<1>3. \A v \in Users \ {u} : prefs'[v] = prefs[v] /\ missed'[v] = missed[v]
  BY <1>1
<1>4. ASSUME NEW v \in Users, NEW e \in Events, Outdated(v, e)'
      PROVE  e \in missed'[v]
  <2>1. FreshLlm(v, e)
    BY <1>1, <1>4 DEF Outdated, FreshLlm
  <2>2. CASE v = u
    BY <1>2, <2>1, <2>2
  <2>3. CASE v # u
    BY <1>1, <1>3, <1>4, <2>3 DEF Fresh, FreshIsCurrent, Outdated, FreshLlm
  <2> QED
    BY <2>2, <2>3
<1>5. ASSUME NEW j \in JobIds, job[j].phase = "llm" PROVE Reached(j)'
  <2>1. /\ job[j].user \in Users /\ job[j].sent \cup job[j].rest \subseteq Events
    BY <1>5, TypedJob DEF OwnJob
  <2>2. CASE job[j].user = u
    <3>1. job[j].sent \cup job[j].rest \subseteq lost
      BY <1>5, <2>1, <2>2 DEF Held, HeldBy
    <3> HIDE DEF lost
    <3> QED
      BY <1>1, <1>2, <2>2, <3>1 DEF Reached
  <2>3. CASE job[j].user # u
    BY <1>1, <1>3, <2>1, <2>3 DEF Fresh, CallsReached, Reached
  <2> QED
    BY <2>2, <2>3
<1> QED
  BY <1>1, <1>4, <1>5 DEF Fresh, FreshIsCurrent, CallsReached, Reached

LEMMA FreshAssign ==
    ASSUME Typed, Fresh, NEW us \in SUBSET Users, AssignSession(us)
    PROVE  Fresh'
<1>1. prefs' = prefs /\ missed' = missed /\ Invalidate(us)
  BY DEF AssignSession
<1>2. ASSUME NEW u \in Users, NEW e \in Events, Outdated(u, e)'
      PROVE  e \in missed'[u]
  <2>1. score'[u][e] = score[u][e]
    <3>1. u \notin us
      BY <1>1, <1>2, InvalidateRows DEF Outdated
    <3> QED
      BY <1>1, <3>1, InvalidateFacts
  <2> QED
    BY <1>1, <1>2, <2>1 DEF Fresh, FreshIsCurrent, Outdated, FreshLlm
<1>3. ASSUME NEW j \in JobIds, job'[j].phase = "llm" PROVE Reached(j)'
  <2>1. job'[j] = job[j]
    BY <1>1, <1>3, InvalidateFacts
  <2> QED
    BY <1>1, <2>1 DEF Fresh, CallsReached, Reached
<1> QED
  BY <1>2, <1>3 DEF Fresh, FreshIsCurrent, CallsReached, Reached

\* A bystander leaves an LLM row as it is, marks it stale, deletes or
\* overwrites it with an explicit one.
LEMMA BystanderRows ==
    ASSUME Typed, Bystander, NEW u \in Users, NEW e \in Events
    PROVE  \/ score'[u][e] = score[u][e]
           \/ score'[u][e] = None
           \/ score[u][e] # None /\ score'[u][e] = [score[u][e] EXCEPT !.stale = TRUE]
           \/ score'[u][e] # None /\ score'[u][e].source \in Explicit
<1>1. \A v \in Users : score[v] \in Rows
  BY DEF Typed, TypeOK, Rows
<1>2. score \in Scores
  BY DEF Typed, TypeOK, Scores, Rows
<1>3. ASSUME NEW v \in Users, NEW d \in Events, NEW s \in {"like", "dislike"},
             SetExplicit(v, d, s) \/ ClearExplicit(v, d)
      PROVE  \/ score'[u][e] = score[u][e]
             \/ score'[u][e] = None
             \/ score'[u][e] # None /\ score'[u][e].source \in Explicit
  <2>1. ExplicitRow(s) # None /\ ExplicitRow(s).source \in Explicit
    BY RowTypes
  <2> QED
    BY <1>1, <1>2, <1>3, <2>1 DEF SetExplicit, ClearExplicit, Scores, Rows
<1>4. ASSUME NEW d \in Events, NEW changed \in BOOLEAN, EventFetchedAgain(d, changed)
      PROVE  \/ score'[u][e] = score[u][e]
             \/ score[u][e] # None /\ score'[u][e] = [score[u][e] EXCEPT !.stale = TRUE]
  BY <1>1, <1>4 DEF EventFetchedAgain, Rows
<1>5. ASSUME NEW d \in Events, EventDeleted(d)
      PROVE  score'[u][e] = score[u][e] \/ score'[u][e] = None
  BY <1>1, <1>5 DEF EventDeleted, Rows
<1>6. ASSUME NEW v \in Users, NEW d \in Events, NEW s \in {"like", "dislike"},
             Toggle(v, d, s) \/ HalfToggle(v, d, s)
      PROVE  UNCHANGED score \/ SetExplicit(v, d, s) \/ ClearExplicit(v, d)
  BY <1>6 DEF Toggle, HalfToggle
<1>7. ASSUME \/ \E v \in Users, d \in Events : DeleteLike(v, d)
             \/ \E d \in Events : NewEvent(d) \/ TimePasses(d)
             \/ WindowFlips \/ UNCHANGED vars
      PROVE  UNCHANGED score
  BY <1>7 DEF DeleteLike, NewEvent, TimePasses, WindowFlips, vars
<1> QED
  BY <1>3, <1>4, <1>5, <1>6, <1>7 DEF Bystander

LEMMA FreshBystander ==
    ASSUME Typed, Fresh, Bystander
    PROVE  Fresh'
<1>1. UNCHANGED <<job, prefs, missed>>
  BY BystanderSparesJobs
<1>2. ASSUME NEW u \in Users, NEW e \in Events, Outdated(u, e)'
      PROVE  e \in missed'[u]
  <2>1. score[u][e] \in Row \cup {None} /\ "llm" \notin Explicit
    BY DEF Typed, TypeOK, Explicit
  <2>2. score'[u][e] = score[u][e]
    BY <1>2, <2>1, BystanderRows, RowTypes DEF Outdated, FreshLlm
  <2> QED
    BY <1>1, <1>2, <2>2 DEF Fresh, FreshIsCurrent, Outdated, FreshLlm
<1> QED
  BY <1>1, <1>2 DEF Fresh, FreshIsCurrent, CallsReached, Reached

\* A fresh score of the LLM is of the preferences the user has stated now,
\* whatever jobs run, are cancelled and started again, but for what the last
\* change of them could not reach (profile.py:130, admin.py:417-422).
THEOREM FreshScores == Spec => []FreshIsCurrent
<1>1. Init => Fresh
  BY StartupFacts
     DEF Init, Fresh, FreshIsCurrent, Outdated, FreshLlm, CallsReached, Reached
<1>2. Typed /\ Fresh /\ [Next]_vars => Fresh'
  <2>1. ASSUME Typed, Fresh, Restart PROVE Fresh'
    BY <2>1, StartupFacts
       DEF Restart, Fresh, FreshIsCurrent, Outdated, FreshLlm, CallsReached, Reached
  <2> QED
    BY <2>1, NextCases, JobStepFacts, FreshStep, FreshChange, FreshHalf, FreshAssign,
       FreshBystander
<1>3. Fresh => FreshIsCurrent
  BY DEF Fresh
<1> QED
  BY <1>1, <1>2, <1>3, TypedHolds, PTL DEF Spec

\* Only a failed LLM call turns an LLM score into a rule score (scoring.py:484-490).
THEOREM LostToFailure == Spec => LlmScoreOnlyLostToFailure
<1>1. Typed /\ [Next]_vars =>
        [\A u \in Users, e \in Events :
           /\ score[u][e] # None /\ score[u][e].source = "llm"
           /\ score'[u][e] # None /\ score'[u][e].source = "rule"
           => \E j \in JobIds : /\ job[j].phase = "llm" /\ job[j].user = u
                                /\ e \in job[j].sent
                                /\ job'[j] # job[j]]_vars
  <2> SUFFICES ASSUME Typed, [Next]_vars, NEW u \in Users, NEW e \in Events,
                      score[u][e] # None, score[u][e].source = "llm",
                      score'[u][e] # None, score'[u][e].source = "rule"
               PROVE  \E j \in JobIds : /\ job[j].phase = "llm" /\ job[j].user = u
                                        /\ e \in job[j].sent
                                        /\ job'[j] # job[j]
    OBVIOUS
  <2>1. score[u][e] \in Row /\ "rule" \notin Explicit
    BY DEF Typed, TypeOK, Explicit
  <2>2. /\ score'[u][e] # score[u][e]
        /\ score'[u][e] # [score[u][e] EXCEPT !.stale = TRUE]
    BY <2>1, RowTypes
  <2>3. ASSUME NEW j \in JobIds, JobStep(j)
        PROVE  \E i \in JobIds : /\ job[i].phase = "llm" /\ job[i].user = u
                                 /\ e \in job[i].sent
                                 /\ job'[i] # job[i]
    BY <2>2, <2>3, JobStepFacts DEF StepOf, RowStep, Prepared
  <2>4. ASSUME NEW us \in SUBSET Users, Invalidate(us) PROVE FALSE
    BY <2>2, <2>4, InvalidateRows
  <2>5. ~Restart /\ ~OnlyProfile
    BY <2>2 DEF Restart, OnlyProfile
  <2>6. ~Bystander
    BY <2>1, <2>2, BystanderRows
  <2> QED
    BY <2>3, <2>4, <2>5, <2>6, NextKinds
<1> QED
  BY <1>1, TypedHolds, PTL DEF Spec, LlmScoreOnlyLostToFailure

-----------------------------------------------------------------------------
(* Likes and dislikes.                                                     *)

\* No row a user asked for.
NotExplicit(row) == row = None \/ row.source \in Rerated

\* Rows that users asked for are never stale, so that no job picks them; and
\* no job is asking about one.
ExplicitFresh ==
    \A u \in Users, e \in Events :
        NotExplicit(score[u][e]) \/ ~score[u][e].stale

CallsSpareLikes ==
    \A j \in JobIds : job[j].phase = "llm" =>
        \A e \in job[j].sent \cup job[j].rest : NotExplicit(score[job[j].user][e])

Judged == JudgementSurvives /\ ExplicitHasLike /\ ExplicitFresh /\ CallsSpareLikes

LEMMA SourceFacts ==
    /\ \A r \in Row : NotExplicit(r) <=> r.source \notin Explicit
    /\ NotExplicit(None) /\ NotExplicit(RuleRow)
    /\ \A s \in {"like", "dislike"} : ~NotExplicit(ExplicitRow(s))
    /\ \A r \in Row : NotExplicit([r EXCEPT !.stale = TRUE]) <=> NotExplicit(r)
    /\ None \notin {"like", "dislike"}
<1>1. \A r \in Row : r # None /\ r.source \in Explicit \cup Rerated
  BY NoneAssumption DEF Row
<1>2. Explicit \cap Rerated = {}
  BY DEF Explicit, Rerated
<1>3. None \notin {"like", "dislike"} /\ RuleRow.source \in Rerated
  BY NoneAssumption DEF RuleRow, Rerated
<1> QED
  BY <1>1, <1>2, <1>3, RowTypes DEF NotExplicit

\* A job changes no row a user asked for, and makes none.
LEMMA JobSparesRows ==
    ASSUME Typed, Judged, NEW j \in JobIds, StepOf(j), NEW u \in Users, NEW e \in Events
    PROVE  /\ NotExplicit(score'[u][e]) <=> NotExplicit(score[u][e])
           /\ ~NotExplicit(score[u][e]) => score'[u][e] = score[u][e]
<1>1. score[u][e] \in Row \cup {None}
  BY DEF Typed, TypeOK
<1>2. CASE Prepared(score[u][e], score'[u][e])
  BY <1>1, <1>2, SourceFacts DEF Prepared, NotExplicit
<1>3. CASE ~Prepared(score[u][e], score'[u][e])
  <2>1. job[j].phase = "llm" /\ u = job[j].user /\ e \in job[j].sent
        /\ score'[u][e].source \in Rerated
    BY <1>3 DEF StepOf, RowStep
  <2>2. NotExplicit(score[u][e])
    BY <2>1 DEF Judged, CallsSpareLikes
  <2> QED
    BY <2>1, <2>2 DEF NotExplicit
<1> QED
  BY <1>2, <1>3

LEMMA JudgedStep ==
    ASSUME "window" \notin Kinds, Typed, Judged, NEW j \in JobIds, StepOf(j)
    PROVE  Judged'
<1>1. \A u \in Users, e \in Events :
        /\ NotExplicit(score'[u][e]) <=> NotExplicit(score[u][e])
        /\ ~NotExplicit(score[u][e]) => score'[u][e] = score[u][e]
        /\ score[u][e] \in Row \cup {None} /\ score'[u][e] \in Row \cup {None}
  BY JobSparesRows DEF StepOf, Scores, Rows, Typed, TypeOK
<1>2. like' = like
  BY DEF StepOf
<1>3. JudgementSurvives'
  <2> SUFFICES ASSUME NEW u \in Users, NEW e \in Events, like[u][e] # None
               PROVE  score'[u][e] # None
                      /\ score'[u][e].source = ExplicitRow(like[u][e]).source
    BY <1>2 DEF JudgementSurvives
  <2>1. /\ score[u][e] # None /\ score[u][e].source = ExplicitRow(like[u][e]).source
        /\ like[u][e] \in {"like", "dislike"}
    BY DEF Judged, JudgementSurvives, Typed, TypeOK
  <2>2. ~NotExplicit(score[u][e])
    BY <1>1, <2>1, SourceFacts, RowTypes
  <2> QED
    BY <1>1, <2>1, <2>2
<1>4. ExplicitHasLike'
  <2> SUFFICES ASSUME NEW u \in Users, NEW e \in Events,
                      score'[u][e] # None, score'[u][e].source \in Explicit
               PROVE  like[u][e] # None
    BY <1>2 DEF ExplicitHasLike
  <2>1. score'[u][e] = score[u][e]
    BY <1>1, SourceFacts
  <2> QED
    BY <2>1 DEF Judged, ExplicitHasLike
<1>5. ExplicitFresh'
  BY <1>1 DEF Judged, ExplicitFresh
<1>6. CallsSpareLikes'
  <2> SUFFICES ASSUME NEW i \in JobIds, job'[i].phase = "llm",
                      NEW e \in job'[i].sent \cup job'[i].rest
               PROVE  NotExplicit(score'[job'[i].user][e])
    BY DEF CallsSpareLikes
  <2>1. /\ job'[i] \in Job /\ OwnJob(i, job'[i])
    BY TypedJob DEF StepOf, JobMoves
  <2>2. job'[i].user \in Users /\ e \in Events
    BY <2>1 DEF OwnJob, Job
  <2>3. CASE i # j
    BY <1>1, <2>2, <2>3 DEF StepOf, JobMoves, Judged, CallsSpareLikes
  <2>4. CASE i = j /\ job[j].phase = "llm" /\ job'[j].user = job[j].user
             /\ job'[j].sent \cup job'[j].rest \subseteq job[j].sent \cup job[j].rest
    BY <1>1, <2>2, <2>4 DEF Judged, CallsSpareLikes
  <2>5. CASE i = j /\ \A d \in job'[j].sent \cup job'[j].rest :
                          Replaceable(j.kind, score'[job'[j].user][d])
    <3>1. j.kind # "window"
      BY DEF JobIds
    <3>2. Replaceable(j.kind, score'[job'[i].user][e])
      BY <2>5
    <3> QED
      BY <1>5, <2>2, <3>1, <3>2 DEF ExplicitFresh, Replaceable, NotExplicit
  <2> QED
    BY <2>3, <2>4, <2>5 DEF StepOf, JobMoves, JobAfter
<1> QED
  BY <1>3, <1>4, <1>5, <1>6 DEF Judged

\* The other steps: if every row stays as explicit as it is, or is one that no
\* job asks about, and the likes follow.
LEMMA JudgedToggle ==
    ASSUME ~MidPass, Typed, Judged,
           NEW v \in Users, NEW d \in Events, NEW s \in {"like", "dislike"}, Toggle(v, d, s)
    PROVE  Judged'
<1>1. /\ score \in Scores /\ \A u \in Users : score[u] \in Rows
      /\ \A u \in Users, e \in Events : score[u][e] \in Row \cup {None}
      /\ like \in [Users -> [Events -> {"like", "dislike", None}]]
  BY DEF Typed, TypeOK, Scores, Rows
<1>2. /\ like' = [like EXCEPT ![v][d] = IF @ = s THEN None ELSE s]
      /\ job' = job
      /\ IF like[v][d] = s THEN ClearExplicit(v, d)
         ELSE ~Held(v, d) /\ SetExplicit(v, d, s)
  BY DEF Toggle, LikeToggled
<1>3. \A u \in Users, e \in Events : ~(u = v /\ e = d) =>
         score'[u][e] = score[u][e] /\ like'[u][e] = like[u][e]
  BY <1>1, <1>2 DEF ClearExplicit, SetExplicit, Scores, Rows
<1>4. CASE like[v][d] = s
  <2>1. like'[v][d] = None
    BY <1>1, <1>2, <1>4
  <2>2. score'[v][d] = IF score[v][d] # None /\ score[v][d].source \in Explicit
                       THEN None ELSE score[v][d]
    BY <1>1, <1>2, <1>4 DEF ClearExplicit, Scores, Rows
  <2>3. NotExplicit(score'[v][d])
    BY <1>1, <2>2, SourceFacts
  <2>4. score'[v][d] \in Row \cup {None}
    BY <1>1, <2>2
  <2>5. JudgementSurvives'
    BY <1>3, <2>1 DEF Judged, JudgementSurvives
  <2>6. ExplicitHasLike'
    BY <1>3, <2>3, <2>4, SourceFacts DEF Judged, ExplicitHasLike
  <2>7. ExplicitFresh'
    BY <1>3, <2>3 DEF Judged, ExplicitFresh
  <2>8. CallsSpareLikes'
    <3> SUFFICES ASSUME NEW j \in JobIds, job[j].phase = "llm",
                        NEW e \in job[j].sent \cup job[j].rest
                 PROVE  NotExplicit(score'[job[j].user][e])
      BY <1>2 DEF CallsSpareLikes
    <3>1. job[j].user \in Users /\ e \in Events
      BY TypedJob DEF OwnJob
    <3> QED
      BY <1>3, <2>3, <3>1 DEF Judged, CallsSpareLikes
  <2> QED
    BY <2>5, <2>6, <2>7, <2>8 DEF Judged
<1>5. CASE like[v][d] # s
  <2>1. like'[v][d] = s /\ s # None
    BY <1>1, <1>2, <1>5, SourceFacts
  <2>2. score'[v][d] = ExplicitRow(s)
    BY <1>1, <1>2, <1>5 DEF SetExplicit, Scores, Rows
  <2>3. ExplicitRow(s) # None /\ ~ExplicitRow(s).stale
    BY RowTypes
  <2>4. JudgementSurvives'
    BY <1>3, <2>1, <2>2, <2>3 DEF Judged, JudgementSurvives
  <2>5. ExplicitHasLike'
    BY <1>3, <2>1 DEF Judged, ExplicitHasLike
  <2>6. ExplicitFresh'
    BY <1>3, <2>2, <2>3 DEF Judged, ExplicitFresh
  <2>7. CallsSpareLikes'
    <3> SUFFICES ASSUME NEW j \in JobIds, job[j].phase = "llm",
                        NEW e \in job[j].sent \cup job[j].rest
                 PROVE  NotExplicit(score'[job[j].user][e])
      BY <1>2 DEF CallsSpareLikes
    <3>1. job[j].user \in Users /\ e \in Events
      BY TypedJob DEF OwnJob
    <3>2. ~(job[j].user = v /\ e = d)
      BY <1>2, <1>5 DEF Held, HeldBy
    <3> QED
      BY <1>3, <3>1, <3>2 DEF Judged, CallsSpareLikes
  <2> QED
    BY <2>4, <2>5, <2>6, <2>7 DEF Judged
<1> QED
  BY <1>4, <1>5

\* A step that keeps likes and explicit rows, and makes no others explicit.
LEMMA JudgedKept ==
    ASSUME Typed, Judged, like' = like,
           \A j \in JobIds : job'[j].phase = "llm" => job'[j] = job[j],
           \A u \in Users, e \in Events :
              \/ score'[u][e] = score[u][e]
              \/ NotExplicit(score[u][e]) /\ NotExplicit(score'[u][e])
    PROVE  Judged'
<1>1. \A u \in Users, e \in Events : score[u][e] \in Row \cup {None}
  BY DEF Typed, TypeOK
<1>2. JudgementSurvives'
  <2> SUFFICES ASSUME NEW u \in Users, NEW e \in Events, like[u][e] # None
               PROVE  score'[u][e] # None
                      /\ score'[u][e].source = ExplicitRow(like[u][e]).source
    BY DEF JudgementSurvives
  <2>1. /\ score[u][e] # None /\ score[u][e].source = ExplicitRow(like[u][e]).source
        /\ like[u][e] \in {"like", "dislike"}
    BY DEF Judged, JudgementSurvives, Typed, TypeOK
  <2>2. ~NotExplicit(score[u][e])
    BY <1>1, <2>1, SourceFacts, RowTypes
  <2> QED
    BY <2>1, <2>2
<1>3. ExplicitHasLike'
  <2> SUFFICES ASSUME NEW u \in Users, NEW e \in Events,
                      score'[u][e] # None, score'[u][e].source \in Explicit
               PROVE  like[u][e] # None
    BY DEF ExplicitHasLike
  <2>1. ~NotExplicit(score'[u][e])
    BY DEF NotExplicit, Explicit, Rerated
  <2> QED
    BY <2>1 DEF Judged, ExplicitHasLike
<1>4. ExplicitFresh'
  BY DEF Judged, ExplicitFresh
<1>5. CallsSpareLikes'
  <2> SUFFICES ASSUME NEW j \in JobIds, job'[j].phase = "llm",
                      NEW e \in job'[j].sent \cup job'[j].rest
               PROVE  NotExplicit(score'[job'[j].user][e])
    BY DEF CallsSpareLikes
  <2>1. job'[j] = job[j]
    OBVIOUS
  <2>2. job[j].user \in Users /\ e \in Events
    BY <2>1, TypedJob DEF OwnJob
  <2> QED
    BY <2>1, <2>2 DEF Judged, CallsSpareLikes
<1> QED
  BY <1>2, <1>3, <1>4, <1>5 DEF Judged

LEMMA JudgedBystander ==
    ASSUME ~MidPass, ~LikedChange, ~AdminUnlikes, ~HalfRequests, Typed, Judged, Bystander
    PROVE  Judged'
<1>1. /\ \A u \in Users : score[u] \in Rows
      /\ \A u \in Users, e \in Events : score[u][e] \in Row \cup {None}
  BY DEF Typed, TypeOK, Rows
<1>2. \A u \in Users, e \in Events : like[u][e] = None => NotExplicit(score[u][e])
  BY <1>1, SourceFacts DEF Judged, ExplicitHasLike
<1>3. job' = job
  BY BystanderSparesJobs
<1>4. ASSUME NEW d \in Events, NEW changed \in BOOLEAN, EventFetchedAgain(d, changed)
      PROVE  Judged'
  <2>1. CASE ~changed
    BY <1>3, <1>4, <2>1, JudgedKept DEF EventFetchedAgain
  <2>2. CASE changed
    <3>1. /\ like' = like /\ \A u \in Users : like[u][d] = None
          /\ score' = [u \in Users |-> [score[u] EXCEPT ![d] =
                          IF @ = None THEN None ELSE [@ EXCEPT !.stale = TRUE]]]
      BY <1>4, <2>2 DEF EventFetchedAgain
    <3>2. ASSUME NEW u \in Users, NEW e \in Events
          PROVE  \/ score'[u][e] = score[u][e]
                 \/ NotExplicit(score[u][e]) /\ NotExplicit(score'[u][e])
      <4>1. CASE e # d
        BY <1>1, <3>1, <4>1 DEF Rows
      <4>2. CASE e = d
        <5>1. score'[u][e] = IF score[u][e] = None THEN None
                             ELSE [score[u][e] EXCEPT !.stale = TRUE]
          BY <1>1, <3>1, <4>2 DEF Rows
        <5>2. NotExplicit(score[u][e])
          BY <1>2, <3>1, <4>2
        <5> QED
          BY <1>1, <5>1, <5>2, SourceFacts
      <4> QED
        BY <4>1, <4>2
    <3> QED
      BY <1>3, <3>1, <3>2, JudgedKept
  <2> QED
    BY <2>1, <2>2
<1>5. ASSUME NEW d \in Events, EventDeleted(d)
      PROVE  Judged'
  <2>1. /\ like' = like /\ \A u \in Users : like[u][d] = None
        /\ score' = [u \in Users |-> [score[u] EXCEPT ![d] = None]]
    BY <1>5 DEF EventDeleted
  <2>2. \A u \in Users, e \in Events :
           \/ score'[u][e] = score[u][e]
           \/ NotExplicit(score[u][e]) /\ NotExplicit(score'[u][e])
    BY <1>1, <1>2, <2>1, SourceFacts DEF Rows
  <2> QED
    BY <1>3, <2>1, <2>2, JudgedKept
<1>6. CASE UNCHANGED <<score, like>>
  BY <1>3, <1>6, JudgedKept
<1>7. ASSUME NEW d \in Events, NewEvent(d) \/ TimePasses(d) PROVE UNCHANGED <<score, like>>
  BY <1>7 DEF NewEvent, TimePasses
<1>8. WindowFlips \/ UNCHANGED vars => UNCHANGED <<score, like>>
  BY DEF WindowFlips, vars
<1>9. \A u \in Users, e \in Events, s \in {"like", "dislike"} :
         ~HalfToggle(u, e, s) /\ ~DeleteLike(u, e)
  BY DEF HalfToggle, DeleteLike
<1> QED
  BY <1>4, <1>5, <1>6, <1>7, <1>8, <1>9, JudgedToggle DEF Bystander

LEMMA JudgedNext ==
    ASSUME ~MidPass, ~LikedChange, ~AdminUnlikes, ~HalfRequests, "window" \notin Kinds,
           Typed, Judged, [Next]_vars
    PROVE  Judged'
<1>1. ASSUME NEW us \in SUBSET Users, Invalidate(us) PROVE Judged'
  <2>1. like' = like /\ \A j \in JobIds : job'[j].phase = "llm" => job'[j] = job[j]
    BY <1>1, InvalidateFacts
  <2>2. ASSUME NEW v \in Users, NEW e \in Events
        PROVE  \/ score'[v][e] = score[v][e]
               \/ NotExplicit(score[v][e]) /\ NotExplicit(score'[v][e])
    <3>1. score[v][e] \in Row \cup {None}
      BY DEF Typed, TypeOK
    <3>2. CASE /\ score[v][e] # None /\ score[v][e].source \in Rerated
               /\ score'[v][e] = [score[v][e] EXCEPT !.stale = TRUE]
      <4>1. NotExplicit(score[v][e]) /\ score[v][e] \in Row
        BY <3>1, <3>2 DEF NotExplicit
      <4> QED
        BY <3>2, <4>1, SourceFacts
    <3> QED
      BY <1>1, <3>2, InvalidateRows
  <2>3. score' \in Scores
    BY <1>1, InvalidateFacts
  <2> QED
    BY <2>1, <2>2, <2>3, JudgedKept
<1>2. CASE Restart
  BY <1>2, StartupFacts, JudgedKept DEF Restart
<1>3. CASE OnlyProfile
  BY <1>3, JudgedKept DEF OnlyProfile
<1> QED
  BY <1>1, <1>2, <1>3, NextKinds, JobStepFacts, JudgedStep, JudgedBystander

\* The invariant behind the next two.
LEMMA JudgedHolds ==
    ~MidPass /\ ~LikedChange /\ ~AdminUnlikes /\ ~HalfRequests /\ "window" \notin Kinds
        => (Spec => []Judged)
<1> SUFFICES ASSUME ~MidPass, ~LikedChange, ~AdminUnlikes, ~HalfRequests, "window" \notin Kinds
             PROVE  Spec => []Judged
  OBVIOUS
<1>1. Init => Judged
  BY StartupFacts, SourceFacts
     DEF Init, Judged, JudgementSurvives, ExplicitHasLike, ExplicitFresh, CallsSpareLikes
<1> QED
  BY <1>1, JudgedNext, TypedHolds, PTL DEF Spec

\* No re-rate replaces a like or dislike: the jobs pick no row a user asked
\* for, and users who act on what is just being scored, texts that change under
\* a like, and the re-rate of a window are all it takes to exclude
\* (scoring.py:773-774, likes.py:100-107).
THEOREM LikesSurvive ==
    ~MidPass /\ ~LikedChange /\ ~AdminUnlikes /\ ~HalfRequests /\ "window" \notin Kinds
        => (Spec => []JudgementSurvives)
<1>1. Judged => JudgementSurvives
  BY DEF Judged
<1> QED
  BY <1>1, JudgedHolds, PTL

\* Under the same conditions only what a user says makes a score an explicit
\* one (scoring.py:803-811).
THEOREM ExplicitIsLiked ==
    ~MidPass /\ ~LikedChange /\ ~AdminUnlikes /\ ~HalfRequests /\ "window" \notin Kinds
        => (Spec => []ExplicitHasLike)
<1>1. Judged => ExplicitHasLike
  BY DEF Judged
<1> QED
  BY <1>1, JudgedHolds, PTL

-----------------------------------------------------------------------------
(* Nothing queued is dropped.                                              *)

\* The passes of a job have a turn each, so that Launch takes one at a time.
OneAtATurn(ps) == \A p, q \in ps : p.turn = q.turn => p = q
Distinct == \A j \in JobIds : OneAtATurn(job[j].passes)

\* No event a job holds has been deleted, so that no job dies of its answer.
HeldPresent ==
    \A j \in JobIds : job[j].phase = "llm" =>
        \A e \in job[j].sent \cup job[j].rest : Present(e)

Steady == Distinct /\ HeldPresent

LEMMA ForEachTurns ==
    ASSUME NEW us, NEW ids
    PROVE  OneAtATurn(ForEach(us, ids))
BY DEF OneAtATurn, ForEach

\* User and batch can be told from the turn.
LEMMA TurnsDiffer ==
    ASSUME NEW n \in Nat, NEW m \in Nat, NEW u \in 0..MaxUser, NEW v \in 0..MaxUser,
           n * (MaxUser + 1) + u = m * (MaxUser + 1) + v
    PROVE  n = m /\ u = v
<1> DEFINE M == MaxUser + 1
<1>1. M \in Nat /\ u \in Nat /\ v \in Nat /\ u < M /\ v < M
  BY Numbers
<1>2. n * M + u = m * M + v
  OBVIOUS
<1> HIDE DEF M
<1>3. ASSUME NEW a \in Nat, NEW b \in Nat, a < b
      PROVE  a * M + M <= b * M
  <2>1. PICK k \in Nat : b = a + 1 + k
    <3>1. b - a - 1 \in Nat /\ b = a + 1 + (b - a - 1)
      BY <1>3
    <3> QED
      BY <3>1
  <2>2. b * M = a * M + M + k * M
    BY <1>1, <2>1
  <2>3. k * M \in Nat /\ a * M \in Nat
    BY <1>1
  <2> QED
    BY <1>1, <2>2, <2>3
<1>4. n * M \in Nat /\ m * M \in Nat
  BY <1>1
<1>5. ~(n < m) /\ ~(m < n)
  BY <1>1, <1>2, <1>3, <1>4
<1>6. n = m
  BY <1>5
<1> QED
  BY <1>1, <1>2, <1>4, <1>6

LEMMA BatchNoType ==
    ASSUME NEW S \in SUBSET Events, NEW e \in Events
    PROVE  BatchNo(S, e) \in Nat
<1> DEFINE before == {d \in S : d < e}
<1>1. e \in Nat /\ before \in SUBSET (0..e)
  <2>1. e \in Nat /\ \A d \in before : d \in Nat /\ d < e
    BY Numbers
  <2> HIDE DEF before
  <2>2. \A d \in before : d \in 0..e
    BY <2>1
  <2> QED
    BY <2>1, <2>2
<1> HIDE DEF before
<1>2. Cardinality(before) \in Nat
  <2>1. IsFiniteSet(0..e)
    BY <1>1, FS_Interval
  <2> QED
    BY <1>1, <2>1, FS_Subset, FS_CardinalityType
<1>3. \A n \in Nat, b \in Nat \ {0} : n \div b \in Nat
  OBVIOUS
<1> QED
  BY <1>2, <1>3, Numbers DEF BatchNo, before

\* What the bootstrap finds to do for a user.
Todo(u) == Pending(score[u], {e \in Events : Future(e)})

LEMMA BootstrapTurns ==
    /\ OneAtATurn(BootstrapPasses)
    /\ \A u \in Users : \A e \in Todo(u) :
          \E p \in BootstrapPasses : p.user = u /\ e \in p.ids
<1> DEFINE of(x) == [turn |-> BatchNo(Todo(x[1]), x[2]) * (MaxUser + 1) + x[1],
                     user |-> x[1],
                     ids |-> {e \in Todo(x[1]) : BatchNo(Todo(x[1]), e)
                                                   = BatchNo(Todo(x[1]), x[2])}]
           found == {y \in Users \X Events : y[2] \in Todo(y[1])}
<1>1. BootstrapPasses = {of(x) : x \in found}
  BY DEF BootstrapPasses, Todo
<1>2. \A u \in Users : Todo(u) \subseteq Events
  BY DEF Todo, Pending
<1>3. \A x \in found : /\ x[1] \in Users /\ x[1] \in 0..MaxUser
                       /\ BatchNo(Todo(x[1]), x[2]) \in Nat
  BY <1>2, BatchNoType, IdsAssumption
<1>4. ASSUME NEW x \in found, NEW y \in found, of(x).turn = of(y).turn
      PROVE  of(x) = of(y)
  <2>1. BatchNo(Todo(x[1]), x[2]) = BatchNo(Todo(y[1]), y[2]) /\ x[1] = y[1]
    BY <1>3, <1>4, TurnsDiffer
  <2> QED
    BY <2>1
<1>5. ASSUME NEW u \in Users, NEW e \in Todo(u)
      PROVE  \E p \in BootstrapPasses : p.user = u /\ e \in p.ids
  <2>1. <<u, e>> \in found
    BY <1>2
  <2>2. of(<<u, e>>) \in BootstrapPasses
    <3> HIDE DEF of, found
    <3> QED
      BY <1>1, <2>1
  <2>3. of(<<u, e>>).user = u /\ e \in of(<<u, e>>).ids
    OBVIOUS
  <2> QED
    BY <2>2, <2>3
<1> HIDE DEF of, found
<1> QED
  BY <1>1, <1>4, <1>5 DEF OneAtATurn

\* What Launch leaves of the passes, and what it puts into a call.
LEMMA LaunchLeaves ==
    ASSUME Typed, NEW j \in JobIds, NEW ps \in SUBSET Pass, NEW sc \in Scores,
           Launch(j, ps, sc)
    PROVE  /\ job'[j].passes \subseteq ps
           /\ job'[j].phase = "llm" =>
                 \A e \in job'[j].sent \cup job'[j].rest : Future(e)
<1>1. job \in [JobIds -> Job]
  BY TypedJob
<1>2. CASE job' = [job EXCEPT ![j] = Idle]
  BY <1>1, <1>2, IdleFacts
<1>3. ASSUME NEW c \in Job, NEW p \in ps, job' = [job EXCEPT ![j] = c],
             c.passes \subseteq ps,
             c.sent \cup c.rest \subseteq Candidates(j.kind, p, sc[p.user])
      PROVE  /\ job'[j].passes \subseteq ps
             /\ \A e \in job'[j].sent \cup job'[j].rest : Future(e)
  BY <1>1, <1>3 DEF Candidates
<1> QED
  BY <1>2, <1>3, LaunchFacts DEF Typed

\* What is wanted of a pass is scored, deferred with a rule row, in the call,
\* or still to be passed: Launch drops nothing.
LEMMA LaunchKeeps ==
    ASSUME Typed, NEW j \in JobIds, j.kind \in {"worker", "bootstrap"},
           NEW ps \in SUBSET Pass, OneAtATurn(ps), NEW sc \in Scores, Launch(j, ps, sc),
           NEW u \in Users, NEW e \in Visible[u], Future(e), score'[u][e] = None,
           NEW p \in ps, p.user = u, e \in p.ids
    PROVE  InWork(j, u, e)'
<1> DEFINE now(q) == ForLlm(j.kind, q, sc[q.user])
           ready == {q \in ps : now(q) # {}}
           first == {q \in ready : \A r \in ready : q.turn <= r.turn}
           begun == {q \in ps : \A r \in first : q.turn <= r.turn}
           ruled(v) == UNION {Deferred(j.kind, q, sc[v]) : q \in {r \in begun : r.user = v}}
           marked(v) == IF j.kind = "window" /\ (\E q \in begun : q.user = v)
                        THEN MarkStale(sc[v]) ELSE sc[v]
           call(q) == [phase |-> "llm", passes |-> ps \ begun, user |-> q.user,
                       sent |-> FirstBatch(now(q)), rest |-> now(q) \ FirstBatch(now(q)),
                       basis |-> prefs[q.user]]
<1>1. /\ score' = [v \in Users |->
                     [d \in Events |-> IF d \in ruled(v) THEN RuleRow ELSE marked(v)[d]]]
      /\ \/ ready = {} /\ job' = [job EXCEPT ![j] = Idle]
         \/ \E q \in first : job' = [job EXCEPT ![j] = call(q)]
  BY DEF Launch
<1>2. e \in Events /\ job \in [JobIds -> Job]
  BY TypedJob, ScopeAssumption
<1>3. sc[u][e] = None
  <2>1. Prepared(sc[u][e], score'[u][e])
    BY <1>2, LaunchFacts DEF Typed
  <2>2. sc[u][e] \in Row \cup {None}
    BY <1>2 DEF Scores, Rows
  <2> QED
    BY <2>1, <2>2, RowTypes DEF Prepared
<1>4. e \in Candidates(j.kind, p, sc[u])
  BY <1>3 DEF Candidates, Selection, Pending
<1>5. p \in begun => e \in now(p)
  <2> SUFFICES ASSUME p \in begun, ~Urgent(e) PROVE FALSE
    BY <1>4 DEF ForLlm
  <2>1. e \in Deferred(j.kind, p, sc[u])
    BY <1>3, <1>4 DEF Deferred
  <2>2. e \in ruled(u)
    BY <2>1
  <2>3. score'[u][e] = RuleRow
    BY <1>1, <1>2, <2>2
  <2> QED
    BY <2>3, RowTypes
<1>6. \A q \in ps : q.turn \in Nat
  BY DEF Pass
<1>7. CASE ready = {}
  BY <1>5, <1>7
<1>8. ASSUME NEW q \in first, job' = [job EXCEPT ![j] = call(q)]
      PROVE  InWork(j, u, e)'
  <2>1. /\ job'[j].phase = "llm" /\ job'[j].user = q.user /\ job'[j].passes = ps \ begun
        /\ job'[j].sent \cup job'[j].rest = now(q) \cup FirstBatch(now(q))
    <3>1. job'[j] = call(q)
      BY <1>2, <1>8
    <3> HIDE DEF now, begun, first
    <3> QED
      BY <3>1
  <2>2. CASE p \notin begun
    BY <2>1, <2>2 DEF InWork
  <2>3. CASE p \in begun
    <3>1. e \in now(p) /\ p \in ready
      BY <1>5, <2>3
    <3>2. q \in ps /\ q.turn <= p.turn /\ p.turn <= q.turn
      BY <2>3, <3>1
    <3>3. p = q
      BY <1>6, <3>2 DEF OneAtATurn
    <3> HIDE DEF now
    <3> QED
      BY <2>1, <3>1, <3>3 DEF InWork
  <2> QED
    BY <2>2, <2>3
<1> HIDE DEF first, ready, call
<1> QED
  BY <1>1, <1>7, <1>8

\* An answer about events that are there settles what was sent, and nothing
\* else is lost.
LEMMA AnswerKeeps ==
    ASSUME Typed, Steady, NEW j \in JobIds, j.kind \in {"worker", "bootstrap"},
           NEW source \in [job[j].sent -> Rerated], Answer(j, source),
           NEW u \in Users, NEW e \in Visible[u], Future(e), score'[u][e] = None,
           InWork(j, u, e)
    PROVE  InWork(j, u, e)'
<1> DEFINE c == job[j]
           w == [score EXCEPT ![c.user] = Upsert(@, c.basis, c.sent, source)]
<1>1. /\ c.phase = "llm" /\ c.user \in Users /\ c \in Job /\ score \in Scores
      /\ c.sent \subseteq Events /\ c.rest \subseteq Events /\ c.basis \in 0..MaxPrefs
      /\ c.passes \subseteq Pass /\ job \in [JobIds -> Job] /\ e \in Events
  BY TypedJob, ScopeAssumption DEF Answer, OwnJob
<1>2. /\ \A d \in c.sent \cup c.rest : Present(d)
      /\ OneAtATurn(c.passes)
  BY <1>1 DEF Steady, HeldPresent, Distinct
<1>3. \/ u = c.user /\ e \in c.sent \cup c.rest
      \/ \E p \in c.passes : p.user = u /\ e \in p.ids
  BY <1>1 DEF InWork
<1>4. /\ w \in Scores
      /\ u = c.user /\ e \in c.sent => w[u][e] \in Row
  <2> DEFINE up == Upsert(score[c.user], c.basis, c.sent, source)
  <2>1. up \in Rows /\ \A d \in c.sent : up[d] \in Row
    <3>1. source \in [c.sent -> Rerated] /\ c.sent \in SUBSET Events
      BY <1>1
    <3>2. score[c.user] \in Rows
      BY <1>1 DEF Scores
    <3> HIDE DEF c
    <3>3. ASSUME NEW f \in Rows, NEW b \in 0..MaxPrefs
          PROVE  /\ Upsert(f, b, c.sent, source) \in Rows
                 /\ \A d \in c.sent : Upsert(f, b, c.sent, source)[d] \in Row
      BY <3>1, UpsertFacts
    <3> QED
      BY <1>1, <3>2, <3>3
  <2>2. w = [score EXCEPT ![c.user] = up]
    OBVIOUS
  <2> HIDE DEF up, w
  <2>3. w \in Scores /\ w[c.user] = up
    BY <1>1, <2>1, <2>2 DEF Scores
  <2> QED
    BY <2>1, <2>3
<1> HIDE DEF w
<1>5. ASSUME Prepared(w[u][e], score'[u][e])
      PROVE  ~(u = c.user /\ e \in c.sent)
  BY <1>4, <1>5, RowTypes DEF Prepared
<1>6. CASE /\ score' = w
           /\ job' = [job EXCEPT ![j] = [c EXCEPT !.sent = FirstBatch(c.rest),
                                                  !.rest = @ \ FirstBatch(@)]]
  <2>1. /\ job'[j].phase = "llm" /\ job'[j].user = c.user /\ job'[j].passes = c.passes
        /\ c.rest \subseteq job'[j].sent \cup job'[j].rest
    <3> DEFINE n == [c EXCEPT !.sent = FirstBatch(c.rest), !.rest = @ \ FirstBatch(@)]
    <3>1. job'[j] = n
      BY <1>1, <1>6
    <3>2. /\ n.phase = "llm" /\ n.user = c.user /\ n.passes = c.passes
          /\ n.sent = FirstBatch(c.rest) /\ n.rest = c.rest \ FirstBatch(c.rest)
      BY <1>1 DEF Job
    <3> HIDE DEF n
    <3> QED
      BY <3>1, <3>2
  <2>2. ~(u = c.user /\ e \in c.sent)
    BY <1>5, <1>6 DEF Prepared
  <2> QED
    BY <1>3, <2>1, <2>2 DEF InWork
<1>7. CASE Launch(j, c.passes, w) /\ c.rest = {}
  <2>1. Prepared(w[u][e], score'[u][e])
    BY <1>1, <1>4, <1>7, LaunchFacts DEF Typed
  <2>2. PICK p \in c.passes : p.user = u /\ e \in p.ids
    BY <1>3, <1>5, <1>7, <2>1
  <2> QED
    BY <1>1, <1>2, <1>4, <1>7, <2>2, LaunchKeeps
<1>8. \/ /\ score' = w
         /\ job' = [job EXCEPT ![j] = [c EXCEPT !.sent = FirstBatch(c.rest),
                                                !.rest = @ \ FirstBatch(@)]]
      \/ Launch(j, c.passes, w) /\ c.rest = {}
  <2>1. \A d \in FirstBatch(c.rest) : Present(d)
    BY <1>2 DEF FirstBatch
  <2> QED
    BY <1>2, <2>1 DEF Answer, w
<1> QED
  BY <1>6, <1>7, <1>8

\* So does any step of a job: what the worker takes from the queue, what a
\* bootstrap finds, and what either works on.
LEMMA JobStepKeeps ==
    ASSUME Typed, Steady, NEW j \in JobIds, JobStep(j),
           NEW u \in Users, NEW e \in Visible[u], Future(e), score'[u][e] = None,
           Awaited(u, e)
    PROVE  Awaited(u, e)'
<1>1. /\ \A i \in JobIds \ {j} : job'[i] = job[i]
      /\ queue \subseteq Events /\ score \in Scores /\ e \in Events
  BY JobStepFacts, ScopeAssumption, TypedJob DEF StepOf, JobMoves, Typed, TypeOK
<1>2. \A i \in JobIds \ {j} : InWork(i, u, e) => InWork(i, u, e)'
  BY <1>1 DEF InWork
<1>3. CASE WorkerTakes(j)
  <2>1. /\ j.kind = "worker" /\ job[j].phase = "idle"
        /\ Launch(j, ForEach(Users, queue), score)
    BY <1>3 DEF WorkerTakes, Merged
  <2>2. ~InWork(j, u, e)
    BY <2>1 DEF InWork
  <2>3. ASSUME e \in queue PROVE InWork(j, u, e)'
    <3> DEFINE p == [turn |-> u, user |-> u, ids |-> queue]
    <3>1. ForEach(Users, queue) \subseteq Pass /\ OneAtATurn(ForEach(Users, queue))
      BY <1>1, ForEachFacts, ForEachTurns
    <3>2. p \in ForEach(Users, queue) /\ p.user = u /\ e \in p.ids
      BY <2>3 DEF ForEach
    <3> HIDE DEF p
    <3> QED
      BY <1>1, <2>1, <3>1, <3>2, LaunchKeeps
  <2> QED
    BY <1>2, <2>2, <2>3 DEF Awaited
<1>4. CASE Runs(j) /\ j.kind = "bootstrap"
  <2>1. Launch(j, BootstrapPasses, score) /\ queue' = queue
    BY <1>4 DEF Runs
  <2>2. BootstrapPasses \in SUBSET Pass /\ OneAtATurn(BootstrapPasses)
    BY BootstrapFacts, BootstrapTurns DEF Typed
  <2>3. score[u][e] = None
    <3>1. Prepared(score[u][e], score'[u][e])
      BY <1>1, <2>1, <2>2, LaunchFacts DEF Typed
    <3>2. score[u][e] \in Row \cup {None}
      BY <1>1 DEF Scores, Rows
    <3> QED
      BY <3>1, <3>2, RowTypes DEF Prepared
  <2>4. e \in Todo(u)
    BY <1>1, <2>3 DEF Todo, Pending
  <2>5. PICK p \in BootstrapPasses : p.user = u /\ e \in p.ids
    BY <2>4, BootstrapTurns
  <2>6. InWork(j, u, e)'
    BY <1>1, <1>4, <2>1, <2>2, <2>5, LaunchKeeps
  <2> QED
    BY <2>6 DEF Awaited
<1>5. ASSUME NEW source \in [job[j].sent -> Rerated], Answer(j, source)
      PROVE  Awaited(u, e)'
  <2>1. queue' = queue
    BY <1>5 DEF Answer
  <2>2. InWork(j, u, e) => InWork(j, u, e)'
    BY <1>5, AnswerKeeps DEF InWork
  <2> QED
    BY <1>2, <2>1, <2>2 DEF Awaited
<1>6. CASE LlmAnswers(j)
  <2>1. AllLlm(j) \in [job[j].sent -> Rerated]
    BY DEF AllLlm, Rerated
  <2> QED
    BY <1>5, <1>6, <2>1 DEF LlmAnswers
<1>7. CASE FallsBack(j)
  BY <1>5, <1>7 DEF FallsBack
<1>8. CASE \/ DailyStarts(j) \/ WatcherProbes(j) \/ ProbeAnswered(j) \/ ProbeFails(j)
           \/ \E us \in SUBSET Users, reach \in SUBSET Events : WindowRequested(j, us, reach)
           \/ \E page \in SUBSET Events : PageVisited(j, page)
           \/ Runs(j) /\ j.kind # "bootstrap"
  <2>1. ~InWork(j, u, e) /\ queue' = queue
    BY <1>8 DEF DailyStarts, WatcherProbes, ProbeAnswered, ProbeFails, WindowRequested,
                PageVisited, Runs, InWork
  <2> QED
    BY <1>2, <2>1 DEF Awaited
<1> QED
  BY <1>3, <1>4, <1>6, <1>7, <1>8 DEF JobStep

\* What a job has to do after its step: passes with turns of their own, and in
\* the call events to come, or those it held before.
InOrder(j) ==
    /\ OneAtATurn(job'[j].passes)
    /\ job'[j].phase = "llm" =>
          \A e \in job'[j].sent \cup job'[j].rest :
             Future(e) \/ (job[j].phase = "llm" /\ e \in job[j].sent \cup job[j].rest)

LEMMA LaunchInOrder ==
    ASSUME Typed, NEW j \in JobIds, NEW ps \in SUBSET Pass, OneAtATurn(ps),
           NEW sc \in Scores, Launch(j, ps, sc)
    PROVE  InOrder(j)
<1>1. /\ job'[j].passes \subseteq ps
      /\ job'[j].phase = "llm" => \A e \in job'[j].sent \cup job'[j].rest : Future(e)
  BY LaunchLeaves
<1>2. OneAtATurn(job'[j].passes)
  BY <1>1 DEF OneAtATurn
<1> QED
  BY <1>1, <1>2 DEF InOrder

LEMMA WaitInOrder ==
    ASSUME Typed, NEW j \in JobIds, NEW c, c.phase # "llm", OneAtATurn(c.passes),
           job' = [job EXCEPT ![j] = c]
    PROVE  InOrder(j)
BY TypedJob DEF InOrder

LEMMA AnswerInOrder ==
    ASSUME Typed, Distinct, NEW j \in JobIds,
           NEW source \in [job[j].sent -> Rerated], Answer(j, source)
    PROVE  InOrder(j)
<1> DEFINE c == job[j]
           w == [score EXCEPT ![c.user] = Upsert(@, c.basis, c.sent, source)]
           n == [c EXCEPT !.sent = FirstBatch(c.rest), !.rest = @ \ FirstBatch(@)]
<1>1. /\ c.phase = "llm" /\ c.user \in Users /\ c \in Job /\ c.passes \subseteq Pass
      /\ OneAtATurn(c.passes) /\ OneAtATurn(Idle.passes)
  BY TypedJob, IdleFacts DEF Answer, OwnJob, Distinct, OneAtATurn
<1>2. w \in Scores
  <2>1. source \in [c.sent -> Rerated] /\ c.sent \in SUBSET Events /\ c.basis \in 0..MaxPrefs
    BY TypedJob
  <2>2. score \in Scores /\ score[c.user] \in Rows
    BY <1>1, TypedJob DEF Scores
  <2>3. Upsert(score[c.user], c.basis, c.sent, source) \in Rows
    <3> HIDE DEF c
    <3>1. ASSUME NEW f \in Rows, NEW b \in 0..MaxPrefs
          PROVE  Upsert(f, b, c.sent, source) \in Rows
      BY <2>1, UpsertFacts
    <3> QED
      BY <2>1, <2>2, <3>1
  <2> HIDE DEF c
  <2> QED
    BY <1>1, <2>2, <2>3 DEF Scores
<1>3. CASE job' = [job EXCEPT ![j] = Idle]
  BY <1>1, <1>3, IdleFacts, WaitInOrder
<1>4. CASE job' = [job EXCEPT ![j] = n]
  <2>1. /\ n.passes = c.passes /\ n.sent = FirstBatch(c.rest)
        /\ n.rest = c.rest \ FirstBatch(c.rest) /\ FirstBatch(c.rest) \subseteq c.rest
    BY <1>1 DEF Job, FirstBatch
  <2>2. job'[j] = n
    BY <1>4, TypedJob
  <2> HIDE DEF n
  <2> QED
    BY <1>1, <2>1, <2>2 DEF InOrder
<1>5. CASE Launch(j, c.passes, w)
  BY <1>1, <1>2, <1>5, LaunchInOrder
<1>6. \/ job' = [job EXCEPT ![j] = Idle]
      \/ job' = [job EXCEPT ![j] = n]
      \/ Launch(j, c.passes, w)
  BY DEF Answer
<1> QED
  BY <1>3, <1>4, <1>5, <1>6

LEMMA JobStepInOrder ==
    ASSUME Typed, Distinct, NEW j \in JobIds, JobStep(j)
    PROVE  InOrder(j)
<1>1. score \in Scores /\ job[j].passes \subseteq Pass /\ OneAtATurn(job[j].passes)
  BY TypedJob DEF Distinct
<1>2. ASSUME NEW us \in SUBSET Users, NEW ids \in SUBSET Events
      PROVE  /\ ForEach(us, ids) \subseteq Pass /\ OneAtATurn(ForEach(us, ids))
             /\ Created(ForEach(us, ids)).phase = "created"
             /\ Created(ForEach(us, ids)).passes = ForEach(us, ids)
  BY ForEachFacts, ForEachTurns, CreatedFacts
<1>3. CASE WorkerTakes(j)
  BY <1>1, <1>2, <1>3, LaunchInOrder DEF WorkerTakes, Merged, Typed, TypeOK
<1>4. CASE DailyStarts(j)
  BY <1>1, <1>2, <1>4, LaunchInOrder DEF DailyStarts
<1>5. CASE WatcherProbes(j)
  <2> DEFINE n == [Idle EXCEPT !.phase = "probe", !.passes = ForEach(RuleUsers, {})]
  <2>1. n.phase = "probe" /\ n.passes = ForEach(RuleUsers, {})
    BY DEF Idle
  <2>2. OneAtATurn(n.passes)
    BY <2>1, ForEachTurns
  <2>3. job' = [job EXCEPT ![j] = n]
    BY <1>5 DEF WatcherProbes
  <2> HIDE DEF n
  <2> QED
    BY <2>1, <2>2, <2>3, WaitInOrder
<1>6. CASE ProbeAnswered(j)
  BY <1>1, <1>6, LaunchInOrder DEF ProbeAnswered
<1>7. CASE ProbeFails(j)
  BY <1>7, IdleFacts, WaitInOrder DEF ProbeFails, OneAtATurn
<1>8. ASSUME NEW us \in SUBSET Users, NEW reach \in SUBSET Events, WindowRequested(j, us, reach)
      PROVE  InOrder(j)
  BY <1>2, <1>8, WaitInOrder DEF WindowRequested
<1>9. ASSUME NEW page \in SUBSET Events, PageVisited(j, page)
      PROVE  InOrder(j)
  <2> DEFINE unscored == {e \in page \cap Visible[j.user] :
                            Future(e) /\ score[j.user][e] = None}
  <2>1. j.kind = "page" /\ job' = [job EXCEPT ![j] = Created(ForEach({j.user}, unscored))]
    BY <1>9 DEF PageVisited
  <2>2. {j.user} \subseteq Users /\ unscored \subseteq Events
    BY <2>1, TypedJob DEF UserKinds
  <2> HIDE DEF unscored
  <2> QED
    BY <1>2, <2>1, <2>2, WaitInOrder
<1>10. CASE Runs(j)
  BY <1>1, <1>10, BootstrapFacts, BootstrapTurns, LaunchInOrder DEF Runs, Typed
<1>11. CASE LlmAnswers(j)
  <2>1. AllLlm(j) \in [job[j].sent -> Rerated]
    BY DEF AllLlm, Rerated
  <2> QED
    BY <1>11, <2>1, AnswerInOrder DEF LlmAnswers
<1>12. CASE FallsBack(j)
  BY <1>12, AnswerInOrder DEF FallsBack
<1> QED
  BY <1>3, <1>4, <1>5, <1>6, <1>7, <1>8, <1>9, <1>10, <1>11, <1>12 DEF JobStep

LEMMA StartupSteady ==
    \A j \in JobIds : AtStartup[j].phase # "llm" /\ OneAtATurn(AtStartup[j].passes)
<1>1. Created({}).phase = "created" /\ Created({}).passes = {}
  BY CreatedFacts
<1> QED
  BY <1>1, IdleFacts DEF AtStartup, OneAtATurn

LEMMA SteadyNext ==
    ASSUME ~EventsVanish, Typed, Steady, [Next]_vars
    PROVE  Steady'
<1>1. ASSUME NEW j \in JobIds, JobStep(j) PROVE Steady'
  <2>1. InOrder(j)
    BY <1>1, JobStepInOrder DEF Steady
  <2>2. ev' = ev /\ \A i \in JobIds \ {j} : job'[i] = job[i]
    BY <1>1, JobStepFacts DEF StepOf, JobMoves
  <2> QED
    BY <2>1, <2>2 DEF Steady, Distinct, HeldPresent, InOrder, Present, Future, OneAtATurn
<1>2. ASSUME NEW us \in SUBSET Users, Invalidate(us) PROVE Steady'
  <2>1. \A u \in us : OneAtATurn(ForEach({u}, {}))
    BY ForEachTurns
  <2>2. /\ ev' = ev
        /\ \A j \in JobIds :
              \/ job'[j] = job[j]
              \/ job'[j].phase = "created" /\ OneAtATurn(job'[j].passes)
    <3>1. ev' = ev
      BY <1>2, InvalidateFacts
    <3>2. ASSUME NEW j \in JobIds
          PROVE  \/ job'[j] = job[j]
                 \/ job'[j].phase = "created" /\ OneAtATurn(job'[j].passes)
      <4>1. IF j.kind = "debounced" /\ j.user \in us
            THEN job'[j].phase = "created" /\ job'[j].passes = ForEach({j.user}, {})
            ELSE job'[j] = job[j]
        BY <1>2, InvalidateFacts
      <4> QED
        BY <2>1, <4>1
    <3> QED
      BY <3>1, <3>2
  <2> QED
    BY <2>2 DEF Steady, Distinct, HeldPresent, Present, OneAtATurn
<1>3. CASE Restart
  BY <1>3, StartupSteady DEF Restart, Steady, Distinct, HeldPresent
<1>4. CASE Bystander
  <2>1. job' = job
    BY <1>4, BystanderSparesJobs
  <2>2. \A j \in JobIds : job[j].phase = "llm" => job[j].user \in Users
    BY TypedJob DEF OwnJob
  <2>3. \A j \in JobIds : job[j].phase = "llm" =>
           \A e \in job[j].sent \cup job[j].rest : e \in Events /\ Present(e)
    BY TypedJob DEF Steady, HeldPresent
  <2>4. ASSUME NEW e \in Events, Present(e), \E u \in Users : Held(u, e)
        PROVE  Present(e)'
    <3>1. ev \in [Events -> {"absent", "later", "soon", "over", "gone"}]
      BY DEF Typed, TypeOK
    <3> QED
      BY <1>4, <2>4, <3>1
         DEF Bystander, Toggle, HalfToggle, LikeToggled, DeleteLike, NewEvent,
             EventFetchedAgain, EventDeleted, TimePasses, WindowFlips, vars, Present, Future
  <2> QED
    BY <2>1, <2>2, <2>3, <2>4 DEF Steady, Distinct, HeldPresent, Held, HeldBy
<1>5. CASE OnlyProfile
  BY <1>5 DEF OnlyProfile, Steady, Distinct, HeldPresent, Present, Future
<1> QED
  BY <1>1, <1>2, <1>3, <1>4, <1>5, NextKinds

\* Nothing that is queued is dropped by any step, if schedule shifts remove
\* no event that is still to come and whoever restarts the process bootstraps
\* it (scoring.py:465-568, 944-983, 1064-1102).
THEOREM QueueIsServed ==
    ~EventsVanish /\ (MaxRestarts = 0 \/ "bootstrap" \in Kinds) => (Spec => NoneDropped)
<1> SUFFICES ASSUME ~EventsVanish, MaxRestarts = 0 \/ "bootstrap" \in Kinds
             PROVE  Spec => NoneDropped
  OBVIOUS
<1>1. Init => Steady
  BY StartupSteady DEF Init, Steady, Distinct, HeldPresent
<1>2. Typed /\ Steady /\ [Next]_vars => Steady'
  BY SteadyNext
<1>3. Typed /\ Steady /\ [Next]_vars =>
        [\A u \in Users : \A e \in Visible[u] :
           Awaited(u, e) => Awaited(u, e)' \/ score'[u][e] # None \/ ~Future(e)']_vars
  <2> SUFFICES ASSUME Typed, Steady, [Next]_vars,
                      NEW u \in Users, NEW e \in Visible[u],
                      Awaited(u, e), score'[u][e] = None, Future(e)'
               PROVE  Awaited(u, e)'
    OBVIOUS
  <2>1. ASSUME NEW j \in JobIds, JobStep(j) PROVE Awaited(u, e)'
    <3>1. Future(e)
      BY <2>1, JobStepFacts DEF StepOf, Future
    <3> QED
      BY <2>1, <3>1, JobStepKeeps
  <2>2. ASSUME NEW us \in SUBSET Users, Invalidate(us) PROVE Awaited(u, e)'
    <3>1. queue' = queue /\ \A j \in JobIds : j.kind # "debounced" => job'[j] = job[j]
      BY <2>2, InvalidateFacts
    <3> QED
      BY <3>1 DEF Awaited, InWork
  <2>3. CASE Restart
    <3>1. "bootstrap" \in Kinds
      BY <2>3, Numbers DEF Restart, Typed, TypeOK
    <3> DEFINE b == [kind |-> "bootstrap", user |-> None]
    <3>2. b \in JobIds /\ b.kind = "bootstrap"
      BY <3>1 DEF JobIds, GlobalKinds
    <3>3. Created({}).phase = "created"
      BY CreatedFacts
    <3> HIDE DEF b
    <3>4. job'[b].phase = "created"
      BY <2>3, <3>2, <3>3 DEF Restart, AtStartup
    <3> QED
      BY <3>2, <3>4 DEF Awaited, InWork
  <2>4. CASE Bystander
    <3>1. job' = job /\ queue \subseteq queue'
      BY <2>4, BystanderSparesJobs
         DEF Bystander, Toggle, HalfToggle, LikeToggled, DeleteLike, NewEvent,
             EventFetchedAgain, EventDeleted, TimePasses, WindowFlips, vars
    <3> QED
      BY <3>1 DEF Awaited, InWork
  <2>5. CASE OnlyProfile
    BY <2>5 DEF OnlyProfile, Awaited, InWork
  <2> QED
    BY <2>1, <2>2, <2>3, <2>4, <2>5, NextKinds
<1> QED
  BY <1>1, <1>2, <1>3, TypedHolds, PTL DEF Spec, NoneDropped

=============================================================================
