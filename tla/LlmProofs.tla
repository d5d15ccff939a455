------------------------------- MODULE LlmProofs -------------------------------
(***************************************************************************)
(* Proofs about the calls to the language model (LlmClient), that the       *)
(* scoring passes and translation tasks of LlmCallers make only such calls, *)
(* that no two tasks translate a language, and that a pass scores each      *)
(* event once, whatever is answered.                                        *)
(***************************************************************************)
EXTENDS LlmCallers, TLAPS, SequenceTheorems, FiniteSetTheorems

-----------------------------------------------------------------------------
(* The queue of the semaphore.                                             *)

QueueOK ==
    /\ \A i \in 1..Len(waiting) : call[waiting[i]].pc = "wait"
    /\ \A i, j \in 1..Len(waiting) : waiting[i] = waiting[j] => i = j
    /\ \A c \in Callers : call[c].pc = "wait" => \E i \in 1..Len(waiting) : waiting[i] = c

Kept ==
    /\ OneRequest
    /\ free <=> \A c \in Callers : ~Asking(c)
    /\ free => waiting = <<>>
    /\ QueueOK

\* SemaphoreKept in terms of positions.
LEMMA KeptParts == waiting \in Seq(Callers) => (SemaphoreKept <=> Kept)
<1> SUFFICES ASSUME waiting \in Seq(Callers) PROVE SemaphoreKept <=> Kept
  OBVIOUS
<1>1. DOMAIN waiting = 1..Len(waiting)
  BY LenProperties
<1> QED
  BY <1>1 DEF SemaphoreKept, Kept, QueueOK

LEMMA KeptPartsNext == waiting' \in Seq(Callers) => (SemaphoreKept' <=> Kept')
<1>1. (waiting \in Seq(Callers) => (SemaphoreKept <=> Kept))'
  BY KeptParts, PTL
<1> QED
  BY <1>1

\* The first in the queue, and the queue without it.
LEMMA HeadFacts ==
    ASSUME waiting \in Seq(Callers), waiting # <<>>, QueueOK
    PROVE  /\ Len(waiting) \in Nat \ {0}
           /\ Head(waiting) \in Callers /\ Head(waiting) = waiting[1]
           /\ call[Head(waiting)].pc = "wait"
           /\ Tail(waiting) \in Seq(Callers)
           /\ Len(Tail(waiting)) = Len(waiting) - 1
           /\ \A i \in 1..Len(Tail(waiting)) : Tail(waiting)[i] = waiting[i + 1]
<1>1. Len(waiting) \in Nat \ {0}
  BY EmptySeq
<1>2. /\ Head(waiting) \in Callers /\ Tail(waiting) \in Seq(Callers)
      /\ Len(Tail(waiting)) = Len(waiting) - 1
      /\ \A i \in 1..Len(Tail(waiting)) : Tail(waiting)[i] = waiting[i + 1]
  BY HeadTailProperties
<1>3. Head(waiting) = waiting[1]
  BY DEF Head
<1> QED
  BY <1>1, <1>2, <1>3 DEF QueueOK

\* Handed wakes the first and changes nothing else.
LEMMA HandedFacts ==
    ASSUME waiting \in Seq(Callers), QueueOK, NEW cl \in [Callers -> Call]
    PROVE  /\ Handed(cl) \in [Callers -> Call]
           /\ waiting = <<>> => Handed(cl) = cl
           /\ waiting # <<>> =>
                /\ Handed(cl)[Head(waiting)] = [cl[Head(waiting)] EXCEPT !.pc = "ask"]
                /\ \A d \in Callers : d # Head(waiting) => Handed(cl)[d] = cl[d]
<1>1. CASE waiting = <<>>
  BY <1>1 DEF Handed
<1>2. CASE waiting # <<>>
  <2> DEFINE h == Head(waiting)
  <2>1. h \in Callers
    BY <1>2, HeadFacts
  <2>2. [cl[h] EXCEPT !.pc = "ask"] \in Call
    BY <2>1 DEF Call
  <2>3. Handed(cl) = [cl EXCEPT ![h] = [cl[h] EXCEPT !.pc = "ask"]]
    BY <1>2, <2>1 DEF Handed
  <2> HIDE DEF h
  <2>4. /\ Handed(cl) \in [Callers -> Call]
        /\ Handed(cl)[h] = [cl[h] EXCEPT !.pc = "ask"]
        /\ \A d \in Callers : d # h => Handed(cl)[d] = cl[d]
    BY <2>1, <2>2, <2>3
  <2> QED
    BY <1>2, <2>4 DEF h
<1> QED
  BY <1>1, <1>2

\* d was first in the queue, and makes its request now.
WokenUp(d) == call[d].pc = "wait" /\ call'[d] = [call[d] EXCEPT !.pc = "ask"]

\* c, which has made a request, leaves: the first in the queue goes on.
LEMMA LeaveKept ==
    ASSUME ClientTypeOK, SemaphoreKept, NEW c \in Callers, Asking(c),
           NEW left \in [Callers -> Call],
           left[c].pc = "idle", \A d \in Callers : d # c => left[d] = call[d],
           call' = Handed(left), PassedOn
    PROVE  /\ call' \in [Callers -> Call] /\ waiting' \in Seq(Callers) /\ free' \in BOOLEAN
           /\ SemaphoreKept'
           /\ call'[c] = left[c]
           /\ \A d \in Callers : d # c => \/ call'[d] = call[d]
                                         \/ WokenUp(d)
<1>0. /\ waiting \in Seq(Callers) /\ call \in [Callers -> Call]
      /\ OneRequest /\ QueueOK /\ ~free /\ call[c].pc = "ask"
  BY KeptParts DEF Kept, ClientTypeOK, Asking
<1>1. CASE waiting = <<>>
  <2>1. call' = left /\ waiting' = <<>> /\ free' = TRUE
    BY <1>0, <1>1, HandedFacts DEF PassedOn
  <2>2. \A d \in Callers : call'[d].pc = "idle"
    <3>1. Len(waiting) = 0
      BY <1>1, EmptySeq
    <3>2. \A d \in Callers : call[d].pc \in {"idle", "wait", "ask"}
      BY <1>0 DEF Call
    <3> QED
      BY <1>0, <2>1, <3>1, <3>2 DEF QueueOK, OneRequest, Asking
  <2>3. waiting' \in Seq(Callers) /\ Len(waiting') = 0
    BY <2>1, EmptySeq
  <2>4. QueueOK'
    BY <2>2, <2>3 DEF QueueOK
  <2>5. OneRequest' /\ (free <=> \A d \in Callers : ~Asking(d))'
    BY <2>1, <2>2 DEF OneRequest, Asking
  <2> QED
    BY <2>1, <2>3, <2>4, <2>5, KeptPartsNext DEF Kept
<1>2. CASE waiting # <<>>
  <2> DEFINE h == Head(waiting)
             tail == Tail(waiting)
  <2>1. /\ h \in Callers /\ h = waiting[1] /\ call[h].pc = "wait" /\ h # c
        /\ tail \in Seq(Callers) /\ Len(tail) = Len(waiting) - 1
        /\ Len(waiting) \in Nat \ {0}
        /\ \A i \in 1..Len(tail) : tail[i] = waiting[i + 1]
    BY <1>0, <1>2, HeadFacts
  <2>2. waiting' = tail /\ free' = FALSE
    BY <1>2 DEF PassedOn
  <2>3. /\ call' \in [Callers -> Call]
        /\ call'[h] = [call[h] EXCEPT !.pc = "ask"]
        /\ \A d \in Callers : d # h => call'[d] = left[d]
    BY <1>0, <1>2, <2>1, HandedFacts
  <2> HIDE DEF h, tail
  <2>4. call'[h].pc = "ask" /\ \A d \in Callers : d # h => call'[d].pc # "ask"
    <3>1. call'[h].pc = "ask"
      BY <1>0, <2>1, <2>3 DEF Call
    <3> QED
      BY <1>0, <2>1, <2>3, <3>1 DEF OneRequest, Asking
  <2>5. OneRequest' /\ (free <=> \A d \in Callers : ~Asking(d))'
    BY <2>1, <2>2, <2>4 DEF OneRequest, Asking
  <2>6. QueueOK'
    <3>1. ASSUME NEW i \in 1..Len(tail)
          PROVE  call'[tail[i]].pc = "wait"
      <4>1. /\ i + 1 \in 1..Len(waiting) /\ 1 \in 1..Len(waiting)
            /\ tail[i] = waiting[i + 1] /\ tail[i] \in Callers
        BY <2>1, ElementOfSeq
      <4>2. tail[i] # h /\ call[tail[i]].pc = "wait" /\ tail[i] # c
        BY <1>0, <2>1, <4>1 DEF QueueOK
      <4> QED
        BY <2>3, <4>1, <4>2
    <3>2. ASSUME NEW i \in 1..Len(tail), NEW j \in 1..Len(tail), tail[i] = tail[j]
          PROVE  i = j
      BY <1>0, <2>1, <3>2 DEF QueueOK
    <3>3. ASSUME NEW d \in Callers, call'[d].pc = "wait"
          PROVE  \E i \in 1..Len(tail) : tail[i] = d
      <4>1. d # h /\ d # c /\ call[d].pc = "wait"
        BY <2>1, <2>3, <2>4, <3>3
      <4>2. PICK i \in 1..Len(waiting) : waiting[i] = d
        BY <1>0, <4>1 DEF QueueOK
      <4>3. i # 1 /\ i - 1 \in 1..Len(tail) /\ tail[i - 1] = d
        BY <2>1, <4>1, <4>2
      <4> QED
        BY <4>3
    <3> QED
      BY <2>2, <3>1, <3>2, <3>3 DEF QueueOK
  <2>8. SemaphoreKept'
    BY <2>1, <2>2, <2>5, <2>6, KeptPartsNext DEF Kept
  <2> QED
    BY <2>1, <2>2, <2>3, <2>8 DEF WokenUp
<1> QED
  BY <1>0, <1>1, <1>2, HandedFacts

\* c leaves and makes another request at once: it is last in the queue, if
\* there is one.
LEMMA RequeueKept ==
    ASSUME ClientTypeOK, SemaphoreKept, NEW c \in Callers, Asking(c),
           NEW left \in [Callers -> Call],
           left[c].pc = IF waiting = <<>> THEN "ask" ELSE "wait",
           \A d \in Callers : d # c => left[d] = call[d],
           call' = Handed(left), free' = free,
           waiting' = IF waiting = <<>> THEN <<>> ELSE Append(Tail(waiting), c)
    PROVE  /\ call' \in [Callers -> Call] /\ waiting' \in Seq(Callers) /\ free' \in BOOLEAN
           /\ SemaphoreKept'
           /\ call'[c] = left[c]
           /\ \A d \in Callers : d # c => \/ call'[d] = call[d]
                                         \/ WokenUp(d)
<1>0. /\ waiting \in Seq(Callers) /\ call \in [Callers -> Call] /\ free \in BOOLEAN
      /\ OneRequest /\ QueueOK /\ ~free /\ call[c].pc = "ask"
  BY KeptParts DEF Kept, ClientTypeOK, Asking
<1>1. CASE waiting = <<>>
  <2>1. call' = left /\ waiting' = <<>>
    BY <1>0, <1>1, HandedFacts
  <2>2. \A d \in Callers : call'[d].pc = call[d].pc
    BY <1>0, <1>1, <2>1
  <2>3. Kept'
    BY <1>0, <1>1, <2>1, <2>2 DEF Kept, OneRequest, Asking, QueueOK
  <2> QED
    BY <1>0, <1>1, <2>1, <2>3, KeptPartsNext
<1>2. CASE waiting # <<>>
  <2> DEFINE h == Head(waiting)
             tail == Tail(waiting)
  <2>1. /\ h \in Callers /\ h = waiting[1] /\ call[h].pc = "wait" /\ h # c
        /\ tail \in Seq(Callers) /\ Len(tail) = Len(waiting) - 1
        /\ Len(waiting) \in Nat \ {0}
        /\ \A i \in 1..Len(tail) : tail[i] = waiting[i + 1]
    BY <1>0, <1>2, HeadFacts
  <2>2. waiting' = Append(tail, c) /\ ~free'
    BY <1>0, <1>2
  <2>3. /\ call' \in [Callers -> Call]
        /\ call'[h] = [call[h] EXCEPT !.pc = "ask"]
        /\ \A d \in Callers : d # h => call'[d] = left[d]
    BY <1>0, <1>2, <2>1, HandedFacts
  <2> HIDE DEF h, tail
  <2>4. call'[h].pc = "ask" /\ \A d \in Callers : d # h => call'[d].pc # "ask"
    <3>1. call'[h].pc = "ask"
      BY <1>0, <2>1, <2>3 DEF Call
    <3> QED
      BY <1>0, <1>2, <2>1, <2>3, <3>1 DEF OneRequest, Asking
  <2>5. OneRequest' /\ (free <=> \A d \in Callers : ~Asking(d))'
    BY <2>1, <2>2, <2>4 DEF OneRequest, Asking
  <2>6. /\ waiting' \in Seq(Callers) /\ Len(waiting') = Len(tail) + 1
        /\ waiting'[Len(tail) + 1] = c /\ Len(tail) \in Nat
        /\ \A i \in 1..Len(tail) : waiting'[i] = tail[i]
    <3>1. Len(tail) \in Nat
      BY <2>1
    <3>2. /\ Append(tail, c) \in Seq(Callers) /\ Len(Append(tail, c)) = Len(tail) + 1
          /\ \A i \in 1..Len(tail) : Append(tail, c)[i] = tail[i]
          /\ Append(tail, c)[Len(tail) + 1] = c
      BY <2>1, AppendProperties
    <3> QED
      BY <2>2, <3>1, <3>2
  <2>7. QueueOK'
    <3>1. ASSUME NEW i \in 1..Len(tail)
          PROVE  /\ call'[tail[i]].pc = "wait" /\ tail[i] # c
      <4>1. /\ i + 1 \in 1..Len(waiting) /\ 1 \in 1..Len(waiting)
            /\ tail[i] = waiting[i + 1] /\ tail[i] \in Callers
        BY <2>1, ElementOfSeq
      <4>2. tail[i] # h /\ call[tail[i]].pc = "wait" /\ tail[i] # c
        BY <1>0, <2>1, <4>1 DEF QueueOK
      <4> QED
        BY <2>3, <4>1, <4>2
    <3>2. ASSUME NEW i \in 1..Len(tail), NEW j \in 1..Len(tail), tail[i] = tail[j]
          PROVE  i = j
      BY <1>0, <2>1, <3>2 DEF QueueOK
    <3>3. ASSUME NEW d \in Callers, call'[d].pc = "wait", d # c
          PROVE  \E i \in 1..Len(tail) : tail[i] = d
      <4>1. d # h /\ call[d].pc = "wait"
        BY <2>1, <2>3, <2>4, <3>3
      <4>2. PICK i \in 1..Len(waiting) : waiting[i] = d
        BY <1>0, <4>1 DEF QueueOK
      <4>3. i # 1 /\ i - 1 \in 1..Len(tail) /\ tail[i - 1] = d
        BY <2>1, <4>1, <4>2
      <4> QED
        BY <4>3
    <3>4. call'[c].pc = "wait"
      BY <1>2, <2>1, <2>3
    <3>5. \A i \in 1..Len(waiting') : call'[waiting'[i]].pc = "wait"
      BY <2>6, <3>1, <3>4
    <3>6. \A i, j \in 1..Len(waiting') : waiting'[i] = waiting'[j] => i = j
      BY <2>6, <3>1, <3>2
    <3>7. ASSUME NEW d \in Callers, call'[d].pc = "wait"
          PROVE  \E i \in 1..Len(waiting') : waiting'[i] = d
      <4>1. CASE d = c
        BY <2>6, <4>1
      <4>2. CASE d # c
        BY <2>6, <3>3, <3>7, <4>2
      <4> QED
        BY <4>1, <4>2
    <3> QED
      BY <3>5, <3>6, <3>7 DEF QueueOK
  <2>8. SemaphoreKept'
    BY <2>2, <2>5, <2>6, <2>7, KeptPartsNext DEF Kept
  <2>9. /\ call'[c] = left[c]
        /\ \A d \in Callers : d # c /\ d # h => call'[d] = call[d]
    BY <2>1, <2>3
  <2> QED
    BY <1>0, <2>1, <2>3, <2>6, <2>8, <2>9 DEF WokenUp
<1> QED
  BY <1>0, <1>1, <1>2

\* c begins a call.
LEMMA AskKept ==
    ASSUME ClientTypeOK, SemaphoreKept, NEW c \in Callers, Ask(c)
    PROVE  /\ call' \in [Callers -> Call] /\ waiting' \in Seq(Callers) /\ free' \in BOOLEAN
           /\ SemaphoreKept'
           /\ call'[c] = [pc |-> IF free THEN "ask" ELSE "wait",
                          attempt |-> 1, raw |-> 0, result |-> Nothing]
           /\ \A d \in Callers : d # c => call'[d] = call[d]
<1> DEFINE new == [pc |-> IF free THEN "ask" ELSE "wait",
                   attempt |-> 1, raw |-> 0, result |-> Nothing]
<1>0. /\ waiting \in Seq(Callers) /\ call \in [Callers -> Call]
      /\ Kept /\ call[c].pc = "idle"
  BY KeptParts DEF ClientTypeOK, Ask
<1>1. new \in Call /\ new.pc = IF free THEN "ask" ELSE "wait"
  BY DEF Call, Result, Nothing
<1>2. /\ call' = [call EXCEPT ![c] = new] /\ free' = FALSE
      /\ waiting' = IF free THEN waiting ELSE Append(waiting, c)
  BY DEF Ask
<1> HIDE DEF new
<1>3. /\ call' \in [Callers -> Call] /\ call'[c] = new
      /\ \A d \in Callers : d # c => call'[d] = call[d]
  BY <1>0, <1>1, <1>2
<1>4. CASE free
  <2>1. waiting = <<>> /\ waiting' = <<>> /\ Len(waiting') = 0
        /\ \A d \in Callers : call[d].pc = "idle"
    <3>1. waiting = <<>> /\ Len(waiting) = 0
      BY <1>0, <1>4, EmptySeq DEF Kept
    <3>2. \A d \in Callers : call[d].pc \notin {"ask", "wait"}
      BY <1>0, <1>4, <3>1 DEF Kept, QueueOK, Asking
    <3> QED
      BY <1>0, <1>2, <1>4, <3>1, <3>2 DEF Call
  <2>2. Kept'
    BY <1>1, <1>2, <1>3, <1>4, <2>1 DEF Kept, OneRequest, Asking, QueueOK
  <2> QED
    BY <1>0, <1>2, <1>3, <1>4, <2>2, KeptPartsNext DEF new
<1>5. CASE ~free
  <2>1. /\ waiting' \in Seq(Callers) /\ Len(waiting') = Len(waiting) + 1
        /\ Len(waiting) \in Nat /\ waiting'[Len(waiting) + 1] = c
        /\ \A i \in 1..Len(waiting) : waiting'[i] = waiting[i]
        /\ \A i \in 1..Len(waiting) : waiting[i] \in Callers
    BY <1>0, <1>2, <1>5, AppendProperties, LenProperties, ElementOfSeq
  <2>2. call'[c].pc = "wait"
    BY <1>1, <1>3, <1>5
  <2>3. \A i \in 1..Len(waiting) : waiting[i] # c /\ call[waiting[i]].pc = "wait"
    BY <1>0 DEF Kept, QueueOK
  <2>4. QueueOK'
    <3>1. \A i \in 1..Len(waiting') : call'[waiting'[i]].pc = "wait"
      BY <1>3, <2>1, <2>2, <2>3
    <3>2. \A i, j \in 1..Len(waiting') : waiting'[i] = waiting'[j] => i = j
      BY <1>0, <2>1, <2>3 DEF Kept, QueueOK
    <3>3. ASSUME NEW d \in Callers, call'[d].pc = "wait"
          PROVE  \E i \in 1..Len(waiting') : waiting'[i] = d
      <4>1. CASE d = c
        BY <2>1, <4>1
      <4>2. CASE d # c
        <5>1. PICK i \in 1..Len(waiting) : waiting[i] = d
          BY <1>0, <1>3, <3>3, <4>2 DEF Kept, QueueOK
        <5> QED
          BY <2>1, <5>1
      <4> QED
        BY <4>1, <4>2
    <3> QED
      BY <3>1, <3>2, <3>3 DEF QueueOK
  <2>5. Kept'
    BY <1>0, <1>2, <1>3, <1>5, <2>2, <2>4 DEF Kept, OneRequest, Asking
  <2> QED
    BY <1>2, <1>3, <2>1, <2>5, KeptPartsNext DEF new
<1> QED
  BY <1>4, <1>5

\* c is cancelled while it waits.
LEMMA GiveUpKept ==
    ASSUME ClientTypeOK, SemaphoreKept, NEW c \in Callers, CancelledWaiting(c)
    PROVE  /\ call' \in [Callers -> Call] /\ waiting' \in Seq(Callers) /\ free' \in BOOLEAN
           /\ SemaphoreKept'
           /\ call'[c] = Idle(Nothing)
           /\ \A d \in Callers : d # c => call'[d] = call[d]
<1>0. /\ waiting \in Seq(Callers) /\ call \in [Callers -> Call] /\ free \in BOOLEAN
      /\ Kept /\ Len(waiting) \in Nat
      /\ \A i \in 1..Len(waiting) : waiting[i] \in Callers
  BY KeptParts, LenProperties, ElementOfSeq DEF ClientTypeOK
<1>1. PICK i \in 1..Len(waiting) : waiting[i] = c /\ waiting' = Without(i)
  BY DEF CancelledWaiting
<1>2. Idle(Nothing) \in Call /\ Idle(Nothing).pc = "idle"
  BY DEF Idle, Nothing, Call, Result
<1>3. /\ call' \in [Callers -> Call] /\ call'[c] = Idle(Nothing) /\ free' = free
      /\ \A d \in Callers : d # c => call'[d] = call[d]
  BY <1>0, <1>2 DEF CancelledWaiting
<1> DEFINE n == Len(waiting) - 1
<1>4. n \in Nat /\ waiting' \in [1..n -> Callers]
      /\ \A j \in 1..n : waiting'[j] = IF j < i THEN waiting[j] ELSE waiting[j + 1]
  BY <1>0, <1>1 DEF Without
<1>5. waiting' \in Seq(Callers) /\ Len(waiting') = n
  <2>1. waiting' \in Seq(Callers)
    BY <1>4, SeqDef
  <2>2. DOMAIN waiting' = 1..n /\ DOMAIN waiting' = 1..Len(waiting') /\ Len(waiting') \in Nat
    BY <1>4, <2>1, LenProperties
  <2> QED
    BY <1>4, <2>1, <2>2
<1>6. waiting # <<>> /\ ~free /\ call[c].pc = "wait"
  <2>1. waiting # <<>>
    BY <1>1, EmptySeq
  <2> QED
    BY <1>0, <1>1, <2>1 DEF Kept, QueueOK
<1> HIDE DEF n
<1>7. OneRequest' /\ ~(\A d \in Callers : ~Asking(d))'
  BY <1>0, <1>2, <1>3, <1>6 DEF Kept, OneRequest, Asking
\* The place in the old queue of the j-th in the new one.
<1>8. ASSUME NEW j \in 1..n
      PROVE  \E k \in 1..Len(waiting) :
                 k # i /\ k = (IF j < i THEN j ELSE j + 1) /\ waiting'[j] = waiting[k]
  BY <1>0, <1>4 DEF n
<1>9. QueueOK'
  <2>1. ASSUME NEW j \in 1..n
        PROVE  call'[waiting'[j]].pc = "wait"
    <3>1. PICK k \in 1..Len(waiting) : k # i /\ waiting'[j] = waiting[k]
      BY <1>8
    <3>2. waiting[k] # c /\ waiting[k] \in Callers /\ call[waiting[k]].pc = "wait"
      BY <1>0, <1>1, <3>1 DEF Kept, QueueOK
    <3> QED
      BY <1>3, <3>1, <3>2
  <2>2. ASSUME NEW j \in 1..n, NEW k \in 1..n, waiting'[j] = waiting'[k]
        PROVE  j = k
    <3>1. PICK a \in 1..Len(waiting) : a = (IF j < i THEN j ELSE j + 1) /\ waiting'[j] = waiting[a]
      BY <1>8
    <3>2. PICK b \in 1..Len(waiting) : b = (IF k < i THEN k ELSE k + 1) /\ waiting'[k] = waiting[b]
      BY <1>8
    <3>3. a = b
      BY <1>0, <2>2, <3>1, <3>2 DEF Kept, QueueOK
    <3> QED
      BY <1>1, <1>4, <3>1, <3>2, <3>3
  <2>3. ASSUME NEW d \in Callers, call'[d].pc = "wait"
        PROVE  \E j \in 1..n : waiting'[j] = d
    <3>1. d # c /\ call[d].pc = "wait"
      BY <1>2, <1>3, <2>3
    <3>2. PICK k \in 1..Len(waiting) : waiting[k] = d
      BY <1>0, <3>1 DEF Kept, QueueOK
    <3>3. k # i
      BY <1>1, <3>1, <3>2
    <3>4. CASE k < i
      <4>1. k \in 1..n /\ waiting'[k] = d
        BY <1>0, <1>1, <1>4, <3>2, <3>4 DEF n
      <4> QED
        BY <4>1
    <3>5. CASE k > i
      <4>1. k - 1 \in 1..n /\ waiting'[k - 1] = d
        BY <1>0, <1>1, <1>4, <3>2, <3>5 DEF n
      <4> QED
        BY <4>1
    <3> QED
      BY <1>0, <3>3, <3>4, <3>5
  <2> QED
    BY <1>5, <2>1, <2>2, <2>3 DEF QueueOK
<1>10. Kept'
  BY <1>3, <1>6, <1>7, <1>9 DEF Kept
<1> QED
  BY <1>0, <1>3, <1>5, <1>10, KeptPartsNext

-----------------------------------------------------------------------------
(* Whose usage it is.                                                      *)

\* What a second request may fall back on is the text the latest usage
\* belongs to.
RawIsUsage ==
    \A c \in Callers :
        call[c].pc # "idle" => /\ call[c].raw # 0 => usage[c].of = call[c].raw
                               /\ call[c].attempt = 1 => call[c].raw = 0

LEMMA RecordedFacts ==
    ASSUME ClientTypeOK, NEW c \in Callers, NEW reply \in Replies, NEW full \in BOOLEAN
    PROVE  /\ Recorded(c, reply, full) \in [Callers -> Usage]
           /\ reply \notin {"failed", "garbled"}
              => Recorded(c, reply, full)[c].of = call[c].attempt
           /\ reply \in {"failed", "garbled"} => Recorded(c, reply, full) = usage
           /\ \A d \in Callers : d # c => Recorded(c, reply, full)[d] = usage[d]
<1> DEFINE new == [of |-> call[c].attempt, full |-> full]
<1>1. new \in Usage /\ new.of = call[c].attempt /\ usage \in [Callers -> Usage]
  BY DEF ClientTypeOK, Call, Usage
<1> HIDE DEF new
<1>2. Recorded(c, reply, full) = IF reply \in {"failed", "garbled"} THEN usage
                                 ELSE [usage EXCEPT ![c] = new]
  BY DEF Recorded, new
<1> QED
  BY <1>1, <1>2

LEMMA ReturnedFacts ==
    ASSUME ClientTypeOK, NEW c \in Callers, NEW reply \in Replies
    PROVE  /\ RawAfter(c, reply) \in 0..2
           /\ Returned(c, reply) \in Result
           /\ reply = "json" => Returned(c, reply).of = call[c].attempt
           /\ reply \in Unparsable => Returned(c, reply).of = RawAfter(c, reply)
           /\ reply \notin {"json"} \cup Unparsable => Returned(c, reply).of = 0
           /\ reply \in {"prose", "null", "json"} => RawAfter(c, reply) = call[c].attempt
           /\ reply = "empty" => RawAfter(c, reply) = 0
           /\ reply \in {"failed", "garbled"} => RawAfter(c, reply) = call[c].raw
<1>1. call[c].attempt \in 1..2 /\ call[c].raw \in 0..2
  BY DEF ClientTypeOK, Call
<1>2. /\ RawAfter(c, reply) \in 0..2
      /\ reply \in {"prose", "null", "json"} => RawAfter(c, reply) = call[c].attempt
      /\ reply = "empty" => RawAfter(c, reply) = 0
      /\ reply \in {"failed", "garbled"} => RawAfter(c, reply) = call[c].raw
  BY <1>1 DEF RawAfter, Replies
<1>3. /\ Returned(c, reply) \in Result
      /\ reply = "json" => Returned(c, reply).of = call[c].attempt
      /\ reply \in Unparsable => Returned(c, reply).of = RawAfter(c, reply)
      /\ reply \notin {"json"} \cup Unparsable => Returned(c, reply).of = 0
  BY <1>1, <1>2 DEF Returned, Result, Unparsable, Nothing
<1> QED
  BY <1>2, <1>3

ClientInv == ClientTypeOK /\ SemaphoreKept /\ RawIsUsage /\ UsageOfResult

\* The tasks but c keep what they have; the first in the queue may go on.
LEMMA UsageKept ==
    ASSUME ClientInv, NEW c \in Callers,
           \A d \in Callers : d # c =>
               /\ \/ call'[d] = call[d]
                  \/ WokenUp(d)
               /\ usage'[d] = usage[d],
           call'[c].pc # "idle" => /\ call'[c].raw # 0 => usage'[c].of = call'[c].raw
                                   /\ call'[c].attempt = 1 => call'[c].raw = 0,
           call'[c].pc = "idle" /\ call'[c].result.of # 0
              => usage'[c].of = call'[c].result.of
    PROVE  RawIsUsage' /\ UsageOfResult'
<1>1. ASSUME NEW d \in Callers, d # c
      PROVE  /\ call'[d].pc = "idle" <=> call[d].pc = "idle"
             /\ call'[d].raw = call[d].raw /\ call'[d].attempt = call[d].attempt
             /\ call'[d].result = call[d].result /\ usage'[d] = usage[d]
  <2>1. call[d] \in Call
    BY DEF ClientInv, ClientTypeOK
  <2>2. CASE call'[d] = call[d]
    BY <1>1, <2>2
  <2>3. CASE WokenUp(d)
    BY <1>1, <2>1, <2>3 DEF Call, WokenUp
  <2> QED
    BY <1>1, <2>2, <2>3
<1>2. ASSUME NEW d \in Callers, call'[d].pc # "idle"
      PROVE  /\ call'[d].raw # 0 => usage'[d].of = call'[d].raw
             /\ call'[d].attempt = 1 => call'[d].raw = 0
  BY <1>1, <1>2 DEF ClientInv, RawIsUsage
<1>3. ASSUME NEW d \in Callers, call'[d].pc = "idle", call'[d].result.of # 0
      PROVE  usage'[d].of = call'[d].result.of
  BY <1>1, <1>3 DEF ClientInv, UsageOfResult
<1> QED
  BY <1>2, <1>3 DEF RawIsUsage, UsageOfResult

\* Nobody but c begins or ends a call.
Others(c) == \A d \in Callers : d # c => (call'[d].pc = "idle" <=> call[d].pc = "idle")

LEMMA OthersKept ==
    ASSUME ClientInv, NEW c \in Callers,
           \A d \in Callers : d # c => call'[d] = call[d] \/ WokenUp(d)
    PROVE  Others(c)
<1>1. ASSUME NEW d \in Callers, WokenUp(d)
      PROVE  call'[d].pc # "idle" /\ call[d].pc # "idle"
  <2>1. call[d] \in Call
    BY DEF ClientInv, ClientTypeOK
  <2> QED
    BY <1>1, <2>1 DEF WokenUp, Call
<1> QED
  BY <1>1 DEF Others

\* One lemma per action.
LEMMA AskStep ==
    ASSUME ClientInv, NEW c \in Callers, Ask(c)
    PROVE  ClientInv' /\ call'[c].pc # "idle" /\ Others(c)
<1>0. ClientTypeOK /\ SemaphoreKept /\ usage \in [Callers -> Usage]
  BY DEF ClientInv, ClientTypeOK
<1>1. /\ call' \in [Callers -> Call] /\ waiting' \in Seq(Callers) /\ free' \in BOOLEAN
      /\ SemaphoreKept'
      /\ call'[c].pc # "idle" /\ call'[c].raw = 0
      /\ \A d \in Callers : d # c => call'[d] = call[d]
  BY <1>0, AskKept
<1>2. usage' \in [Callers -> Usage] /\ \A d \in Callers : d # c => usage'[d] = usage[d]
  <2>1. [usage[c] EXCEPT !.of = 0] \in Usage
    BY <1>0 DEF Usage
  <2>2. usage' = [usage EXCEPT ![c] = [usage[c] EXCEPT !.of = 0]]
    BY <1>0 DEF Ask
  <2> QED
    BY <1>0, <2>1, <2>2
<1>3. RawIsUsage' /\ UsageOfResult'
  BY <1>1, <1>2, UsageKept
<1> QED
  BY <1>1, <1>2, <1>3, OthersKept DEF ClientInv, ClientTypeOK

LEMMA RetriesStep ==
    ASSUME ClientInv, NEW c \in Callers, NEW reply \in Replies, NEW full \in BOOLEAN,
           Retries(c, reply, full)
    PROVE  ClientInv' /\ call'[c].pc # "idle" /\ Others(c)
<1> DEFINE left == [call EXCEPT ![c].pc = IF waiting = <<>> THEN "ask" ELSE "wait",
                                ![c].attempt = 2, ![c].raw = RawAfter(c, reply)]
           new == left[c]
<1>0. /\ ClientTypeOK /\ SemaphoreKept /\ call \in [Callers -> Call]
      /\ call[c] \in Call /\ call[c].attempt = 1 /\ Asking(c) /\ reply \in Unparsable
      /\ reply \in Replies
  BY DEF ClientInv, ClientTypeOK, Retries
<1>1. /\ new = [call[c] EXCEPT !.pc = IF waiting = <<>> THEN "ask" ELSE "wait",
                               !.attempt = 2, !.raw = RawAfter(c, reply)]
      /\ \A d \in Callers : d # c => left[d] = call[d]
      /\ left = [call EXCEPT ![c] = new]
  BY <1>0
<1>2. RawAfter(c, reply) \in 0..2
  BY <1>0, ReturnedFacts
<1>3. call' = Handed(left)
  BY DEF Retries
<1> HIDE DEF left, new
<1>4. /\ new \in Call /\ new.pc = IF waiting = <<>> THEN "ask" ELSE "wait"
      /\ new.raw = RawAfter(c, reply) /\ new.attempt = 2
      /\ left \in [Callers -> Call] /\ left[c] = new
  <2>1. /\ new \in Call /\ new.pc = IF waiting = <<>> THEN "ask" ELSE "wait"
        /\ new.raw = RawAfter(c, reply) /\ new.attempt = 2
    <3> DEFINE stage == IF waiting = <<>> THEN "ask" ELSE "wait"
               text == RawAfter(c, reply)
    <3>1. stage \in {"ask", "wait"} /\ text \in 0..2
      BY <1>2
    <3>2. new = [call[c] EXCEPT !.pc = stage, !.attempt = 2, !.raw = text]
      BY <1>1
    <3> HIDE DEF stage, text
    <3>3. call[c] = [pc |-> call[c].pc, attempt |-> call[c].attempt,
                     raw |-> call[c].raw, result |-> call[c].result]
          /\ call[c].result \in Result
      BY <1>0 DEF Call
    <3>4. new = [pc |-> stage, attempt |-> 2, raw |-> text, result |-> call[c].result]
      BY <3>2, <3>3
    <3>5. new \in Call /\ new.pc = stage /\ new.raw = text /\ new.attempt = 2
      BY <3>1, <3>3, <3>4 DEF Call
    <3> QED
      BY <3>5 DEF stage, text
  <2> QED
    BY <1>0, <1>1, <2>1
<1>5. /\ call' \in [Callers -> Call] /\ waiting' \in Seq(Callers) /\ free' \in BOOLEAN
      /\ SemaphoreKept'
      /\ call'[c] = new
      /\ \A d \in Callers : d # c => \/ call'[d] = call[d]
                                    \/ WokenUp(d)
  <2>1. /\ left[c].pc = IF waiting = <<>> THEN "ask" ELSE "wait"
        /\ free' = free
        /\ waiting' = IF waiting = <<>> THEN <<>> ELSE Append(Tail(waiting), c)
    BY <1>4 DEF Retries
  <2> QED
    BY <1>0, <1>1, <1>3, <1>4, <2>1, RequeueKept
<1>6. usage' = Recorded(c, reply, full)
  BY DEF Retries
<1>7. call[c].raw = 0 /\ new.raw = RawAfter(c, reply) /\ new.attempt = 2
  BY <1>0, <1>4 DEF ClientInv, RawIsUsage, Asking
<1>8. new.raw # 0 => usage'[c].of = new.raw
  BY <1>0, <1>6, <1>7, RecordedFacts, ReturnedFacts DEF Unparsable
<1>9. new.pc # "idle"
  BY <1>4
<1>10. RawIsUsage' /\ UsageOfResult'
  BY <1>5, <1>6, <1>7, <1>8, <1>9, RecordedFacts, <1>0, UsageKept
<1> QED
  BY <1>0, <1>5, <1>6, <1>9, <1>10, RecordedFacts, OthersKept DEF ClientInv, ClientTypeOK

\* The result of a call that returns has the latest usage.
LEMMA ReturnedUsage ==
    ASSUME ClientInv, NEW c \in Callers, NEW reply \in Replies, NEW full \in BOOLEAN,
           Asking(c), reply \notin Unparsable \/ call[c].attempt = 2,
           Returned(c, reply).of # 0
    PROVE  Recorded(c, reply, full)[c].of = Returned(c, reply).of
<1>1. ClientTypeOK /\ (call[c].raw # 0 => usage[c].of = call[c].raw)
  BY DEF ClientInv, RawIsUsage, Asking
<1> QED
  BY <1>1, RecordedFacts, ReturnedFacts DEF Unparsable, Replies

LEMMA ReturnsStep ==
    ASSUME ClientInv, NEW c \in Callers, NEW reply \in Replies, NEW full \in BOOLEAN,
           Returns(c, reply, full)
    PROVE  ClientInv' /\ call'[c].pc = "idle" /\ Others(c)
<1> DEFINE new == Idle(Returned(c, reply))
           left == [call EXCEPT ![c] = new]
<1>0. /\ ClientTypeOK /\ SemaphoreKept /\ call \in [Callers -> Call] /\ Asking(c)
      /\ usage' = Recorded(c, reply, full) /\ PassedOn /\ call' = Handed(left)
  BY DEF ClientInv, ClientTypeOK, Returns
<1>1. new \in Call /\ new.pc = "idle" /\ new.result = Returned(c, reply)
  BY <1>0, ReturnedFacts DEF Call, Idle
<1> HIDE DEF new
<1>2. left \in [Callers -> Call] /\ left[c] = new /\ \A d \in Callers : d # c => left[d] = call[d]
  BY <1>0, <1>1
<1> HIDE DEF left
<1>3. /\ call' \in [Callers -> Call] /\ waiting' \in Seq(Callers) /\ free' \in BOOLEAN
      /\ SemaphoreKept'
      /\ call'[c] = new
      /\ \A d \in Callers : d # c => \/ call'[d] = call[d]
                                    \/ WokenUp(d)
  BY <1>0, <1>1, <1>2, LeaveKept
<1>4. new.result.of # 0 => usage'[c].of = new.result.of
  BY <1>0, <1>1, ReturnedUsage DEF Returns
<1>5. \A d \in Callers : d # c => usage'[d] = usage[d]
  BY <1>0, RecordedFacts
<1>6. RawIsUsage' /\ UsageOfResult'
  BY <1>1, <1>3, <1>4, <1>5, UsageKept
<1> QED
  BY <1>0, <1>1, <1>3, <1>6, RecordedFacts, OthersKept DEF ClientInv, ClientTypeOK

LEMMA ReturnsAndAsksStep ==
    ASSUME ClientInv, NEW c \in Callers, NEW reply \in Replies, NEW full \in BOOLEAN,
           ReturnsAndAsks(c, reply, full)
    PROVE  ClientInv' /\ call'[c].pc # "idle" /\ Others(c)
<1> DEFINE new == [pc |-> IF waiting = <<>> THEN "ask" ELSE "wait",
                   attempt |-> 1, raw |-> 0, result |-> Nothing]
           left == [call EXCEPT ![c] = new]
           before == Recorded(c, reply, full)
<1>0. /\ ClientTypeOK /\ SemaphoreKept /\ call \in [Callers -> Call] /\ Asking(c)
      /\ usage' = [before EXCEPT ![c].of = 0] /\ call' = Handed(left) /\ free' = free
      /\ waiting' = IF waiting = <<>> THEN <<>> ELSE Append(Tail(waiting), c)
  BY DEF ClientInv, ClientTypeOK, ReturnsAndAsks
<1>1. /\ new \in Call /\ new.pc = IF waiting = <<>> THEN "ask" ELSE "wait"
      /\ new.pc # "idle" /\ new.raw = 0
  BY DEF Call, Nothing, Result
<1> HIDE DEF new
<1>2. left \in [Callers -> Call] /\ left[c] = new /\ \A d \in Callers : d # c => left[d] = call[d]
  BY <1>0, <1>1
<1>3. /\ before \in [Callers -> Usage]
      /\ \A d \in Callers : d # c => before[d] = usage[d]
  BY <1>0, RecordedFacts
<1> HIDE DEF left, before
<1>4. /\ call' \in [Callers -> Call] /\ waiting' \in Seq(Callers) /\ free' \in BOOLEAN
      /\ SemaphoreKept'
      /\ call'[c] = new
      /\ \A d \in Callers : d # c => \/ call'[d] = call[d]
                                    \/ WokenUp(d)
  BY <1>0, <1>1, <1>2, RequeueKept
<1>5. usage' \in [Callers -> Usage] /\ \A d \in Callers : d # c => usage'[d] = usage[d]
  <2>1. [before[c] EXCEPT !.of = 0] \in Usage
    BY <1>3 DEF Usage
  <2> QED
    BY <1>0, <1>3, <2>1
<1>6. RawIsUsage' /\ UsageOfResult'
  BY <1>1, <1>4, <1>5, UsageKept
<1> QED
  BY <1>1, <1>4, <1>5, <1>6, OthersKept DEF ClientInv, ClientTypeOK

LEMMA CancelledStep ==
    ASSUME ClientInv, NEW c \in Callers, Cancelled(c)
    PROVE  ClientInv' /\ call'[c].pc = "idle" /\ Others(c)
<1> DEFINE new == Idle(Nothing)
           left == [call EXCEPT ![c] = new]
<1>0. /\ ClientTypeOK /\ SemaphoreKept /\ call \in [Callers -> Call]
      /\ usage \in [Callers -> Usage] /\ usage' = usage
  BY DEF ClientInv, ClientTypeOK, Cancelled, CancelledAsking, CancelledWaiting
<1>1. new \in Call /\ new.pc = "idle" /\ new.result.of = 0
  BY DEF Call, Idle, Nothing, Result
<1>2. /\ call' \in [Callers -> Call] /\ waiting' \in Seq(Callers) /\ free' \in BOOLEAN
      /\ SemaphoreKept'
      /\ call'[c] = new
      /\ \A d \in Callers : d # c => \/ call'[d] = call[d]
                                    \/ WokenUp(d)
  <2>1. CASE CancelledAsking(c)
    <3>1. call' = Handed(left) /\ Asking(c) /\ PassedOn
      BY <2>1 DEF CancelledAsking
    <3> HIDE DEF new
    <3>2. left \in [Callers -> Call] /\ left[c] = new
          /\ \A d \in Callers : d # c => left[d] = call[d]
      BY <1>0, <1>1
    <3> HIDE DEF left
    <3> QED
      BY <1>0, <1>1, <3>1, <3>2, LeaveKept
  <2>2. CASE CancelledWaiting(c)
    BY <1>0, <2>2, GiveUpKept
  <2> QED
    BY <2>1, <2>2 DEF Cancelled
<1> HIDE DEF new
<1>3. RawIsUsage' /\ UsageOfResult'
  BY <1>0, <1>1, <1>2, UsageKept
<1> QED
  BY <1>0, <1>1, <1>2, <1>3, OthersKept DEF ClientInv, ClientTypeOK

LEMMA ClientStart == ClientInit => ClientInv
<1> SUFFICES ASSUME ClientInit PROVE ClientInv
  OBVIOUS
<1>1. Len(waiting) = 0 /\ waiting \in Seq(Callers) /\ waiting = <<>> /\ free
  BY EmptySeq DEF ClientInit
<1>2. \A c \in Callers : call[c] = Idle(Nothing) /\ call[c] \in Call
  <2>1. Idle(Nothing) \in Call
    BY DEF Idle, Nothing, Call, Result
  <2> QED
    BY <2>1 DEF ClientInit
<1>3. ClientTypeOK
  BY <1>1, <1>2 DEF ClientInit, ClientTypeOK, Usage
<1>4. \A c \in Callers : /\ call[c].pc = "idle" /\ call[c].raw = 0
                          /\ call[c].result.of = 0
  <2>1. Idle(Nothing).pc = "idle" /\ Idle(Nothing).raw = 0 /\ Idle(Nothing).result.of = 0
    BY DEF Idle, Nothing
  <2> QED
    BY <1>2, <2>1
<1>5. Kept
  BY <1>1, <1>4 DEF Kept, QueueOK, OneRequest, Asking
<1> QED
  BY <1>1, <1>3, <1>4, <1>5, KeptParts DEF ClientInv, RawIsUsage, UsageOfResult

LEMMA ClientStep == ClientInv /\ [ClientNext]_clientVars => ClientInv'
<1> SUFFICES ASSUME ClientInv, [ClientNext]_clientVars PROVE ClientInv'
  OBVIOUS
<1>1. CASE UNCHANGED clientVars
  BY <1>1 DEF clientVars, ClientInv, ClientTypeOK, SemaphoreKept, OneRequest, Asking,
              RawIsUsage, UsageOfResult
<1>2. CASE ClientNext
  BY <1>2, AskStep, CancelledStep, RetriesStep, ReturnsStep, ReturnsAndAsksStep
     DEF ClientNext
<1> QED
  BY <1>1, <1>2

LEMMA ClientInvariance == ClientSpec => []ClientInv
BY ClientStart, ClientStep, PTL DEF ClientSpec

-----------------------------------------------------------------------------
(* The callers.                                                            *)

USE CallersAssumption

\* Whatever a scoring pass or a translation does is a step of its call.
LEMMA CallersStepIsClientStep == [Next]_vars => [ClientNext]_clientVars
<1> SUFFICES ASSUME [Next]_vars PROVE [ClientNext]_clientVars
  OBVIOUS
<1>1. ASSUME NEW s \in Scorers, PassStarts(s) \/ PassCancelled(s)
      PROVE  ClientNext
  BY <1>1 DEF PassStarts, PassCancelled, ClientNext
<1>2. ASSUME NEW t \in Translators, NEW l \in Langs, PageAsksFor(t, l)
      PROVE  UNCHANGED clientVars
  BY <1>2 DEF PageAsksFor
<1>3. ASSUME NEW t \in Translators, TaskStarts(t)
      PROVE  ClientNext \/ UNCHANGED clientVars
  BY <1>3 DEF TaskStarts, ClientNext
<1>4. ASSUME NEW c \in Callers, Answered(c)
      PROVE  ClientNext
  <2>1. PICK reply \in Replies, full \in BOOLEAN :
          \/ ScorerGoesOn(c, reply, full) \/ ScorerRetries(c, reply, full)
          \/ TaskEnds(c, reply, full) \/ TaskRetries(c, reply, full)
    BY <1>4 DEF Answered
  <2>2. \/ Retries(c, reply, full) \/ Returns(c, reply, full)
        \/ ReturnsAndAsks(c, reply, full)
    BY <2>1 DEF ScorerGoesOn, ScorerRetries, TaskEnds, TaskRetries
  <2> QED
    BY <2>2 DEF ClientNext
<1>5. CASE UNCHANGED vars
  BY <1>5 DEF vars
<1> QED
  BY <1>1, <1>2, <1>3, <1>4, <1>5 DEF Next

\* Scoring passes and translation tasks make no other use of the client than
\* ask_json allows (ollama.py:193-260): what holds of the client holds of them.
THEOREM CallersAreClients == Spec => ClientSpec
<1>1. Init => ClientInit
  BY DEF Init
<1> QED
  BY <1>1, CallersStepIsClientStep, PTL DEF Spec, ClientSpec

\* At most one request is out at a time, and the semaphore is never lost: free,
\* or in the hands of exactly one task, with all others that wait in the queue
\* once, through retries, batches in a row and cancelled tasks
\* (ollama.py:205-260).
THEOREM SemaphoreIsKept == Spec => []SemaphoreKept
<1>1. ClientInv => SemaphoreKept
  BY DEF ClientInv
<1> QED
  BY <1>1, ClientInvariance, CallersAreClients, PTL

\* What last_usage() tells after a call is about the answer that the call
\* returned, the one of the retry included (ollama.py:123-147, 205-260).
THEOREM UsageIsOfResult == Spec => []UsageOfResult
<1>1. ClientInv => UsageOfResult
  BY DEF ClientInv
<1> QED
  BY <1>1, ClientInvariance, CallersAreClients, PTL

-----------------------------------------------------------------------------
(* One translation per language.                                           *)

\* A translation task is in its call exactly as long as it counts as asking,
\* for a language which no other task asks for, and which is marked.
Tasks ==
    /\ batchJobs \in SUBSET Langs
    /\ task \in [Translators -> [lang : Langs \cup {None}, asks : BOOLEAN]]
    /\ \A t \in Translators : task[t].asks <=> call[t].pc # "idle"
    /\ \A t \in Translators : task[t].asks => task[t].lang \in batchJobs
    /\ \A t, u \in Translators :
          task[t].asks /\ task[u].asks /\ task[t].lang = task[u].lang => t = u
    /\ \A l \in batchJobs : \E t \in Translators : task[t].asks /\ task[t].lang = l

LEMMA TasksImplyOne == Tasks => OneTaskPerLanguage
<1> SUFFICES ASSUME Tasks, NEW l \in Langs
             PROVE  /\ Cardinality(TasksFor(l)) <= 1
                    /\ TasksFor(l) # {} <=> l \in batchJobs
  BY DEF OneTaskPerLanguage
<1>1. TasksFor(l) # {} <=> l \in batchJobs
  BY DEF Tasks, TasksFor
<1>2. ASSUME TasksFor(l) = {} PROVE Cardinality(TasksFor(l)) <= 1
  BY <1>2, FS_EmptySet
<1>3. ASSUME NEW t \in TasksFor(l) PROVE Cardinality(TasksFor(l)) <= 1
  <2>1. TasksFor(l) = {t}
    BY DEF Tasks, TasksFor
  <2>2. Cardinality({t}) = 1
    BY FS_Singleton
  <2> QED
    BY <2>1, <2>2
<1> QED
  BY <1>1, <1>2, <1>3

LEMMA TasksStart == Init => Tasks
BY DEF Init, Tasks, NoTask, ClientInit, Idle

\* The next record of a task.
LEMMA TaskSet ==
    ASSUME Tasks, NEW t \in Translators,
           NEW new \in [lang : Langs \cup {None}, asks : BOOLEAN],
           task' = [task EXCEPT ![t] = new]
    PROVE  /\ task' \in [Translators -> [lang : Langs \cup {None}, asks : BOOLEAN]]
           /\ task'[t] = new
           /\ \A u \in Translators : u # t => task'[u] = task[u]
BY DEF Tasks

LEMMA NoTaskIsTask == NoTask \in [lang : Langs \cup {None}, asks : BOOLEAN] /\ ~NoTask.asks
BY DEF NoTask

\* A step of another task's call that leaves the tasks alone.
LEMMA TasksKept ==
    ASSUME Tasks, UNCHANGED <<batchJobs, task>>,
           \A t \in Translators : call'[t].pc = "idle" <=> call[t].pc = "idle"
    PROVE  Tasks'
BY DEF Tasks

LEMMA TasksStep == ClientInv /\ Tasks /\ [Next]_vars => Tasks'
<1> SUFFICES ASSUME ClientInv, Tasks, [Next]_vars PROVE Tasks'
  OBVIOUS
<1>1. ASSUME NEW s \in Scorers, PassStarts(s) \/ PassCancelled(s)
      PROVE  Tasks'
  <2>1. Others(s) /\ UNCHANGED <<batchJobs, task>>
    BY <1>1, AskStep, CancelledStep DEF PassStarts, PassCancelled
  <2> QED
    BY <2>1, TasksKept DEF Others
<1>2. ASSUME NEW t \in Translators, NEW l \in Langs, PageAsksFor(t, l)
      PROVE  Tasks'
  <2>1. /\ task[t] = NoTask /\ UNCHANGED <<batchJobs, call>>
        /\ task' = [task EXCEPT ![t] = [lang |-> l, asks |-> FALSE]]
    BY <1>2 DEF PageAsksFor, clientVars
  <2> DEFINE new == [lang |-> l, asks |-> FALSE]
  <2>3. /\ task' = [task EXCEPT ![t] = new]
        /\ new \in [lang : Langs \cup {None}, asks : BOOLEAN]
        /\ ~new.asks
    BY <2>1
  <2>4. ~task[t].asks
    BY <2>1, NoTaskIsTask
  <2> HIDE DEF new
  <2>5. /\ task' \in [Translators -> [lang : Langs \cup {None}, asks : BOOLEAN]]
        /\ task'[t] = new
        /\ \A u \in Translators : u # t => task'[u] = task[u]
    BY <2>3, TaskSet
  <2>2. /\ task' \in [Translators -> [lang : Langs \cup {None}, asks : BOOLEAN]]
        /\ \A u \in Translators : task'[u].asks = task[u].asks
        /\ \A u \in Translators : task[u].asks => task'[u] = task[u]
    BY <2>3, <2>4, <2>5 DEF Tasks
  <2> QED
    BY <2>1, <2>2 DEF Tasks
<1>3. ASSUME NEW t \in Translators, TaskStarts(t)
      PROVE  Tasks'
  <2> DEFINE l == task[t].lang
  <2>0. /\ l # None /\ ~task[t].asks /\ l \in Langs
    BY <1>3 DEF TaskStarts, Tasks
  <2>1. CASE /\ NoneTranslates(l)
             /\ batchJobs' = batchJobs \cup {l}
             /\ task' = [task EXCEPT ![t] = [lang |-> l, asks |-> TRUE]]
             /\ Ask(t)
    <3>1. call'[t].pc # "idle" /\ Others(t)
      BY <2>1, AskStep
    <3> DEFINE new == [lang |-> l, asks |-> TRUE]
    <3>9. /\ task' = [task EXCEPT ![t] = new]
          /\ new \in [lang : Langs \cup {None}, asks : BOOLEAN]
          /\ new.asks /\ new.lang = l
      BY <2>0, <2>1
    <3> HIDE DEF new
    <3>10. /\ task' \in [Translators -> [lang : Langs \cup {None}, asks : BOOLEAN]]
           /\ task'[t] = new
           /\ \A u \in Translators : u # t => task'[u] = task[u]
      BY <3>9, TaskSet
    <3>2. /\ task' \in [Translators -> [lang : Langs \cup {None}, asks : BOOLEAN]]
          /\ task'[t].asks /\ task'[t].lang = l
          /\ \A u \in Translators : u # t => task'[u] = task[u]
      BY <3>9, <3>10
    <3>3. l \notin batchJobs
      BY <2>1 DEF NoneTranslates
    <3> HIDE DEF l
    <3>4. \A u \in Translators : task'[u].asks <=> call'[u].pc # "idle"
      BY <3>1, <3>2 DEF Tasks, Others
    <3>5. \A u \in Translators : task'[u].asks => task'[u].lang \in batchJobs'
      BY <2>1, <3>2 DEF Tasks
    <3>6. \A u, v \in Translators :
             task'[u].asks /\ task'[v].asks /\ task'[u].lang = task'[v].lang => u = v
      BY <3>2, <3>3 DEF Tasks
    <3>7. \A k \in batchJobs' : \E u \in Translators : task'[u].asks /\ task'[u].lang = k
      <4>1. ASSUME NEW k \in batchJobs
            PROVE  \E u \in Translators : task'[u].asks /\ task'[u].lang = k
        <5>1. PICK u \in Translators : task[u].asks /\ task[u].lang = k
          BY DEF Tasks
        <5>2. u # t
          BY <2>0, <5>1
        <5> QED
          BY <3>2, <5>1, <5>2
      <4> QED
        BY <2>1, <3>2, <4>1
    <3>8. batchJobs' \in SUBSET Langs
      BY <2>0, <2>1 DEF Tasks
    <3> QED
      BY <3>2, <3>4, <3>5, <3>6, <3>7, <3>8 DEF Tasks
  <2>2. CASE task' = [task EXCEPT ![t] = NoTask] /\ UNCHANGED <<clientVars, batchJobs>>
    <3>2. /\ task' \in [Translators -> [lang : Langs \cup {None}, asks : BOOLEAN]]
          /\ task'[t] = NoTask
          /\ \A u \in Translators : u # t => task'[u] = task[u]
      BY <2>2, TaskSet, NoTaskIsTask
    <3>1. /\ task' \in [Translators -> [lang : Langs \cup {None}, asks : BOOLEAN]]
          /\ \A u \in Translators : task'[u].asks = task[u].asks
          /\ \A u \in Translators : task[u].asks => task'[u] = task[u]
          /\ UNCHANGED <<call, batchJobs>>
      BY <2>0, <2>2, <3>2, NoTaskIsTask DEF Tasks, clientVars
    <3> QED
      BY <3>1 DEF Tasks
  <2> QED
    BY <1>3, <2>1, <2>2 DEF TaskStarts
<1>4. ASSUME NEW t \in Translators, NEW reply \in Replies, NEW full \in BOOLEAN,
             TaskEnds(t, reply, full)
      PROVE  Tasks'
  <2> DEFINE l == task[t].lang
  <2>1. /\ call'[t].pc = "idle" /\ Others(t) /\ call[t].pc # "idle"
        /\ batchJobs' = batchJobs \ {l}
        /\ task' = [task EXCEPT ![t] = NoTask]
    BY <1>4, ReturnsStep DEF TaskEnds, BatchReleased, Returns, Asking
  <2>2. task[t].asks
    BY <2>1 DEF Tasks
  <2>3. /\ task' \in [Translators -> [lang : Langs \cup {None}, asks : BOOLEAN]]
        /\ ~task'[t].asks
        /\ \A u \in Translators : u # t => task'[u] = task[u]
    BY <2>1 DEF Tasks, NoTask
  <2>4. \A u \in Translators : task'[u].asks <=> call'[u].pc # "idle"
    BY <2>1, <2>3 DEF Tasks, Others
  <2>5. \A u \in Translators : task'[u].asks => task'[u].lang \in batchJobs'
    BY <2>1, <2>2, <2>3 DEF Tasks
  <2>6. \A k \in batchJobs' : \E u \in Translators : task'[u].asks /\ task'[u].lang = k
    BY <2>1, <2>3 DEF Tasks
  <2>7. \A u, v \in Translators :
           task'[u].asks /\ task'[v].asks /\ task'[u].lang = task'[v].lang => u = v
    BY <2>3 DEF Tasks
  <2>8. batchJobs' \in SUBSET Langs
    BY <2>1 DEF Tasks
  <2> QED
    BY <2>3, <2>4, <2>5, <2>6, <2>7, <2>8 DEF Tasks
<1>5. ASSUME NEW c \in Callers, NEW reply \in Replies, NEW full \in BOOLEAN,
             Retries(c, reply, full), UNCHANGED callerVars
      PROVE  Tasks'
  <2>1. Others(c) /\ call'[c].pc # "idle" /\ call[c].pc # "idle"
    BY <1>5, RetriesStep DEF Retries, Asking
  <2> QED
    BY <1>5, <2>1, TasksKept DEF Others, callerVars
<1>6. ASSUME NEW s \in Scorers, NEW reply \in Replies, NEW full \in BOOLEAN,
             ScorerGoesOn(s, reply, full)
      PROVE  Tasks'
  <2>1. Others(s) /\ UNCHANGED <<batchJobs, task>>
    BY <1>6, ReturnsStep, ReturnsAndAsksStep DEF ScorerGoesOn
  <2> QED
    BY <2>1, TasksKept DEF Others
<1>7. ASSUME NEW c \in Callers, Answered(c)
      PROVE  Tasks'
  <2>1. PICK reply \in Replies, full \in BOOLEAN :
          \/ c \in Scorers /\ (ScorerGoesOn(c, reply, full) \/ ScorerRetries(c, reply, full))
          \/ /\ c \in Translators
             /\ TaskEnds(c, reply, full) \/ TaskRetries(c, reply, full)
    BY <1>7 DEF Answered
  <2> QED
    BY <1>4, <1>5, <1>6, <2>1 DEF ScorerRetries, TaskRetries
<1>8. CASE UNCHANGED vars
  BY <1>8, TasksKept DEF vars, clientVars, callerVars
<1> QED
  BY <1>1, <1>2, <1>3, <1>7, <1>8 DEF Next

\* A language is marked as being translated exactly as long as one task asks
\* for it, so that it is never asked for twice at a time, and never marked for
\* good (i18n.py:84-123, routers/i18n.py:10-36).
THEOREM OneTask == Spec => []OneTaskPerLanguage
<1>1. Spec => []ClientInv
  BY ClientInvariance, CallersAreClients, PTL
<1>2. Spec => []Tasks
  BY <1>1, TasksStart, TasksStep, PTL DEF Spec
<1> QED
  BY <1>2, TasksImplyOne, PTL

-----------------------------------------------------------------------------
(* Chunks, batches and answers.                                            *)

\* A row that is not another event's.
Fair == Rows \ {"wrong"}

\* f is filled for the events from..(to - 1), and for no others.
Filled(f, from, to) ==
    /\ f \in [1..LastEvent -> Fair]
    /\ \A e \in 1..LastEvent : f[e] # "none" <=> from <= e /\ e < to

\* The chunks are disjoint, in order, and cover first..last.
Tiles(chunks, first, last) ==
    /\ chunks \in Seq(Interval) /\ chunks # <<>>
    /\ chunks[1].first = first
    /\ \A i \in 1..Len(chunks) : chunks[i].first <= chunks[i].last /\ chunks[i].last <= last
    /\ \A i, j \in 1..Len(chunks) : i < j => chunks[i].last < chunks[j].first
    /\ \A e \in first..last : \E i \in 1..Len(chunks) : In(e, chunks[i])

\* Batches begin at these events.
Boundary(x) == \E k \in Nat : x = 1 + k * BatchSize

Pass == [chunks : Seq(Interval), triples : [1..LastEvent -> Fair], rest : Nat,
         rows : [1..LastEvent -> Fair]]

\* The batch that a pass works on.
BatchStart(p) == p.rest - BatchSize
BatchEnd(p) == IF p.rest <= LastEvent THEN p.rest - 1 ELSE LastEvent

\* A pass has written the batches it is done with; of the batch it works on it
\* has scored what comes before its chunks.
Working(p) ==
    /\ Boundary(BatchStart(p)) /\ BatchStart(p) \in 1..LastEvent
    /\ \E f \in BatchStart(p)..BatchEnd(p) :
          /\ Tiles(p.chunks, f, BatchEnd(p))
          /\ Filled(p.triples, BatchStart(p), f)
    /\ Filled(p.rows, 1, BatchStart(p))

Resting(p) ==
    /\ p.rest \in 1..(LastEvent + BatchSize)
    /\ \E x \in Nat : /\ Boundary(x) /\ Filled(p.rows, 1, x)
                      /\ p.rest > LastEvent => x > LastEvent

InStep(p) == p \in Pass /\ IF p.chunks = <<>> THEN Resting(p) ELSE Working(p)

LEMMA Sizes == LastEvent \in Nat \ {0} /\ BatchSize \in Nat \ {0}
               /\ HalveMismatch \in Nat \ {0} /\ HalveOverflow \in Nat \ {0}
BY BatchAssumption

LEMMA Boundaries ==
    /\ Boundary(1)
    /\ \A x : Boundary(x) => x \in Nat /\ Boundary(x + BatchSize)
<1>1. Boundary(1)
  <2>1. 1 = 1 + 0 * BatchSize
    BY Sizes
  <2> QED
    BY <2>1 DEF Boundary
<1>2. ASSUME NEW k \in Nat
      PROVE  1 + k * BatchSize \in Nat /\ (1 + k * BatchSize) + BatchSize = 1 + (k + 1) * BatchSize
  BY Sizes
<1>3. ASSUME NEW x, Boundary(x)
      PROVE  x \in Nat /\ Boundary(x + BatchSize)
  <2>1. PICK k \in Nat : x = 1 + k * BatchSize
    BY <1>3 DEF Boundary
  <2>2. k + 1 \in Nat
    OBVIOUS
  <2> QED
    BY <1>2, <2>1, <2>2 DEF Boundary
<1> QED
  BY <1>1, <1>3

\* Which events are in batches before a boundary is a matter of their batch.
LEMMA SameBatch ==
    ASSUME NEW x, Boundary(x), NEW d \in 1..LastEvent, NEW e \in 1..LastEvent,
           (d - 1) \div BatchSize = (e - 1) \div BatchSize, e < x
    PROVE  d < x
<1>1. PICK k \in Nat : x = 1 + k * BatchSize
  BY DEF Boundary
<1> DEFINE q == (e - 1) \div BatchSize
<1>2. d - 1 \in Nat /\ e - 1 \in Nat
  BY Sizes
<1>3. /\ q \in Int /\ q * BatchSize <= e - 1 /\ e - 1 < (q + 1) * BatchSize
      /\ d - 1 < (q + 1) * BatchSize
  BY Sizes, <1>2
<1> HIDE DEF q
<1>4. q < k
  <2> SUFFICES ASSUME q >= k PROVE FALSE
    BY <1>3
  <2>1. q * BatchSize >= k * BatchSize
    BY Sizes, <1>3
  <2> QED
    BY Sizes, <1>1, <1>3, <2>1
<1>5. (q + 1) * BatchSize <= k * BatchSize
  BY Sizes, <1>3, <1>4
<1> QED
  BY Sizes, <1>1, <1>3, <1>5

\* A batch is a chunk.
LEMMA BatchTiles ==
    ASSUME NEW e \in 1..LastEvent
    PROVE  LET last == IF e + BatchSize <= LastEvent THEN e + BatchSize - 1 ELSE LastEvent
           IN  last \in e..LastEvent /\ Tiles(<<Batch(e)>>, e, last)
<1> DEFINE last == IF e + BatchSize <= LastEvent THEN e + BatchSize - 1 ELSE LastEvent
<1>1. last \in e..LastEvent
  BY Sizes
<1>2. Batch(e) = [first |-> e, last |-> last]
  BY Sizes DEF Batch
<1> HIDE DEF last
<1>3. Batch(e) \in Interval /\ Batch(e).first = e /\ Batch(e).last = last
  BY <1>1, <1>2, Sizes DEF Interval
<1>4. /\ <<Batch(e)>> \in Seq(Interval) /\ <<Batch(e)>> # <<>>
      /\ Len(<<Batch(e)>>) = 1 /\ <<Batch(e)>>[1] = Batch(e)
  BY <1>3
<1>5. Tiles(<<Batch(e)>>, e, last)
  BY <1>1, <1>3, <1>4 DEF Tiles, In
<1> QED
  BY <1>1, <1>5 DEF last

LEMMA ChunkFacts ==
    ASSUME NEW chunks \in Seq(Interval), NEW i \in 1..Len(chunks)
    PROVE  chunks[i] \in Interval /\ chunks[i].first \in Nat /\ chunks[i].last \in Nat
<1>1. chunks[i] \in Interval
  BY ElementOfSeq
<1> QED
  BY <1>1, Sizes DEF Interval

\* The first chunk, and the others without it.
LEMMA TailTiles ==
    ASSUME NEW chunks, NEW first \in 1..LastEvent, NEW last \in 1..LastEvent,
           Tiles(chunks, first, last), Len(chunks) > 1
    PROVE  /\ Head(chunks).last + 1 \in 1..last
           /\ Tiles(Tail(chunks), Head(chunks).last + 1, last)
<1>1. /\ Len(chunks) \in Nat /\ Head(chunks) = chunks[1]
      /\ Tail(chunks) \in Seq(Interval) /\ Len(Tail(chunks)) = Len(chunks) - 1
      /\ \A i \in 1..Len(Tail(chunks)) : Tail(chunks)[i] = chunks[i + 1]
  BY HeadTailProperties DEF Tiles, Head
<1>2. Tail(chunks) # <<>>
  <2>1. ASSUME NEW n \in Nat, n > 1, NEW l, l = n - 1 PROVE l # 0
    BY <2>1
  <2>2. Len(Tail(chunks)) # 0
    BY <1>1, <2>1
  <2> QED
    BY <2>2, EmptySeq
<1>3. \A i \in 1..Len(chunks) : chunks[i] \in Interval /\ chunks[i].first \in Nat
                               /\ chunks[i].last \in Nat
  BY ChunkFacts DEF Tiles
<1>4. 1 \in 1..Len(chunks) /\ 2 \in 1..Len(chunks)
  BY <1>1
<1> DEFINE e == chunks[1].last + 1
<1>5. /\ e <= chunks[2].first /\ chunks[2].first <= chunks[2].last /\ chunks[2].last <= last
      /\ first < e
  BY <1>3, <1>4 DEF Tiles
<1>6. PICK i \in 1..Len(chunks) : In(e, chunks[i])
  BY <1>3, <1>4, <1>5 DEF Tiles
<1>7. i # 1 /\ ~(2 < i)
  BY <1>3, <1>4, <1>5, <1>6 DEF Tiles, In
<1>8. chunks[2].first = e
  <2>1. i = 2
    BY <1>1, <1>6, <1>7
  <2>2. chunks[2].first <= e /\ chunks[2].first \in Nat /\ e \in Nat
    BY <1>3, <1>4, <1>6, <2>1 DEF In
  <2> QED
    BY <1>5, <2>2
<1>9. ASSUME NEW d \in e..last PROVE \E j \in 1..Len(Tail(chunks)) : In(d, Tail(chunks)[j])
  <2>1. PICK j \in 1..Len(chunks) : In(d, chunks[j])
    BY <1>3, <1>4, <1>5 DEF Tiles
  <2>2. j # 1
    BY <1>3, <1>4, <2>1 DEF In
  <2>3. j - 1 \in 1..Len(Tail(chunks)) /\ Tail(chunks)[j - 1] = chunks[j]
    BY <1>1, <2>1, <2>2
  <2> QED
    BY <2>1, <2>3
<1>10. \A j \in 1..Len(Tail(chunks)) : j + 1 \in 1..Len(chunks) /\ Tail(chunks)[j] = chunks[j + 1]
  BY <1>1
<1>11. Tiles(Tail(chunks), e, last)
  <2>1. Tail(chunks)[1].first = e
    BY <1>1, <1>8
  <2>2. \A j \in 1..Len(Tail(chunks)) :
           Tail(chunks)[j].first <= Tail(chunks)[j].last /\ Tail(chunks)[j].last <= last
    BY <1>10 DEF Tiles
  <2>3. \A j, k \in 1..Len(Tail(chunks)) :
           j < k => Tail(chunks)[j].last < Tail(chunks)[k].first
    BY <1>10 DEF Tiles
  <2> QED
    BY <1>1, <1>2, <1>9, <2>1, <2>2, <2>3 DEF Tiles
<1> QED
  BY <1>1, <1>3, <1>4, <1>5, <1>11

\* One chunk alone is all there is to do.
LEMMA OneTiles ==
    ASSUME NEW chunks, NEW first \in 1..LastEvent, NEW last \in 1..LastEvent,
           first <= last, Tiles(chunks, first, last), ~(Len(chunks) > 1)
    PROVE  Head(chunks).last = last
<1>1. /\ Len(chunks) = 1 /\ Head(chunks) = chunks[1]
  <2>1. Len(chunks) \in Nat /\ Len(chunks) # 0
    BY EmptySeq DEF Tiles
  <2>2. ASSUME NEW n \in Nat, n # 0, ~(n > 1) PROVE n = 1
    BY <2>2
  <2>3. Len(chunks) = 1
    BY <2>1, <2>2
  <2> QED
    BY <2>3 DEF Head
<1>2. chunks[1] \in Interval
  BY <1>1, ElementOfSeq DEF Tiles
<1> QED
  BY <1>1, <1>2 DEF Tiles, In, Interval

LEMMA HeadChunk ==
    ASSUME NEW chunks, NEW first \in 1..LastEvent, NEW last \in 1..LastEvent,
           Tiles(chunks, first, last)
    PROVE  /\ Head(chunks) \in Interval /\ Head(chunks) = chunks[1]
           /\ Head(chunks).first = first /\ Head(chunks).last \in first..last
<1>1. Len(chunks) \in Nat \ {0}
  BY EmptySeq DEF Tiles
<1>2. chunks[1] \in Interval
  BY <1>1, ElementOfSeq DEF Tiles
<1> QED
  BY <1>1, <1>2 DEF Tiles, Interval, Head

\* The halves of a chunk that is not a single event.
LEMMA HalvesFacts ==
    ASSUME NEW c \in Interval, c.first <= c.last, Size(c) > 1
    PROVE  \E m \in Nat :
              /\ c.first < m /\ m <= c.last
              /\ Halves(c) = <<[first |-> c.first, last |-> m - 1],
                              [first |-> m, last |-> c.last]>>
              /\ [first |-> c.first, last |-> m - 1] \in Interval
              /\ [first |-> m, last |-> c.last] \in Interval
<1>1. c.first \in 1..LastEvent /\ c.last \in 0..LastEvent /\ LastEvent \in Nat
  BY Sizes DEF Interval
<1>2. Size(c) = c.last + 1 - c.first
  BY DEF Size
<1> DEFINE half == Size(c) \div 2
           m == c.first + half
<1>3. half \in Nat /\ 1 <= half /\ half < Size(c)
  BY <1>1, <1>2
<1>4. Halves(c) = <<[first |-> c.first, last |-> c.first + half - 1],
                    [first |-> c.first + half, last |-> c.last]>>
  BY DEF Halves
<1> HIDE DEF half
<1>5. m \in Nat /\ c.first < m /\ m <= c.last /\ c.first + half - 1 = m - 1
  BY <1>1, <1>2, <1>3
<1>6. m \in 1..LastEvent /\ m - 1 \in 0..LastEvent
  BY <1>1, <1>5
<1>7. Halves(c) = <<[first |-> c.first, last |-> m - 1], [first |-> m, last |-> c.last]>>
  BY <1>4, <1>5
<1>8. /\ [first |-> c.first, last |-> m - 1] \in Interval
      /\ [first |-> m, last |-> c.last] \in Interval
  BY <1>1, <1>6 DEF Interval
<1> HIDE DEF m
<1> QED
  BY <1>5, <1>7, <1>8

\* Halving the first chunk keeps the others.
LEMMA HalvedTiles ==
    ASSUME NEW chunks, NEW first \in 1..LastEvent, NEW last \in 1..LastEvent,
           Tiles(chunks, first, last), Size(Head(chunks)) > 1
    PROVE  Tiles(Halves(Head(chunks)) \o Tail(chunks), first, last)
<1> DEFINE c == Head(chunks)
           h == Halves(c)
           new == h \o Tail(chunks)
           n == Len(chunks)
<1>1. /\ c \in Interval /\ c = chunks[1] /\ c.first = first /\ c.last \in first..last
  BY HeadChunk
<1>2. c.first \in Nat /\ c.last \in Nat /\ c.first <= c.last
  BY <1>1, Sizes DEF Interval
<1>3. PICK m \in Nat :
         /\ c.first < m /\ m <= c.last
         /\ h = <<[first |-> c.first, last |-> m - 1], [first |-> m, last |-> c.last]>>
         /\ [first |-> c.first, last |-> m - 1] \in Interval
         /\ [first |-> m, last |-> c.last] \in Interval
  BY <1>1, <1>2, HalvesFacts
<1> DEFINE h1 == [first |-> c.first, last |-> m - 1]
           h2 == [first |-> m, last |-> c.last]
<1>4. /\ m \in Nat /\ c.first < m /\ m <= c.last
  BY <1>3
<1>7. /\ n \in Nat \ {0}
      /\ Tail(chunks) \in Seq(Interval) /\ Len(Tail(chunks)) = n - 1
      /\ \A i \in 1..(n - 1) : Tail(chunks)[i] = chunks[i + 1]
  BY HeadTailProperties, EmptySeq DEF Tiles
<1>8. h \in Seq(Interval) /\ Len(h) = 2 /\ h[1] = h1 /\ h[2] = h2
  <2>1. h = <<h1, h2>> /\ h1 \in Interval /\ h2 \in Interval
    BY <1>3
  <2> HIDE DEF h, h1, h2
  <2> QED
    BY <2>1
<1> HIDE DEF h
<1>9. /\ new \in Seq(Interval) /\ Len(new) = n + 1
      /\ new[1] = h1 /\ new[2] = h2
      /\ \A i \in 3..(n + 1) : new[i] = chunks[i - 1]
  <2>1. /\ new \in Seq(Interval) /\ Len(new) = Len(h) + Len(Tail(chunks))
        /\ \A i \in 1..(Len(h) + Len(Tail(chunks))) :
              new[i] = IF i <= Len(h) THEN h[i] ELSE Tail(chunks)[i - Len(h)]
    BY <1>7, <1>8, ConcatProperties
  <2> HIDE DEF new, n, h1, h2
  <2> QED
    BY <1>7, <1>8, <2>1
<1> HIDE DEF new, n
<1>10. \A i \in 1..n : chunks[i].first \in Nat /\ chunks[i].last \in Nat
  BY ChunkFacts DEF Tiles, n
<1>11. /\ h1.first = c.first /\ h1.last = m - 1 /\ h2.first = m /\ h2.last = c.last
  OBVIOUS
<1> HIDE DEF h1, h2
<1>12. \A i \in 1..Len(new) : new[i].first <= new[i].last /\ new[i].last <= last
  <2> SUFFICES ASSUME NEW i \in 1..(n + 1)
               PROVE  new[i].first <= new[i].last /\ new[i].last <= last
    BY <1>9
  <2>1. CASE i = 1
    BY <1>1, <1>2, <1>4, <1>9, <1>11, <2>1
  <2>2. CASE i = 2
    BY <1>1, <1>2, <1>4, <1>9, <1>11, <2>2
  <2>3. CASE i > 2
    <3>1. i - 1 \in 1..n /\ new[i] = chunks[i - 1]
      BY <1>7, <1>9, <2>3
    <3> QED
      BY <3>1 DEF Tiles, n
  <2> QED
    BY <1>7, <2>1, <2>2, <2>3
<1>13. \A i, j \in 1..Len(new) : i < j => new[i].last < new[j].first
  <2> SUFFICES ASSUME NEW i \in 1..(n + 1), NEW j \in 1..(n + 1), i < j
               PROVE  new[i].last < new[j].first
    BY <1>9
  <2>1. CASE j = 2
    BY <1>2, <1>4, <1>7, <1>9, <1>11, <2>1
  <2>2. CASE j > 2
    <3>1. j - 1 \in 1..n /\ 1 < j - 1 /\ new[j] = chunks[j - 1] /\ 1 \in 1..n
      BY <1>7, <1>9, <2>2
    <3>2. c.last < new[j].first /\ new[j].first \in Nat
      BY <1>1, <1>10, <3>1 DEF Tiles, n
    <3>3. CASE i = 2
      BY <1>9, <1>11, <3>2, <3>3
    <3>5. CASE i = 1
      <4>1. new[i].last = m - 1
        BY <1>9, <1>11, <3>5
      <4> QED
        BY <1>2, <1>4, <3>2, <4>1
    <3>4. CASE i > 2
      <4>1. i - 1 \in 1..n /\ i - 1 < j - 1 /\ i \in 3..(n + 1)
        BY <1>7, <3>4
      <4>2. new[i] = chunks[i - 1]
        BY <1>9, <4>1
      <4> QED
        BY <3>1, <4>1, <4>2 DEF Tiles, n
    <3> QED
      BY <1>7, <3>3, <3>4, <3>5
  <2> QED
    BY <1>7, <2>1, <2>2
<1>14. \A e \in first..last : \E i \in 1..Len(new) : In(e, new[i])
  <2> SUFFICES ASSUME NEW e \in first..last
               PROVE  \E i \in 1..(n + 1) : In(e, new[i])
    BY <1>9
  <2>1. PICK i \in 1..n : In(e, chunks[i])
    BY DEF Tiles, n
  <2>2. CASE i > 1
    <3>1. i + 1 \in 1..(n + 1) /\ new[i + 1] = chunks[i]
      BY <1>7, <1>9, <2>2
    <3> QED
      BY <2>1, <3>1
  <2>3. CASE i = 1 /\ e < m
    <3>1. In(e, new[1])
      BY <1>1, <1>2, <1>4, <1>9, <1>11, <2>3 DEF In
    <3> QED
      BY <1>7, <3>1
  <2>4. CASE i = 1 /\ e >= m
    <3>1. In(e, new[2])
      BY <1>1, <1>2, <1>4, <1>9, <1>11, <2>1, <2>4 DEF In
    <3> QED
      BY <1>7, <3>1
  <2> QED
    BY <1>2, <1>4, <2>2, <2>3, <2>4
<1>15. new # <<>> /\ new[1].first = first
  BY <1>1, <1>7, <1>9, <1>11, EmptySeq
<1>16. Tiles(new, first, last)
  BY <1>9, <1>12, <1>13, <1>14, <1>15 DEF Tiles
<1> QED
  BY <1>16 DEF new, h

-----------------------------------------------------------------------------
(* What comes of an answer.                                                *)

\* As many numbers 1..n as there are places: each number has one place.
LEMMA Permutes ==
    ASSUME NEW n \in Nat, NEW idx \in [1..n -> Nat], Numbers(idx) = 1..n
    PROVE  /\ idx \in Bijection(1..n, 1..n)
           /\ \A k \in 1..n : \E j \in 1..n : idx[j] = k
<1>1. \A j \in 1..n : idx[j] \in 1..n
  BY DEF Numbers
<1>2. \A k \in 1..n : \E j \in 1..n : idx[j] = k
  BY DEF Numbers
<1>3. idx \in Surjection(1..n, 1..n)
  BY <1>1, <1>2 DEF Surjection
<1>4. IsFiniteSet(1..n)
  BY FS_Interval
<1>5. idx \in Injection(1..n, 1..n)
  BY <1>3, <1>4, FS_SurjSameCardinalityImpliesInj
<1> QED
  BY <1>2, <1>3, <1>5 DEF Bijection

\* As many entries have a number up to m as there are such numbers.
LEMMA CountUpTo ==
    ASSUME NEW n \in Nat, NEW idx \in Bijection(1..n, 1..n), NEW m \in 0..n
    PROVE  Cardinality({i \in 1..n : idx[i] <= m}) = m
<1> DEFINE S == {i \in 1..n : idx[i] <= m}
           f == [i \in S |-> idx[i]]
<1>1. /\ idx \in [1..n -> 1..n]
      /\ \A i, j \in 1..n : idx[i] = idx[j] => i = j
      /\ \A k \in 1..n : \E j \in 1..n : idx[j] = k
  BY DEF Bijection, Injection, Surjection, IsInjective
<1>2. f \in [S -> 1..m]
  BY <1>1
<1>3. ASSUME NEW k \in 1..m PROVE \E j \in S : f[j] = k
  <2>1. PICK j \in 1..n : idx[j] = k
    BY <1>1
  <2> QED
    BY <2>1
<1>4. \A i, j \in S : f[i] = f[j] => i = j
  BY <1>1
<1>5. f \in Bijection(S, 1..m)
  BY <1>2, <1>3, <1>4 DEF Bijection, Injection, Surjection, IsInjective
<1>6. IsFiniteSet(1..m) /\ Cardinality(1..m) = m /\ IsFiniteSet(1..n)
  BY FS_Interval
<1>7. IsFiniteSet(S)
  BY <1>6, FS_Subset
<1>8. ExistsBijection(S, 1..m)
  BY <1>5 DEF ExistsBijection
<1> HIDE DEF S
<1>9. Cardinality(1..m) = Cardinality(S)
  BY <1>7, <1>8, FS_Bijection
<1> QED
  BY <1>6, <1>9 DEF S

\* Sorted by number, the k-th entry of a permutation is number k.
LEMMA EntryIsOwn ==
    ASSUME NEW n \in Nat, NEW idx \in [1..n -> Nat], Numbers(idx) = 1..n,
           ~Undistinguished(idx), NEW k \in 1..n
    PROVE  idx[EntryFor(idx, k)] = k
<1> DEFINE Before(j) == Cardinality({i \in 1..n : idx[i] < idx[j]})
           UpTo(j) == Cardinality({i \in 1..n : idx[i] <= idx[j]})
<1>1. /\ idx \in Bijection(1..n, 1..n) /\ DOMAIN idx = 1..n
      /\ \A j \in 1..n : idx[j] \in 1..n
  BY Permutes DEF Numbers
<1>2. ASSUME NEW j \in 1..n
      PROVE  Before(j) = idx[j] - 1 /\ UpTo(j) = idx[j]
  <2>1. UpTo(j) = idx[j]
    <3>1. idx[j] \in 0..n
      BY <1>1
    <3> QED
      BY <1>1, <3>1, CountUpTo
  <2>2. idx[j] - 1 \in 0..n
    BY <1>1
  <2>3. {i \in 1..n : idx[i] < idx[j]} = {i \in 1..n : idx[i] <= idx[j] - 1}
    BY <1>1
  <2>4. Before(j) = idx[j] - 1
    BY <1>1, <2>2, <2>3, CountUpTo
  <2> QED
    BY <2>1, <2>4
<1>3. PICK own \in 1..n : idx[own] = k
  BY Permutes
<1>4. EntryFor(idx, k) = CHOOSE j \in 1..n : Before(j) < k /\ UpTo(j) >= k
  BY <1>1 DEF EntryFor
<1> HIDE DEF Before, UpTo
<1>5. Before(own) < k /\ UpTo(own) >= k
  BY <1>2, <1>3
<1>6. \E j \in 1..n : Before(j) < k /\ UpTo(j) >= k
  BY <1>3, <1>5
<1> DEFINE e == EntryFor(idx, k)
<1>7. e \in 1..n /\ Before(e) < k /\ UpTo(e) >= k
  BY <1>4, <1>6
<1> HIDE DEF e
<1>8. idx[e] \in Nat /\ idx[e] - 1 < k /\ idx[e] >= k
  BY <1>1, <1>2, <1>7
<1>9. idx[e] = k
  BY <1>8
<1> QED
  BY <1>9 DEF e

\* What a chunk of n gets from an answer is nothing, or for each candidate its
\* own entry or the one at its place.
LEMMA OutcomeFacts ==
    ASSUME NEW n \in 1..BatchSize, NEW outcome \in Outcomes[n], outcome # <<>>
    PROVE  outcome \in [1..n -> {"own", "place"}]
<1>1. n \in 0..BatchSize /\ n \in Nat /\ n # 0
  BY Sizes
<1>2. PICK idx \in Answers(n) : outcome = Attributed(idx, n)
  BY <1>1 DEF Outcomes
<1>3. Fits(idx, n)
  BY <1>2 DEF Attributed
<1>4. idx \in [1..n -> Nat]
  <2>1. idx # <<>>
    BY <1>1, <1>3 DEF Fits
  <2>2. idx \in [1..n -> 0..(n + 1)]
    BY <1>2, <2>1 DEF Answers
  <2> QED
    BY <1>1, <2>2
<1>5. outcome = [k \in 1..n |-> IF Undistinguished(idx) THEN "place"
                               ELSE IF idx[EntryFor(idx, k)] = k THEN "own" ELSE "wrong"]
  BY <1>2, <1>3 DEF Attributed
<1>6. CASE Undistinguished(idx)
  BY <1>5, <1>6
<1>7. CASE ~Undistinguished(idx)
  <2>1. Numbers(idx) = 1..n
    BY <1>3, <1>7 DEF Fits
  <2>2. \A k \in 1..n : idx[EntryFor(idx, k)] = k
    BY <1>1, <1>4, <1>7, <2>1, EntryIsOwn
  <2> QED
    BY <1>5, <1>7, <2>2
<1> QED
  BY <1>6, <1>7

-----------------------------------------------------------------------------
(* What a pass does with an answer.                                        *)

LEMMA NoRowsFilled == NoRows \in [1..LastEvent -> Fair] /\ \A x \in Nat : Filled(NoRows, x, x)
BY Sizes DEF NoRows, Filled, Fair, Rows

\* A batch is begun when those before it are written.
LEMMA BatchBegun ==
    ASSUME NEW e \in 1..LastEvent, Boundary(e), NEW rows, Filled(rows, 1, e)
    PROVE  InStep([chunks |-> <<Batch(e)>>, triples |-> NoRows, rest |-> e + BatchSize,
                   rows |-> rows])
<1> DEFINE chunks == <<Batch(e)>>
           p == [chunks |-> chunks, triples |-> NoRows, rest |-> e + BatchSize, rows |-> rows]
<1>1. /\ p.chunks = chunks /\ p.triples = NoRows /\ p.rest = e + BatchSize /\ p.rows = rows
  OBVIOUS
<1> HIDE DEF p
<1>2. BatchStart(p) = e
  BY <1>1, Sizes DEF BatchStart
<1>3. BatchEnd(p) = IF e + BatchSize <= LastEvent THEN e + BatchSize - 1 ELSE LastEvent
  BY <1>1, Sizes DEF BatchEnd
<1>4. BatchEnd(p) \in e..LastEvent /\ Tiles(chunks, e, BatchEnd(p))
  BY <1>3, BatchTiles
<1>5. chunks \in Seq(Interval) /\ chunks # <<>>
  BY <1>4 DEF Tiles
<1>6. p \in Pass
  BY <1>5, NoRowsFilled, Sizes DEF Pass, Filled, p
<1>7. Filled(NoRows, e, e)
  BY NoRowsFilled, Sizes
<1>8. e \in e..BatchEnd(p)
  BY <1>4, Sizes
<1>9. Working(p)
  BY <1>1, <1>2, <1>4, <1>7, <1>8 DEF Working
<1>10. InStep(p)
  BY <1>1, <1>5, <1>6, <1>9 DEF InStep
<1> QED
  BY <1>10 DEF p

\* The chunk with the LLM is one of the batch.
LEMMA ChunkOfBatch ==
    ASSUME NEW p, InStep(p), p.chunks # <<>>
    PROVE  LET c == Head(p.chunks)
           IN  /\ c \in Interval /\ c.first \in Nat /\ c.last \in Nat /\ c.first <= c.last
               /\ c.last <= LastEvent /\ Size(c) \in 1..BatchSize
<1> DEFINE c == Head(p.chunks)
<1>1. Working(p) /\ p.rest \in Nat
  BY DEF InStep, Pass
<1>2. PICK f \in BatchStart(p)..BatchEnd(p) : Tiles(p.chunks, f, BatchEnd(p))
  BY <1>1 DEF Working
<1>3. BatchStart(p) \in 1..LastEvent /\ BatchEnd(p) \in 1..LastEvent
      /\ BatchEnd(p) - BatchStart(p) < BatchSize /\ f \in 1..LastEvent
  BY <1>1, <1>2, Sizes DEF Working, BatchStart, BatchEnd
<1>4. c \in Interval /\ c.first = f /\ c.last \in f..BatchEnd(p)
  BY <1>2, <1>3, HeadChunk
<1> HIDE DEF c
<1>5. /\ c.first \in Nat /\ c.last \in Nat /\ c.first <= c.last /\ c.last <= LastEvent
      /\ c.last - c.first < BatchSize
  BY <1>2, <1>3, <1>4, Sizes
<1>6. Size(c) \in 1..BatchSize
  BY <1>5, Sizes DEF Size
<1> QED
  BY <1>4, <1>5, <1>6 DEF c

\* The chunk's rows join those of the chunks before it.
LEMMA TriplesFilled ==
    ASSUME NEW p, NEW start \in 1..LastEvent, NEW first \in 1..LastEvent,
           NEW last \in first..LastEvent, start <= first,
           Filled(p.triples, start, first), NEW got \in [first..last -> Fair \ {"none"}]
    PROVE  Filled(Triples(p, got), start, last + 1)
<1> DEFINE t == Triples(p, got)
<1>1. /\ DOMAIN got = first..last
      /\ \A e \in first..last : got[e] \in Fair /\ got[e] # "none"
  OBVIOUS
<1>2. /\ \A e \in 1..LastEvent : p.triples[e] \in Fair
      /\ \A e \in 1..LastEvent : p.triples[e] # "none" <=> start <= e /\ e < first
  BY DEF Filled
<1>3. t = [e \in 1..LastEvent |-> IF e \in first..last THEN got[e] ELSE p.triples[e]]
  BY <1>1 DEF Triples
<1> HIDE DEF t
<1>4. t \in [1..LastEvent -> Fair]
  BY <1>1, <1>2, <1>3
<1>5. ASSUME NEW e \in 1..LastEvent
      PROVE  t[e] # "none" <=> start <= e /\ e < last + 1
  <2>1. t[e] = IF e \in first..last THEN got[e] ELSE p.triples[e]
    BY <1>3
  <2>2. e \in Nat /\ start \in Nat /\ first \in Nat /\ last \in Nat
    BY Sizes
  <2>3. CASE e \in first..last
    BY <1>1, <2>1, <2>2, <2>3
  <2>4. CASE e \notin first..last
    <3>1. t[e] # "none" <=> start <= e /\ e < first
      BY <1>2, <2>1, <2>4
    <3> QED
      BY <2>2, <2>4, <3>1
  <2> QED
    BY <2>3, <2>4
<1> QED
  BY <1>4, <1>5 DEF Filled, t

\* The batch's rows join those of the batches before it.
LEMMA WrittenFilled ==
    ASSUME NEW rows, NEW triples, NEW start \in 1..LastEvent, NEW x \in Nat,
           start <= x, Filled(rows, 1, start), Filled(triples, start, x)
    PROVE  Filled([e \in 1..LastEvent |-> IF triples[e] # "none" THEN triples[e] ELSE rows[e]],
                  1, x)
BY Sizes DEF Filled

\* A chunk is done: every event of it has a row now.
LEMMA ChunkDoneInStep ==
    ASSUME NEW p, InStep(p), p.chunks # <<>>,
           NEW got \in [Head(p.chunks).first..Head(p.chunks).last -> Fair \ {"none"}]
    PROVE  InStep(ChunkDone(p, got))
<1> DEFINE c == Head(p.chunks)
           start == BatchStart(p)
           end == BatchEnd(p)
           triples == Triples(p, got)
           written == [e \in 1..LastEvent |-> IF triples[e] # "none" THEN triples[e]
                                              ELSE p.rows[e]]
           new == ChunkDone(p, got)
<1>1. /\ p \in Pass /\ p.rest \in Nat /\ Boundary(start) /\ start \in 1..LastEvent
      /\ Filled(p.rows, 1, start)
  BY DEF InStep, Working, Pass
<1>2. PICK f \in start..end : Tiles(p.chunks, f, end) /\ Filled(p.triples, start, f)
  BY DEF InStep, Working
<1>3. /\ start = p.rest - BatchSize
      /\ p.rest <= LastEvent => end = p.rest - 1
      /\ ~(p.rest <= LastEvent) => end = LastEvent
  BY DEF BatchStart, BatchEnd
<1> HIDE DEF start, end
<1>4. end \in 1..LastEvent /\ f \in 1..LastEvent /\ start <= f /\ f <= end
  BY <1>1, <1>2, <1>3, Sizes
<1>5. /\ c \in Interval /\ c.first = f /\ c.last \in f..end
  BY <1>2, <1>4, HeadChunk
<1> HIDE DEF c
<1>6. Filled(triples, start, c.last + 1)
  <2>1. got \in [c.first..c.last -> Fair \ {"none"}]
    BY DEF c
  <2>2. got \in [f..c.last -> Fair \ {"none"}]
    BY <1>5, <2>1
  <2>3. c.last \in f..LastEvent
    BY <1>4, <1>5, Sizes
  <2> QED
    BY <1>1, <1>2, <1>4, <2>2, <2>3, TriplesFilled
<1>7. new = IF Len(p.chunks) > 1
            THEN [p EXCEPT !.chunks = Tail(p.chunks), !.triples = triples]
            ELSE [chunks |-> IF p.rest > LastEvent THEN <<>> ELSE <<Batch(p.rest)>>,
                  triples |-> NoRows,
                  rest |-> IF p.rest > LastEvent THEN p.rest ELSE p.rest + BatchSize,
                  rows |-> written]
  BY DEF ChunkDone
<1> HIDE DEF triples, new
<1>8. CASE Len(p.chunks) > 1
  <2> DEFINE tail == Tail(p.chunks)
  <2>1. /\ c.last + 1 \in 1..end /\ Tiles(tail, c.last + 1, end)
    BY <1>2, <1>4, <1>8, TailTiles DEF c
  <2>2. tail \in Seq(Interval) /\ tail # <<>>
    BY <2>1 DEF Tiles
  <2> HIDE DEF tail
  <2>3. new = [p EXCEPT !.chunks = tail, !.triples = triples]
    BY <1>7, <1>8 DEF tail
  <2>4. triples \in [1..LastEvent -> Fair]
    BY <1>6 DEF Filled
  <2>5. /\ new \in Pass /\ new.chunks = tail /\ new.triples = triples /\ new.rest = p.rest
        /\ new.rows = p.rows
    BY <1>1, <2>2, <2>3, <2>4 DEF Pass
  <2>6. BatchStart(new) = start /\ BatchEnd(new) = end
    BY <2>5 DEF BatchStart, BatchEnd, start, end
  <2>7. c.last + 1 \in start..end
    BY <1>1, <1>4, <1>5, <2>1
  <2>8. Working(new)
    BY <1>1, <1>6, <2>1, <2>5, <2>6, <2>7 DEF Working
  <2> QED
    BY <2>2, <2>5, <2>8 DEF InStep, new
<1>9. CASE ~(Len(p.chunks) > 1)
  <2>1. c.last = end
    BY <1>2, <1>4, <1>9, OneTiles DEF c
  <2>2. Filled(written, 1, end + 1)
    <3>1. Filled(triples, start, end + 1) /\ end + 1 \in Nat /\ start <= end + 1
      BY <1>1, <1>4, <1>6, <2>1
    <3> QED
      BY <1>1, <3>1, WrittenFilled
  <2> HIDE DEF written
  <2>3. CASE p.rest > LastEvent
    <3>1. new = [chunks |-> <<>>, triples |-> NoRows, rest |-> p.rest, rows |-> written]
      BY <1>7, <1>9, <2>3
    <3>2. /\ new.chunks = <<>> /\ new.rest = p.rest /\ new.rows = written
      BY <3>1
    <3>3. new \in Pass
      <4>1. <<>> \in Seq(Interval) /\ written \in [1..LastEvent -> Fair]
        BY <2>2, EmptySeq DEF Filled
      <4> QED
        BY <1>1, <3>1, <4>1, NoRowsFilled DEF Pass
    <3>4. p.rest \in 1..(LastEvent + BatchSize) /\ end = LastEvent
      BY <1>1, <1>3, <2>3, Sizes
    <3>5. Boundary(p.rest)
      <4>1. p.rest = start + BatchSize
        BY <1>1, <1>3, Sizes
      <4> QED
        BY <1>1, <4>1, Boundaries
    <3>6. Filled(written, 1, p.rest)
      BY <1>1, <2>2, <2>3, <3>4, Sizes DEF Filled
    <3>7. Resting(new)
      BY <1>1, <2>3, <3>2, <3>4, <3>5, <3>6 DEF Resting
    <3> QED
      BY <3>2, <3>3, <3>7 DEF InStep, new
  <2>4. CASE ~(p.rest > LastEvent)
    <3>1. new = [chunks |-> <<Batch(p.rest)>>, triples |-> NoRows,
                 rest |-> p.rest + BatchSize, rows |-> written]
      BY <1>7, <1>9, <2>4
    <3>2. p.rest \in 1..LastEvent /\ end + 1 = p.rest
      BY <1>1, <1>3, <2>4, Sizes
    <3>3. Boundary(p.rest)
      <4>1. p.rest = start + BatchSize
        BY <1>1, <1>3, Sizes
      <4> QED
        BY <1>1, <4>1, Boundaries
    <3> QED
      BY <2>2, <3>1, <3>2, <3>3, BatchBegun DEF new
  <2> QED
    BY <2>3, <2>4
<1> QED
  BY <1>8, <1>9

\* A chunk the LLM does not score gets its rows by the rules.
LEMMA RuledInStep ==
    ASSUME NEW p, InStep(p), p.chunks # <<>>
    PROVE  InStep(ChunkDone(p, Ruled(Head(p.chunks))))
<1>1. Ruled(Head(p.chunks)) \in
         [Head(p.chunks).first..Head(p.chunks).last -> Fair \ {"none"}]
  BY DEF Ruled, Fair, Rows
<1> QED
  BY <1>1, ChunkDoneInStep

LEMMA HalveOrRuleInStep ==
    ASSUME NEW p, InStep(p), p.chunks # <<>>, NEW limit \in Nat \ {0}
    PROVE  InStep(HalveOrRule(p, limit))
<1> DEFINE c == Head(p.chunks)
           halved == Halves(c) \o Tail(p.chunks)
           new == [p EXCEPT !.chunks = halved]
<1>1. Size(c) \in 1..BatchSize
  BY ChunkOfBatch
<1>2. CASE Size(c) > limit
  <2>1. Size(c) > 1
    BY <1>1, <1>2, Sizes
  <2>2. HalveOrRule(p, limit) = new
    BY <1>2 DEF HalveOrRule
  <2>3. p \in Pass /\ Working(p) /\ p.rest \in Nat
    BY DEF InStep, Pass
  <2>4. PICK f \in BatchStart(p)..BatchEnd(p) :
           /\ Tiles(p.chunks, f, BatchEnd(p))
           /\ Filled(p.triples, BatchStart(p), f)
    BY <2>3 DEF Working
  <2>5. f \in 1..LastEvent /\ BatchEnd(p) \in 1..LastEvent
    BY <2>3, <2>4, Sizes DEF Working, BatchStart, BatchEnd
  <2>6. Tiles(halved, f, BatchEnd(p))
    BY <2>1, <2>4, <2>5, HalvedTiles
  <2> HIDE DEF halved
  <2>7. halved \in Seq(Interval) /\ halved # <<>>
    BY <2>6 DEF Tiles
  <2>8. /\ new \in Pass /\ new.chunks = halved /\ new.triples = p.triples
        /\ new.rest = p.rest /\ new.rows = p.rows
    BY <2>3, <2>7 DEF Pass
  <2>9. BatchStart(new) = BatchStart(p) /\ BatchEnd(new) = BatchEnd(p)
    BY <2>8 DEF BatchStart, BatchEnd
  <2>10. Working(new)
    BY <2>3, <2>4, <2>6, <2>8, <2>9 DEF Working
  <2> QED
    BY <2>2, <2>7, <2>8, <2>10 DEF InStep
<1>3. CASE ~(Size(c) > limit)
  BY <1>3, RuledInStep DEF HalveOrRule
<1> QED
  BY <1>2, <1>3

LEMMA ScoredInStep ==
    ASSUME NEW p, InStep(p), p.chunks # <<>>, NEW result, NEW cutOff,
           NEW outcome \in Outcomes[Size(Head(p.chunks))]
    PROVE  InStep(Scored(p, result, cutOff, outcome))
<1> DEFINE c == Head(p.chunks)
           got == [e \in c.first..c.last |-> outcome[e + 1 - c.first]]
<1>1. /\ c.first \in Nat /\ c.last \in Nat /\ Size(c) \in 1..BatchSize
  BY ChunkOfBatch
<1>2. ASSUME outcome # <<>>
      PROVE  InStep(ChunkDone(p, got))
  <2>1. outcome \in [1..Size(c) -> {"own", "place"}]
    BY <1>1, <1>2, OutcomeFacts
  <2>2. \A e \in c.first..c.last : e + 1 - c.first \in 1..Size(c)
    <3> HIDE DEF c
    <3>1. Size(c) = c.last + 1 - c.first
      BY DEF Size
    <3> QED
      BY <1>1, <3>1
  <2>3. got \in [c.first..c.last -> Fair \ {"none"}]
    BY <2>1, <2>2 DEF Fair, Rows
  <2> QED
    BY <2>3, ChunkDoneInStep
<1>3. InStep(ChunkDone(p, Ruled(c)))
  BY RuledInStep
<1>4. InStep(HalveOrRule(p, HalveOverflow)) /\ InStep(HalveOrRule(p, HalveMismatch))
  BY HalveOrRuleInStep, Sizes
<1> QED
  BY <1>2, <1>3, <1>4 DEF Scored

-----------------------------------------------------------------------------
(* Every event is scored once.                                             *)

\* A pass is in its call exactly as long as there are chunks to score.
Passes ==
    /\ pass \in [Scorers -> Pass]
    /\ \A s \in Scorers : InStep(pass[s])
    /\ \A s \in Scorers : pass[s].chunks = <<>> <=> call[s].pc = "idle"

\* An event that is to be scored is in one chunk, any other in none.
LEMMA TilesOnce ==
    ASSUME NEW chunks, NEW first \in 1..LastEvent, NEW last \in 1..LastEvent,
           Tiles(chunks, first, last), NEW e \in 1..LastEvent
    PROVE  LET open == {i \in DOMAIN chunks : In(e, chunks[i])}
           IN  IF e \in first..last THEN Cardinality(open) = 1 ELSE open = {}
<1> DEFINE open == {i \in DOMAIN chunks : In(e, chunks[i])}
<1>1. /\ chunks \in Seq(Interval) /\ Len(chunks) \in Nat \ {0} /\ DOMAIN chunks = 1..Len(chunks)
      /\ 1 \in 1..Len(chunks)
  BY LenProperties, EmptySeq DEF Tiles
<1>2. \A i \in 1..Len(chunks) : chunks[i].first \in Nat /\ chunks[i].last \in Nat
  BY ChunkFacts DEF Tiles
<1>3. /\ chunks[1].first = first
      /\ \A i \in 1..Len(chunks) : chunks[i].first <= chunks[i].last /\ chunks[i].last <= last
      /\ \A i, j \in 1..Len(chunks) : i < j => chunks[i].last < chunks[j].first
      /\ \A d \in first..last : \E i \in 1..Len(chunks) : In(d, chunks[i])
  BY DEF Tiles
<1>4. \A i \in 1..Len(chunks) : first <= chunks[i].first
  <2> SUFFICES ASSUME NEW i \in 1..Len(chunks) PROVE first <= chunks[i].first
    OBVIOUS
  <2>1. CASE i = 1
    BY <1>2, <1>3, <2>1
  <2>2. CASE i # 1
    <3>1. 1 < i
      BY <1>1, <2>2
    <3>2. chunks[1].first <= chunks[1].last /\ chunks[1].last < chunks[i].first
      BY <1>1, <1>3, <3>1
    <3> QED
      BY <1>1, <1>2, <1>3, <3>2
  <2> QED
    BY <2>1, <2>2
<1>5. CASE e \in first..last
  <2>1. PICK i \in 1..Len(chunks) : In(e, chunks[i])
    BY <1>3, <1>5
  <2>2. ASSUME NEW j \in 1..Len(chunks), In(e, chunks[j]) PROVE j = i
    <3>1. /\ chunks[i].first <= e /\ e <= chunks[i].last
          /\ chunks[j].first <= e /\ e <= chunks[j].last
      BY <2>1, <2>2 DEF In
    <3>2. i < j => chunks[i].last < chunks[j].first
      BY <1>3
    <3>3. j < i => chunks[j].last < chunks[i].first
      BY <1>3
    <3>4. ~(i < j) /\ ~(j < i)
      BY <1>2, <3>1, <3>2, <3>3
    <3> QED
      BY <3>4
  <2>3. open = {i}
    BY <1>1, <2>1, <2>2
  <2> QED
    BY <1>5, <2>3, FS_Singleton
<1>6. CASE e \notin first..last
  <2>1. ASSUME NEW i \in 1..Len(chunks), In(e, chunks[i]) PROVE FALSE
    <3>1. first <= chunks[i].first /\ chunks[i].first <= e /\ e <= chunks[i].last
          /\ chunks[i].last <= last
      BY <1>3, <1>4, <2>1 DEF In
    <3> QED
      BY <1>2, <1>6, <3>1
  <2>2. open = {}
    BY <1>1, <2>1
  <2> QED
    BY <1>6, <2>2
<1> QED
  BY <1>5, <1>6

LEMMA PassesImplyOnce == Passes => EachEventOnce
<1> SUFFICES ASSUME Passes, NEW s \in Scorers
             PROVE  LET p == pass[s]
                        open(e) == {i \in DOMAIN p.chunks : In(e, p.chunks[i])}
                        batch == {e \in 1..LastEvent : e < p.rest /\ e + BatchSize >= p.rest}
                        written == {e \in 1..LastEvent : p.rows[e] # "none"}
                    IN  IF Scoring(s)
                        THEN \A e \in 1..LastEvent :
                                IF e \in batch
                                THEN Cardinality(open(e)) + (IF p.triples[e] = "none" THEN 0 ELSE 1) = 1
                                ELSE open(e) = {} /\ p.triples[e] = "none"
                        ELSE /\ p.rest > LastEvent => written = 1..LastEvent
                             /\ \A e \in written : \A d \in 1..LastEvent :
                                   (d - 1) \div BatchSize = (e - 1) \div BatchSize => d \in written
  BY DEF EachEventOnce
<1> DEFINE p == pass[s]
           open(e) == {i \in DOMAIN p.chunks : In(e, p.chunks[i])}
           batch == {e \in 1..LastEvent : e < p.rest /\ e + BatchSize >= p.rest}
           written == {e \in 1..LastEvent : p.rows[e] # "none"}
<1>0. InStep(p) /\ p.rest \in Nat /\ (Scoring(s) <=> p.chunks # <<>>)
  BY DEF Passes, InStep, Pass, Scoring
<1> HIDE DEF p
<1>1. ASSUME Scoring(s), NEW e \in 1..LastEvent
      PROVE  IF e \in batch
             THEN Cardinality(open(e)) + (IF p.triples[e] = "none" THEN 0 ELSE 1) = 1
             ELSE open(e) = {} /\ p.triples[e] = "none"
  <2> DEFINE start == BatchStart(p)
             end == BatchEnd(p)
  <2>1. Working(p)
    BY <1>0, <1>1 DEF InStep
  <2>2. PICK f \in start..end : Tiles(p.chunks, f, end) /\ Filled(p.triples, start, f)
    BY <2>1 DEF Working
  <2>3. /\ start \in 1..LastEvent /\ end \in 1..LastEvent
        /\ e \in batch <=> e \in start..end
    BY <1>0, <2>1, Sizes DEF Working, BatchStart, BatchEnd
  <2> HIDE DEF start, end, batch
  <2>4. f \in 1..LastEvent /\ start <= f /\ f <= end /\ e \in Nat
    BY <2>2, <2>3, Sizes
  <2>5. IF e \in f..end THEN Cardinality(open(e)) = 1 ELSE open(e) = {}
    BY <2>2, <2>3, <2>4, TilesOnce
  <2>6. p.triples[e] # "none" <=> start <= e /\ e < f
    BY <2>2 DEF Filled
  <2> HIDE DEF open
  <2>7. CASE e \in f..end
    <3>1. e \in batch /\ p.triples[e] = "none"
      BY <2>3, <2>4, <2>6, <2>7
    <3> QED
      BY <2>5, <2>7, <3>1
  <2>8. CASE start <= e /\ e < f
    <3>1. e \in batch /\ p.triples[e] # "none" /\ open(e) = {}
      BY <2>3, <2>4, <2>5, <2>6, <2>8
    <3>2. Cardinality(open(e)) = 0
      BY <3>1, FS_EmptySet
    <3> QED
      BY <3>1, <3>2
  <2>9. CASE e \notin start..end
    <3>1. e \notin batch /\ p.triples[e] = "none" /\ open(e) = {}
      BY <2>3, <2>4, <2>5, <2>6, <2>9
    <3> QED
      BY <3>1
  <2> QED
    BY <2>3, <2>4, <2>7, <2>8, <2>9
<1>2. ASSUME ~Scoring(s)
      PROVE  /\ p.rest > LastEvent => written = 1..LastEvent
             /\ \A e \in written : \A d \in 1..LastEvent :
                   (d - 1) \div BatchSize = (e - 1) \div BatchSize => d \in written
  <2>1. PICK x \in Nat : /\ Boundary(x) /\ Filled(p.rows, 1, x)
                         /\ p.rest > LastEvent => x > LastEvent
    BY <1>0, <1>2 DEF InStep, Resting
  <2>2. \A e \in 1..LastEvent : e \in written <=> e < x
    BY <2>1, Sizes DEF Filled
  <2> HIDE DEF written
  <2>3. written \subseteq 1..LastEvent
    BY DEF written
  <2>4. ASSUME p.rest > LastEvent PROVE written = 1..LastEvent
    <3>1. \A e \in 1..LastEvent : e \in written
      BY <2>1, <2>2, <2>4, Sizes
    <3> QED
      BY <2>3, <3>1
  <2>5. ASSUME NEW e \in written, NEW d \in 1..LastEvent,
               (d - 1) \div BatchSize = (e - 1) \div BatchSize
        PROVE  d \in written
    <3>1. e \in 1..LastEvent /\ e < x
      BY <2>2, <2>3
    <3>2. d < x
      BY <2>1, <2>5, <3>1, SameBatch
    <3> QED
      BY <2>2, <3>2
  <2> QED
    BY <2>4, <2>5
<1> QED
  BY <1>1, <1>2 DEF p

LEMMA PassesImplyFair == Passes => NobodyElsesScore
<1> SUFFICES ASSUME Passes, NEW s \in Scorers, NEW e \in 1..LastEvent
             PROVE  "wrong" \notin {pass[s].rows[e], pass[s].triples[e]}
  BY DEF NobodyElsesScore
<1>1. pass[s].rows[e] \in Fair /\ pass[s].triples[e] \in Fair
  BY DEF Passes, Pass
<1> QED
  BY <1>1 DEF Fair

LEMMA PassesStart == Init => Passes
<1> SUFFICES ASSUME Init PROVE Passes
  OBVIOUS
<1> DEFINE p == [chunks |-> <<>>, triples |-> NoRows, rest |-> 1, rows |-> NoRows]
<1>1. p \in Pass
  BY NoRowsFilled, EmptySeq DEF Pass
<1>2. Boundary(1) /\ 1 \in Nat /\ Filled(NoRows, 1, 1) /\ ~(1 > LastEvent)
      /\ 1 \in 1..(LastEvent + BatchSize)
  BY Boundaries, NoRowsFilled, Sizes
<1>3. Resting(p)
  BY <1>2 DEF Resting
<1>4. InStep(p) /\ p.chunks = <<>>
  BY <1>1, <1>3 DEF InStep
<1>5. pass = [s \in Scorers |-> p] /\ \A s \in Scorers : call[s].pc = "idle"
  BY DEF Init, ClientInit, Idle
<1> HIDE DEF p
<1> QED
  BY <1>1, <1>4, <1>5 DEF Passes

\* A step of one pass.
LEMMA PassSet ==
    ASSUME Passes, NEW s \in Scorers, NEW new, InStep(new),
           pass' = [pass EXCEPT ![s] = new],
           new.chunks = <<>> <=> call'[s].pc = "idle", Others(s)
    PROVE  Passes'
<1>1. new \in Pass
  BY DEF InStep
<1>2. /\ pass' \in [Scorers -> Pass] /\ pass'[s] = new
      /\ \A r \in Scorers : r # s => pass'[r] = pass[r]
  BY <1>1 DEF Passes
<1>3. ASSUME NEW r \in Scorers
      PROVE  InStep(pass'[r]) /\ (pass'[r].chunks = <<>> <=> call'[r].pc = "idle")
  BY <1>2 DEF Passes, Others
<1> QED
  BY <1>2, <1>3 DEF Passes, InStep, Resting, Working

\* A step that leaves the passes alone.
LEMMA PassesKept ==
    ASSUME Passes, UNCHANGED pass,
           \A s \in Scorers : call'[s].pc = "idle" <=> call[s].pc = "idle"
    PROVE  Passes'
BY DEF Passes

LEMMA PassesStep == ClientInv /\ Passes /\ [Next]_vars => Passes'
<1> SUFFICES ASSUME ClientInv, Passes, [Next]_vars PROVE Passes'
  OBVIOUS
<1>1. ASSUME NEW s \in Scorers, PassStarts(s)
      PROVE  Passes'
  <2> DEFINE new == [chunks |-> <<Batch(1)>>, triples |-> NoRows,
                     rest |-> 1 + BatchSize, rows |-> NoRows]
  <2>1. Ask(s) /\ pass' = [pass EXCEPT ![s] = new]
    BY <1>1 DEF PassStarts
  <2>2. InStep(new) /\ new.chunks # <<>>
    <3>1. 1 \in 1..LastEvent /\ Boundary(1) /\ Filled(NoRows, 1, 1)
      BY Boundaries, NoRowsFilled, Sizes
    <3> QED
      BY <3>1, BatchBegun
  <2>3. call'[s].pc # "idle" /\ Others(s)
    BY <2>1, AskStep
  <2> HIDE DEF new
  <2> QED
    BY <2>1, <2>2, <2>3, PassSet
<1>2. ASSUME NEW s \in Scorers, PassCancelled(s)
      PROVE  Passes'
  <2> DEFINE p == pass[s]
             new == [p EXCEPT !.chunks = <<>>, !.triples = NoRows, !.rest = 1]
  <2>1. Cancelled(s) /\ pass' = [pass EXCEPT ![s] = new]
    BY <1>2 DEF PassCancelled, Passes
  <2>2. InStep(p) /\ p \in Pass
    BY DEF Passes
  <2>3. \E x \in Nat : Boundary(x) /\ Filled(p.rows, 1, x)
    BY <2>2, Sizes DEF InStep, Resting, Working
  <2> HIDE DEF p
  <2>4. /\ new.chunks = <<>> /\ new.rest = 1 /\ new.rows = p.rows /\ new \in Pass
    BY <2>2, NoRowsFilled, EmptySeq DEF Pass
  <2> HIDE DEF new
  <2>5. Resting(new)
    BY <2>3, <2>4, Sizes DEF Resting
  <2>6. InStep(new)
    BY <2>4, <2>5 DEF InStep
  <2>7. call'[s].pc = "idle" /\ Others(s)
    BY <2>1, CancelledStep
  <2> QED
    BY <2>1, <2>4, <2>6, <2>7, PassSet
<1>3. ASSUME NEW t \in Translators, NEW l \in Langs, PageAsksFor(t, l)
      PROVE  Passes'
  BY <1>3, PassesKept DEF PageAsksFor, clientVars
<1>4. ASSUME NEW t \in Translators, TaskStarts(t)
      PROVE  Passes'
  <2>1. UNCHANGED pass /\ (Ask(t) \/ UNCHANGED call)
    BY <1>4 DEF TaskStarts, clientVars
  <2>2. CASE Ask(t)
    <3>1. Others(t)
      BY <2>2, AskStep
    <3> QED
      BY <2>1, <3>1, PassesKept DEF Others
  <2>3. CASE UNCHANGED call
    BY <2>1, <2>3, PassesKept
  <2> QED
    BY <2>1, <2>2, <2>3
<1>5. ASSUME NEW t \in Translators, NEW reply \in Replies, NEW full \in BOOLEAN,
             TaskEnds(t, reply, full)
      PROVE  Passes'
  <2>1. Others(t) /\ UNCHANGED pass
    BY <1>5, ReturnsStep DEF TaskEnds
  <2> QED
    BY <2>1, PassesKept DEF Others
<1>6. ASSUME NEW c \in Callers, NEW reply \in Replies, NEW full \in BOOLEAN,
             Retries(c, reply, full), UNCHANGED callerVars
      PROVE  Passes'
  <2>1. Others(c) /\ call'[c].pc # "idle" /\ call[c].pc # "idle"
    BY <1>6, RetriesStep DEF Retries, Asking
  <2> QED
    BY <1>6, <2>1, PassesKept DEF Others, callerVars
<1>7. ASSUME NEW s \in Scorers, NEW reply \in Replies, NEW full \in BOOLEAN,
             ScorerGoesOn(s, reply, full)
      PROVE  Passes'
  <2> DEFINE cutOff == Recorded(s, reply, full)[s].full
             new(outcome) == Scored(pass[s], Returned(s, reply), cutOff, outcome)
  <2>1. PICK outcome \in Outcomes[Size(Head(pass[s].chunks))] :
           /\ pass' = [pass EXCEPT ![s] = new(outcome)]
           /\ IF new(outcome).chunks = <<>> THEN Returns(s, reply, full)
              ELSE ReturnsAndAsks(s, reply, full)
    BY <1>7 DEF ScorerGoesOn
  <2>2. pass[s].chunks # <<>> /\ InStep(pass[s])
    BY <1>7 DEF Passes, ScorerGoesOn, Asking
  <2>3. InStep(new(outcome))
    BY <2>2, ScoredInStep
  <2> HIDE DEF new
  <2>4. Others(s) /\ (new(outcome).chunks = <<>> <=> call'[s].pc = "idle")
    BY <2>1, ReturnsStep, ReturnsAndAsksStep
  <2> QED
    BY <2>1, <2>3, <2>4, PassSet
<1>8. ASSUME NEW c \in Callers, Answered(c)
      PROVE  Passes'
  <2>1. PICK reply \in Replies, full \in BOOLEAN :
          \/ c \in Scorers /\ (ScorerGoesOn(c, reply, full) \/ ScorerRetries(c, reply, full))
          \/ /\ c \in Translators
             /\ TaskEnds(c, reply, full) \/ TaskRetries(c, reply, full)
    BY <1>8 DEF Answered
  <2> QED
    BY <1>5, <1>6, <1>7, <2>1 DEF ScorerRetries, TaskRetries
<1>9. CASE UNCHANGED vars
  BY <1>9, PassesKept DEF vars, clientVars, callerVars
<1> QED
  BY <1>1, <1>2, <1>3, <1>4, <1>8, <1>9 DEF Next

LEMMA PassesInvariance == Spec => []Passes
<1>1. Spec => []ClientInv
  BY ClientInvariance, CallersAreClients, PTL
<1> QED
  BY <1>1, PassesStart, PassesStep, PTL DEF Spec

\* However the answers make a pass cut its batches up, every event is in one
\* chunk or has been scored, never both, a pass that ends has a row for every
\* event, and a cancelled one has whole batches (scoring.py:520-675).
THEOREM EventsAreScoredOnce == Spec => []EachEventOnce
BY PassesInvariance, PassesImplyOnce, PTL

\* No answer that numbers its entries gives an event the score of another, by
\* whatever permutation, gap or repetition of the numbers it is cut or shuffled
\* (_align_to_chunk, scoring.py:274-313).
THEOREM ScoresAreOnesOwn == Spec => []NobodyElsesScore
BY PassesInvariance, PassesImplyFair, PTL

\* What is stored for a language are keys of the German file.
Stored == stored \in [Langs -> SUBSET Keys]

LEMMA StoredStep == Tasks /\ Stored /\ [Next]_vars => Stored'
<1> SUFFICES ASSUME Tasks, stored \in [Langs -> SUBSET Keys], [Next]_vars
             PROVE  stored' \in [Langs -> SUBSET Keys]
  BY DEF Stored
<1>1. ASSUME NEW t \in Translators, NEW reply \in Replies, NEW full \in BOOLEAN,
             TaskEnds(t, reply, full)
      PROVE  stored' \in [Langs -> SUBSET Keys]
  <2>1. PICK got \in SUBSET Keys :
           stored' = [stored EXCEPT ![task[t].lang] = stored[task[t].lang] \cup got]
    BY <1>1 DEF TaskEnds
  <2> QED
    BY <2>1
<1>2. ASSUME NEW c \in Callers, Answered(c)
      PROVE  stored' \in [Langs -> SUBSET Keys]
  BY <1>1, <1>2 DEF Answered, ScorerGoesOn, ScorerRetries, TaskRetries, callerVars
<1>3. CASE UNCHANGED stored
  BY <1>3
<1> QED
  BY <1>2, <1>3 DEF Next, PassStarts, PassCancelled, PageAsksFor, TaskStarts,
                    vars, callerVars

\* Chunks lie within the events, batches within the pass, and what is stored
\* within the keys, for any limits of the halving and any sizes of batches.
THEOREM TypeCorrect == Spec => []TypeOK
<1>1. Passes => \A s \in Scorers :
                   /\ pass[s].chunks \in Seq(Interval)
                   /\ pass[s].triples \in [1..LastEvent -> Rows]
                   /\ pass[s].rest \in 1..(LastEvent + BatchSize)
                   /\ pass[s].rows \in [1..LastEvent -> Rows]
  <2> SUFFICES ASSUME Passes, NEW s \in Scorers
               PROVE  /\ pass[s].chunks \in Seq(Interval)
                      /\ pass[s].triples \in [1..LastEvent -> Rows]
                      /\ pass[s].rest \in 1..(LastEvent + BatchSize)
                      /\ pass[s].rows \in [1..LastEvent -> Rows]
    OBVIOUS
  <2>1. pass[s] \in Pass /\ InStep(pass[s])
    BY DEF Passes
  <2>2. Fair \subseteq Rows
    BY DEF Fair
  <2>3. pass[s].rest \in 1..(LastEvent + BatchSize)
    <3>1. pass[s].rest \in Nat
      BY <2>1 DEF Pass
    <3> QED
      BY <2>1, <3>1, Sizes DEF InStep, Resting, Working, BatchStart
  <2> QED
    BY <2>1, <2>2, <2>3 DEF Pass
<1>2. Init => Stored
  BY DEF Init, Stored
<1>3. ClientInv => ClientTypeOK
  BY DEF ClientInv
<1>4. ClientInv /\ Passes /\ Tasks /\ Stored => TypeOK
  BY <1>1, <1>3 DEF TypeOK, Tasks, Stored
<1>5. Spec => []ClientInv
  BY ClientInvariance, CallersAreClients, PTL
<1>6. Spec => []Tasks
  BY <1>5, TasksStart, TasksStep, PTL DEF Spec
<1> QED
  BY <1>2, <1>4, <1>5, <1>6, PassesInvariance, StoredStep, PTL DEF Spec

===============================================================================
