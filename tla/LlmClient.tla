------------------------------ MODULE LlmClient ------------------------------
(***************************************************************************)
(* ask_json of app/services/ollama.py: a call to the language model makes   *)
(* one request, and a second one if the first answer is not JSON.  All      *)
(* tasks share a semaphore of one, taken for each request anew; what a      *)
(* request cost is left in a context variable of the task (last_usage),     *)
(* which the caller reads after the call.                                  *)
(*                                                                         *)
(* Abstracted: prompts and texts.  An answer is known by the request of     *)
(* the call it came from, 1 or 2; 0 stands for none.                        *)
(***************************************************************************)
EXTENDS Naturals, Sequences

CONSTANT Callers   \* the tasks that ask

VARIABLES
    free,      \* is the semaphore's value 1?
    waiting,   \* the tasks that wait for it, asyncio wakes the first
    call,      \* per task, its call of ask_json
    usage      \* per task, _last_usage

clientVars == <<free, waiting, call, usage>>

\* raw: the request whose text last_raw is, 0 if that is empty.  result: what
\* the latest call returned, parsed (a dict) or not (the text), of 0: None.
Result == [of : 0..2, parsed : BOOLEAN]
Call == [pc : {"idle", "wait", "ask"}, attempt : 1..2, raw : 0..2, result : Result]
Usage == [of : 0..2, full : BOOLEAN]   \* full: prompt or answer cut off

Nothing == [of |-> 0, parsed |-> FALSE]
Idle(result) == [pc |-> "idle", attempt |-> 1, raw |-> 0, result |-> result]

ClientTypeOK ==
    /\ free \in BOOLEAN
    /\ waiting \in Seq(Callers)
    /\ call \in [Callers -> Call]
    /\ usage \in [Callers -> Usage]

ClientInit ==
    /\ free = TRUE
    /\ waiting = <<>>
    /\ call = [c \in Callers |-> Idle(Nothing)]
    /\ usage = [c \in Callers |-> [of |-> 0, full |-> FALSE]]

Asking(c) == call[c].pc = "ask"

-----------------------------------------------------------------------------
(* The semaphore.                                                          *)

\* Mutant: the first in the queue is taken off it, but not woken.
HandedToNobody(cl) == cl

\* Leaving with somebody waiting passes the semaphore on to the first.
Handed(cl) ==
    IF waiting = <<>> THEN cl ELSE [cl EXCEPT ![Head(waiting)].pc = "ask"]

\* Mutant: whoever leaves frees the semaphore and wakes the first as well.
FreedAndHanded == free' = TRUE /\ waiting' = IF waiting = <<>> THEN <<>> ELSE Tail(waiting)

PassedOn ==
    /\ free' = (waiting = <<>>)
    /\ waiting' = IF waiting = <<>> THEN <<>> ELSE Tail(waiting)

\* waiting without its i-th entry
Without(i) ==
    [j \in 1..(Len(waiting) - 1) |-> IF j < i THEN waiting[j] ELSE waiting[j + 1]]

-----------------------------------------------------------------------------
(* ask_json.                                                               *)

\* What can come back for a request: "failed" (transport, HTTP status),
\* "garbled" (the body is no JSON), or a body with a text: "empty", "prose"
\* (no JSON in it), "null" (which json.loads makes None), or "json".
Replies == {"failed", "garbled", "empty", "prose", "null", "json"}
Unparsable == {"garbled", "empty", "prose"}

\* last_raw after the reply
RawAfter(c, reply) ==
    CASE reply \in {"prose", "null", "json"} -> call[c].attempt
      [] reply = "empty" -> 0
      [] OTHER -> call[c].raw

\* Mutant: the usage is recorded once the text has been parsed.
RecordedIfParsed(c, reply, full) ==
    IF reply \in {"null", "json"}
    THEN [usage EXCEPT ![c] = [of |-> call[c].attempt, full |-> full]]
    ELSE usage

\* _record, before the text is parsed
Recorded(c, reply, full) ==
    IF reply \in {"failed", "garbled"} THEN usage
    ELSE [usage EXCEPT ![c] = [of |-> call[c].attempt, full |-> full]]

Returned(c, reply) ==
    CASE reply = "json" -> [of |-> call[c].attempt, parsed |-> TRUE]
      [] reply \in Unparsable -> [of |-> RawAfter(c, reply), parsed |-> FALSE]
      [] OTHER -> Nothing

\* The call begins.  The usage found there is of an earlier call.
Ask(c) ==
    /\ call[c].pc = "idle"
    /\ call' = [call EXCEPT ![c] = [pc |-> IF free THEN "ask" ELSE "wait",
                                    attempt |-> 1, raw |-> 0, result |-> Nothing]]
    /\ free' = FALSE
    /\ waiting' = IF free THEN waiting ELSE Append(waiting, c)
    /\ usage' = [usage EXCEPT ![c].of = 0]

\* The first answer cannot be parsed: leave the semaphore, queue up again.
Retries(c, reply, full) ==
    /\ Asking(c)
    /\ call[c].attempt = 1
    /\ reply \in Unparsable
    /\ call' = Handed([call EXCEPT
                  ![c].pc = IF waiting = <<>> THEN "ask" ELSE "wait",
                  ![c].attempt = 2,
                  ![c].raw = RawAfter(c, reply)])
    /\ waiting' = IF waiting = <<>> THEN <<>> ELSE Append(Tail(waiting), c)
    /\ usage' = Recorded(c, reply, full)
    /\ UNCHANGED free

\* The call returns.
Returns(c, reply, full) ==
    /\ Asking(c)
    /\ reply \notin Unparsable \/ call[c].attempt = 2
    /\ call' = Handed([call EXCEPT ![c] = Idle(Returned(c, reply))])
    /\ PassedOn
    /\ usage' = Recorded(c, reply, full)

\* The call returns, and the task at once makes the next one.
ReturnsAndAsks(c, reply, full) ==
    /\ Asking(c)
    /\ reply \notin Unparsable \/ call[c].attempt = 2
    /\ call' = Handed([call EXCEPT
                  ![c] = [pc |-> IF waiting = <<>> THEN "ask" ELSE "wait",
                          attempt |-> 1, raw |-> 0, result |-> Nothing]])
    /\ waiting' = IF waiting = <<>> THEN <<>> ELSE Append(Tail(waiting), c)
    /\ usage' = [Recorded(c, reply, full) EXCEPT ![c].of = 0]
    /\ UNCHANGED free

\* The task is cancelled at its await.
CancelledAsking(c) ==
    /\ Asking(c)
    /\ call' = Handed([call EXCEPT ![c] = Idle(Nothing)])
    /\ PassedOn
    /\ UNCHANGED usage

CancelledWaiting(c) ==
    /\ \E i \in 1..Len(waiting) : waiting[i] = c /\ waiting' = Without(i)
    /\ call' = [call EXCEPT ![c] = Idle(Nothing)]
    /\ UNCHANGED <<free, usage>>

Cancelled(c) == CancelledAsking(c) \/ CancelledWaiting(c)

ClientNext ==
    \E c \in Callers :
        \/ Ask(c)
        \/ Cancelled(c)
        \/ \E reply \in Replies, full \in BOOLEAN :
              \/ Retries(c, reply, full)
              \/ Returns(c, reply, full)
              \/ ReturnsAndAsks(c, reply, full)

ClientSpec == ClientInit /\ [][ClientNext]_clientVars

-----------------------------------------------------------------------------
(* Properties.                                                             *)

\* Never are two requests out at a time, retries and cancelled tasks
\* included: a queued request would burn its timeout in Ollama's own queue.
OneRequest == \A c, d \in Callers : Asking(c) /\ Asking(d) => c = d

\* Nor is the semaphore lost: it is free, or exactly one task makes a request,
\* and whoever waits for it stands in the queue, once.
SemaphoreKept ==
    /\ OneRequest
    /\ free <=> \A c \in Callers : ~Asking(c)
    /\ free => waiting = <<>>
    /\ \A i \in DOMAIN waiting : call[waiting[i]].pc = "wait"
    /\ \A i, j \in DOMAIN waiting : waiting[i] = waiting[j] => i = j
    /\ \A c \in Callers :
          call[c].pc = "wait" => \E i \in DOMAIN waiting : waiting[i] = c

\* After a call that returned something, last_usage() tells of the very
\* request whose answer was returned, not of an earlier one.
UsageOfResult ==
    \A c \in Callers : call[c].pc = "idle" /\ call[c].result.of # 0
                       => usage[c].of = call[c].result.of
=============================================================================
