------------------------------ MODULE BatchProxy ------------------------------
(***************************************************************************)
(* BatchProxy (experiments/batch_proxy.py): handler threads put requests   *)
(* on a queue under a lock; a one-shot timer thread takes the whole queue, *)
(* posts it to the model server and hands the responses back through       *)
(* per-request holders (a response and an event).                          *)
(*                                                                         *)
(* One step is one critical section, one network call or one write to a    *)
(* holder.  A request id stands for one do_POST call, its payload and the  *)
(* server's reply to it.                                                   *)
(***************************************************************************)
EXTENDS Naturals, Sequences

CONSTANTS
    Requests,   \* one per do_POST call
    Timers      \* identities of the timer threads that may exist at once

Failed == "failed"        \* {"error": str(e)} of a failed post
Missing == "missing"      \* {"error": "missing"}
TimedOut == "timeout"     \* {"error": "batch proxy timeout"}
Rejected == "rejected"    \* 400 or 413 before the request is submitted
Errors == {Failed, Missing, TimedOut, Rejected}
None == "none"            \* a holder's response before it is written

ASSUME ProxyAssumption ==
    /\ Timers # {}
    /\ Requests \cap (Errors \cup {None}) = {}

VARIABLES
    pc,            \* handler thread: "idle", "waiting" (in submit) or "done"
    answer,        \* what the handler responded with
    queue,         \* _queue
    timerRunning,  \* _timer_running
    response,      \* result_holder["response"]
    event,         \* result_holder["event"].is_set()
    flush,         \* timer thread: "idle", "armed", then the steps of _flush
    batch,         \* the batch a timer thread has taken
    responses,     \* the list it got from the server
    index,         \* i of its delivery loop
    requestCount, batchCount

clientVars == <<pc, answer>>
holderVars == <<response, event>>
flushVars == <<flush, batch, responses, index>>
countVars == <<requestCount, batchCount>>
vars == <<clientVars, queue, timerRunning, holderVars, flushVars, countVars>>

-----------------------------------------------------------------------------
Init ==
    /\ pc = [r \in Requests |-> "idle"]
    /\ answer = [r \in Requests |-> None]
    /\ queue = << >>
    /\ timerRunning = FALSE
    /\ response = [r \in Requests |-> None]
    /\ event = [r \in Requests |-> FALSE]
    /\ flush = [t \in Timers |-> "idle"]
    /\ batch = [t \in Timers |-> << >>]
    /\ responses = [t \in Timers |-> << >>]
    /\ index = [t \in Timers |-> 1]
    /\ requestCount = 0
    /\ batchCount = 0

\* do_POST answers a malformed or oversized request without submitting it.
Reject(r) ==
    /\ pc[r] = "idle"
    /\ pc' = [pc EXCEPT ![r] = "done"]
    /\ answer' = [answer EXCEPT ![r] = Rejected]
    /\ UNCHANGED <<queue, timerRunning, holderVars, flushVars, countVars>>

\* threading.Timer(batch_window, _flush).start()
StartTimer == \E t \in Timers : /\ flush[t] = "idle"
                                /\ flush' = [flush EXCEPT ![t] = "armed"]

\* Mutant: a timer is started whenever the queue was empty.
MustStartWhenEmpty(q) == Len(q) = 1

\* The test of submit, after the append: the first request starts the timer,
\* unless a flush is under way, which restarts it itself.
MustStart(q) == Len(q) = 1 /\ ~timerRunning

\* submit: the critical section; the handler then waits on its event.
Submit(r) ==
    /\ pc[r] = "idle"
    /\ pc' = [pc EXCEPT ![r] = "waiting"]
    /\ queue' = Append(queue, r)
    /\ requestCount' = requestCount + 1
    /\ IF MustStart(queue')
       THEN timerRunning' = TRUE /\ StartTimer
       ELSE UNCHANGED <<timerRunning, flush>>
    /\ UNCHANGED <<answer, holderVars, batch, responses, index, batchCount>>

Respond(r, v) ==
    /\ pc' = [pc EXCEPT ![r] = "done"]
    /\ answer' = [answer EXCEPT ![r] = v]
    /\ UNCHANGED <<queue, timerRunning, holderVars, flushVars, countVars>>

\* submit: event.wait(timeout=30) gave up.  The request stays where it is.
GiveUp(r) == pc[r] = "waiting" /\ ~event[r] /\ Respond(r, TimedOut)

\* submit: the event is set, return the response.
Return(r) == pc[r] = "waiting" /\ event[r] /\ Respond(r, response[r])

\* Mutant: only the oldest request is taken, the queue is cleared all the same.
TakenHead(q) == IF q = << >> THEN << >> ELSE <<Head(q)>>

\* list(self._queue)
Taken(q) == q

\* _flush: the first critical section.  On an empty queue it returns, leaving
\* _timer_running as it is.
Take(t) ==
    /\ flush[t] = "armed"
    /\ flush' = [flush EXCEPT ![t] = IF queue = << >> THEN "idle" ELSE "post"]
    /\ batch' = [batch EXCEPT ![t] = Taken(queue)]
    /\ queue' = << >>
    /\ UNCHANGED <<clientVars, timerRunning, holderVars, responses, index, countVars>>

\* _post_single and _post_batch: an error for every request, or a list of
\* replies in request order.  /batch_chat may return fewer than were asked for.
Outcomes(b) ==
    {[i \in 1..Len(b) |-> Failed]}
      \cup {[i \in 1..n |-> b[i]] : n \in IF Len(b) = 1 THEN {1} ELSE 0..Len(b)}

CountsAsBatch(b) == Len(b) > 1

Post(t) ==
    /\ flush[t] = "post"
    /\ flush' = [flush EXCEPT ![t] = "write"]
    /\ \E out \in Outcomes(batch[t]) : responses' = [responses EXCEPT ![t] = out]
    /\ index' = [index EXCEPT ![t] = 1]
    /\ batchCount' = IF CountsAsBatch(batch[t]) THEN batchCount + 1 ELSE batchCount
    /\ UNCHANGED <<clientVars, queue, timerRunning, holderVars, batch, requestCount>>

\* Mutant: the responses are read from the second on.
ResponseShifted(t) ==
    IF index[t] + 1 <= Len(responses[t]) THEN responses[t][index[t] + 1] ELSE Missing

\* responses[i] if i < len(responses) else {"error": "missing"}
ResponseAt(t) ==
    IF index[t] <= Len(responses[t]) THEN responses[t][index[t]] ELSE Missing

\* rh["response"] = ...
Write(t) ==
    /\ flush[t] = "write"
    /\ flush' = [flush EXCEPT ![t] = "set"]
    /\ response' = [response EXCEPT ![batch[t][index[t]]] = ResponseAt(t)]
    /\ UNCHANGED <<clientVars, queue, timerRunning, event, batch, responses, index, countVars>>

\* Mutant: the loop runs one past the end of the batch.
MoreToDeliverPastEnd(t) == index[t] <= Len(batch[t])

MoreToDeliver(t) == index[t] < Len(batch[t])

\* rh["event"].set(), and the loop goes on or ends.
Set(t) ==
    /\ flush[t] = "set"
    /\ event' = [event EXCEPT ![batch[t][index[t]]] = TRUE]
    /\ IF MoreToDeliver(t)
       THEN /\ index' = [index EXCEPT ![t] = @ + 1]
            /\ flush' = [flush EXCEPT ![t] = "write"]
       ELSE /\ flush' = [flush EXCEPT ![t] = "finish"]
            /\ UNCHANGED index
    /\ UNCHANGED <<clientVars, queue, timerRunning, response, batch, responses, countVars>>

\* Mutant: requests that arrived during the flush wait for the next submit.
FinishNoRestart(t) ==
    /\ flush[t] = "finish"
    /\ timerRunning' = FALSE
    /\ flush' = [flush EXCEPT ![t] = "idle"]
    /\ UNCHANGED <<clientVars, queue, holderVars, batch, responses, index, countVars>>

\* Mutant: the flag stays set when nothing arrived during the flush.
FinishKeepsFlag(t) ==
    /\ flush[t] = "finish"
    /\ flush' = [flush EXCEPT ![t] = IF queue # << >> THEN "armed" ELSE "idle"]
    /\ UNCHANGED <<clientVars, queue, timerRunning, holderVars, batch, responses, index, countVars>>

\* _flush: the last critical section.  This thread ends and, if requests arrived
\* meanwhile, starts a fresh timer, which takes over its identity.
Finish(t) ==
    /\ flush[t] = "finish"
    /\ timerRunning' = (queue # << >>)
    /\ flush' = [flush EXCEPT ![t] = IF queue # << >> THEN "armed" ELSE "idle"]
    /\ UNCHANGED <<clientVars, queue, holderVars, batch, responses, index, countVars>>

Client(r) == Reject(r) \/ Submit(r) \/ GiveUp(r) \/ Return(r)
Timer(t) == Take(t) \/ Post(t) \/ Write(t) \/ Set(t) \/ Finish(t)

Next == (\E r \in Requests : Client(r)) \/ (\E t \in Timers : Timer(t))

Spec == Init /\ [][Next]_vars

\* A started timer fires and its thread keeps running; urlopen has a timeout, so
\* a post returns.  A handler whose event is set goes on.  Nothing makes a request
\* arrive, and nothing is assumed of the handler's own timeout.
FairSpec == /\ Spec
            /\ \A t \in Timers : WF_vars(Timer(t))
            /\ \A r \in Requests : WF_vars(Return(r))

-----------------------------------------------------------------------------
Payloads == Errors \cup {None} \cup Requests

FlushSteps == {"idle", "armed", "post", "write", "set", "finish"}

\* Every variable has its type, and a delivery loop stays inside its batch.
TypeOK ==
    /\ pc \in [Requests -> {"idle", "waiting", "done"}]
    /\ answer \in [Requests -> Payloads]
    /\ queue \in Seq(Requests)
    /\ timerRunning \in BOOLEAN
    /\ response \in [Requests -> Payloads]
    /\ event \in [Requests -> BOOLEAN]
    /\ flush \in [Timers -> FlushSteps]
    /\ batch \in [Timers -> Seq(Requests)]
    /\ responses \in [Timers -> Seq({Failed} \cup Requests)]
    /\ index \in [Timers -> Nat \ {0}]
    /\ requestCount \in Nat /\ batchCount \in Nat
    /\ \A t \in Timers : flush[t] \in {"write", "set"} => index[t] <= Len(batch[t])

\* The lock and the flag together elect one flusher: a timer thread exists exactly
\* while _timer_running is set, and never two of them (so _batch_count, which is
\* updated outside the lock, has one writer).
OneFlusher ==
    /\ timerRunning <=> \E t \in Timers : flush[t] # "idle"
    /\ \A t, u \in Timers : flush[t] # "idle" /\ flush[u] # "idle" => t = u

\* No request is stranded: while the queue holds something a timer will come for it.
\* And a timer that fires finds work: the early return of _flush, which leaves
\* _timer_running set for ever, is never taken.
QueueServed ==
    /\ queue # << >> => timerRunning
    /\ \A t \in Timers : flush[t] = "armed" => queue # << >>

\* The part of a batch that its flush has still to deliver.
Undelivered(t) == IF flush[t] = "post" THEN 1..Len(batch[t])
                  ELSE IF flush[t] \in {"write", "set"} THEN index[t]..Len(batch[t])
                  ELSE {}

Queued(r) == \E i \in 1..Len(queue) : queue[i] = r
Held(r) == \E t \in Timers : \E i \in Undelivered(t) : batch[t][i] = r
Submitted(r) == pc[r] = "waiting" \/ (pc[r] = "done" /\ answer[r] # Rejected)

\* A submitted request is in exactly one place, the queue or an undelivered part of
\* a batch, until its event is set, and in none afterwards: no request is lost,
\* dispatched twice or answered twice, even when its handler has given up meanwhile.
InOnePlace ==
    /\ \A r \in Requests :
         /\ Queued(r) \/ Held(r) <=> Submitted(r) /\ ~event[r]
         /\ ~(Queued(r) /\ Held(r))
    /\ \A i, j \in 1..Len(queue) : queue[i] = queue[j] => i = j
    /\ \A t \in Timers : \A i, j \in Undelivered(t) : batch[t][i] = batch[t][j] => i = j

\* Every submitted request gets its event set and every call returns, with no help
\* from the 30 s timeout (GiveUp is not fair): the proxy never falls silent.
EveryRequestServed ==
    \A r \in Requests : pc[r] = "waiting" ~> (event[r] /\ pc[r] = "done")

\* The proxy implements the abstract call: one answer per request, its own.
Abstract == INSTANCE RequestReply WITH
    Errors <- Errors,
    call <- [r \in Requests |-> CASE pc[r] = "idle" -> "idle"
                                  [] pc[r] = "waiting" -> "pending"
                                  [] pc[r] = "done" -> "answered"],
    answer <- answer

\* Seen from the workers, every behaviour of the proxy is one of RequestReply.
ImplementsRequestReply == Abstract!Spec
=============================================================================
