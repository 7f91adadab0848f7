--------------------------- MODULE BatchProxyProofs ---------------------------
(* Proofs about BatchProxy for any number of calls and timer threads.        *)
EXTENDS BatchProxy, SequenceTheorems, TLAPS

\* What a holder may contain: nothing yet, an error, or the reply to its own request.
Fit(r) == {Failed, Missing, r}

\* A posted batch has responses that fit it, and no event is set, or about to be set,
\* before its holder has been written.
HoldersFit ==
    /\ \A r \in Requests : response[r] \in Fit(r) \cup {None}
    /\ \A r \in Requests : event[r] => response[r] # None
    /\ \A t \in Timers : flush[t] \in {"write", "set"} =>
          \A i \in 1..Len(batch[t]) :
              i <= Len(responses[t]) => responses[t][i] \in Fit(batch[t][i])
    /\ \A t \in Timers : flush[t] = "set" => response[batch[t][index[t]]] # None

\* A timer thread past its first critical section has a batch to deliver.
BatchTaken == \A t \in Timers : flush[t] \in {"post", "write", "set", "finish"} => batch[t] # << >>

\* The inductive invariant.
ProxyInv == TypeOK /\ OneFlusher /\ QueueServed /\ BatchTaken /\ HoldersFit

-----------------------------------------------------------------------------
\* A list of values, however it is written, is a sequence of them.
LEMMA ListIsSeq ==
    ASSUME NEW S, NEW n \in Nat, NEW f \in [1..n -> S]
    PROVE  f \in Seq(S) /\ Len(f) = n
<1>1. f \in Seq(S)
  BY SeqDef
<1> QED BY <1>1

\* Whatever the server does, each response of the list belongs to the request at its place.
LEMMA OutcomesFit ==
    ASSUME NEW b \in Seq(Requests), b # << >>, NEW out \in Outcomes(b)
    PROVE  /\ out \in Seq({Failed} \cup Requests) /\ Len(out) <= Len(b)
           /\ \A i \in 1..Len(b) : i <= Len(out) => out[i] \in Fit(b[i])
<1>1. Len(b) \in Nat /\ \A i \in 1..Len(b) : b[i] \in Requests
  OBVIOUS
<1>2. PICK n \in 0..Len(b) : \/ out = [i \in 1..n |-> b[i]]
                             \/ n = Len(b) /\ out = [i \in 1..n |-> Failed]
  BY <1>1 DEF Outcomes
<1>3. out \in [1..n -> {Failed} \cup Requests] /\ n \in Nat
  BY <1>1, <1>2
<1>4. out \in Seq({Failed} \cup Requests) /\ Len(out) = n
  BY <1>3, ListIsSeq
<1> QED BY <1>1, <1>2, <1>4 DEF Fit

-----------------------------------------------------------------------------
\* The initial state satisfies the invariant.
LEMMA ProxyInit == Init => ProxyInv
<1> SUFFICES ASSUME Init PROVE ProxyInv
  OBVIOUS
<1>1. \A t \in Timers : flush[t] = "idle"
  BY DEF Init
<1>2. TypeOK
  <2>1. batch \in [Timers -> Seq(Requests)] /\ queue \in Seq(Requests)
    BY EmptySeq DEF Init
  <2>2. responses \in [Timers -> Seq({Failed} \cup Requests)]
    <3>1. << >> \in Seq({Failed} \cup Requests)
      BY EmptySeq
    <3> QED BY <3>1 DEF Init
  <2>3. None \in Payloads
    BY DEF Payloads
  <2>4. answer \in [Requests -> Payloads] /\ response \in [Requests -> Payloads]
    BY <2>3 DEF Init
  <2>5. /\ pc \in [Requests -> {"idle", "waiting", "done"}]
        /\ flush \in [Timers -> FlushSteps] /\ index \in [Timers -> Nat \ {0}]
    BY DEF Init, FlushSteps
  <2>6. timerRunning \in BOOLEAN /\ requestCount \in Nat /\ batchCount \in Nat
    BY DEF Init
  <2>7. event \in [Requests -> BOOLEAN]
    BY Zenon DEF Init
  <2> QED BY <1>1, <2>1, <2>2, <2>4, <2>5, <2>6, <2>7 DEF TypeOK
<1>3. OneFlusher /\ QueueServed /\ BatchTaken
  BY <1>1 DEF Init, OneFlusher, QueueServed, BatchTaken
<1>4. HoldersFit
  BY <1>1 DEF Init, HoldersFit
<1> QED BY <1>2, <1>3, <1>4 DEF ProxyInv

\* The steps of a handler that end its call touch neither the queue nor a flush.
LEMMA RespondStep ==
    ASSUME ProxyInv, NEW r \in Requests, NEW v \in Payloads, Respond(r, v)
    PROVE  ProxyInv'
BY DEF ProxyInv, TypeOK, OneFlusher, QueueServed, BatchTaken, HoldersFit, Undelivered,
       Respond, holderVars, flushVars, countVars

\* Submitting appends the request and starts a timer exactly when none is running.
LEMMA SubmitStep ==
    ASSUME ProxyInv, NEW r \in Requests, Submit(r)
    PROVE  ProxyInv'
<1> USE DEF ProxyInv
<1>1. /\ queue' \in Seq(Requests) /\ queue' # << >> /\ Len(queue') = Len(queue) + 1
      /\ Len(queue) \in Nat
  BY DEF Submit, TypeOK
<1>2. UNCHANGED <<answer, response, event, batch, responses, index, batchCount>>
  BY DEF Submit, holderVars
<1>3. CASE MustStart(queue')
  <2>1. timerRunning' = TRUE /\ ~timerRunning
    BY <1>3 DEF Submit, MustStart
  <2>2. PICK t \in Timers : flush[t] = "idle" /\ flush' = [flush EXCEPT ![t] = "armed"]
    BY <1>3 DEF Submit, StartTimer
  <2>3. \A u \in Timers : flush[u] = "idle"
    BY <2>1 DEF OneFlusher
  <2>4. TypeOK'
    BY <1>1, <1>2, <2>1, <2>2 DEF TypeOK, Submit, FlushSteps
  <2>5. \A u \in Timers : flush'[u] = IF u = t THEN "armed" ELSE "idle"
    BY <2>2, <2>3 DEF TypeOK
  <2>6. OneFlusher' /\ QueueServed' /\ BatchTaken' /\ HoldersFit'
    BY <1>1, <1>2, <2>1, <2>5 DEF OneFlusher, QueueServed, BatchTaken, HoldersFit
  <2> QED BY <2>4, <2>6
<1>4. CASE ~MustStart(queue')
  <2>1. UNCHANGED <<timerRunning, flush>>
    BY <1>4 DEF Submit
  <2>2. TypeOK'
    BY <1>1, <1>2, <2>1 DEF TypeOK, Submit
  <2>3. timerRunning
    <3>1. CASE queue = << >>
      BY <1>1, <1>4, <3>1 DEF MustStart, TypeOK
    <3>2. CASE queue # << >>
      BY <3>2 DEF QueueServed
    <3> QED BY <3>1, <3>2
  <2>4. OneFlusher' /\ QueueServed' /\ BatchTaken' /\ HoldersFit'
    BY <1>1, <1>2, <2>1, <2>3 DEF OneFlusher, QueueServed, BatchTaken, HoldersFit
  <2> QED BY <2>2, <2>4
<1> QED BY <1>3, <1>4

\* A timer that fires takes the whole queue, which is not empty.
LEMMA TakeStep ==
    ASSUME ProxyInv, NEW t \in Timers, Take(t)
    PROVE  ProxyInv'
<1> USE DEF ProxyInv
<1>1. queue # << >> /\ queue \in Seq(Requests)
  BY DEF Take, QueueServed, TypeOK
<1>2. /\ flush' = [flush EXCEPT ![t] = "post"] /\ batch' = [batch EXCEPT ![t] = queue]
      /\ queue' = << >>
      /\ UNCHANGED <<pc, answer, timerRunning, response, event, responses, index, requestCount, batchCount>>
  BY <1>1 DEF Take, Taken, clientVars, holderVars, countVars
<1>3. \A u \in Timers : /\ flush'[u] = IF u = t THEN "post" ELSE flush[u]
                        /\ batch'[u] = IF u = t THEN queue ELSE batch[u]
  BY <1>2 DEF TypeOK
<1>4. \A u \in Timers : u # t => flush[u] = "idle"
  BY DEF Take, OneFlusher
<1>5. TypeOK'
  BY <1>1, <1>2, <1>3 DEF TypeOK, FlushSteps
<1>6. OneFlusher'
  BY <1>2, <1>3 DEF OneFlusher, Take
<1>7. QueueServed' /\ BatchTaken'
  BY <1>1, <1>2, <1>3, <1>4 DEF QueueServed, BatchTaken
<1>8. HoldersFit'
  BY <1>2, <1>3 DEF HoldersFit
<1> QED BY <1>5, <1>6, <1>7, <1>8

\* The posted batch comes back with responses that fit it.
LEMMA PostStep ==
    ASSUME ProxyInv, NEW t \in Timers, Post(t)
    PROVE  ProxyInv'
<1> USE DEF ProxyInv
<1>1. batch[t] \in Seq(Requests) /\ batch[t] # << >> /\ Len(batch[t]) \in Nat /\ 1 <= Len(batch[t])
  BY DEF Post, BatchTaken, TypeOK
<1>2. PICK out \in Outcomes(batch[t]) : responses' = [responses EXCEPT ![t] = out]
  BY DEF Post
<1>3. /\ out \in Seq({Failed} \cup Requests)
      /\ \A i \in 1..Len(batch[t]) : i <= Len(out) => out[i] \in Fit(batch[t][i])
  BY <1>1, <1>2, OutcomesFit
<1>4. /\ flush' = [flush EXCEPT ![t] = "write"] /\ index' = [index EXCEPT ![t] = 1]
      /\ flush[t] = "post"
      /\ UNCHANGED <<pc, answer, queue, timerRunning, response, event, batch, requestCount>>
      /\ batchCount' \in {batchCount, batchCount + 1}
  BY DEF Post, clientVars, holderVars
<1>5. \A u \in Timers : /\ flush'[u] = IF u = t THEN "write" ELSE flush[u]
                        /\ responses'[u] = IF u = t THEN out ELSE responses[u]
                        /\ index'[u] = IF u = t THEN 1 ELSE index[u]
  BY <1>2, <1>4 DEF TypeOK
<1>6. TypeOK'
  <2>1. batchCount' \in Nat
    BY <1>4 DEF TypeOK
  <2>2. flush' \in [Timers -> FlushSteps] /\ index' \in [Timers -> Nat \ {0}]
        /\ responses' \in [Timers -> Seq({Failed} \cup Requests)]
    BY <1>2, <1>3, <1>4 DEF TypeOK, FlushSteps
  <2> QED BY <1>1, <1>4, <1>5, <2>1, <2>2 DEF TypeOK
<1>7. OneFlusher' /\ QueueServed' /\ BatchTaken'
  BY <1>1, <1>4, <1>5 DEF OneFlusher, QueueServed, BatchTaken
<1>8. HoldersFit'
  BY <1>3, <1>4, <1>5 DEF HoldersFit
<1> QED BY <1>6, <1>7, <1>8

\* A holder is written with an error or the reply to its own request.
LEMMA WriteStep ==
    ASSUME ProxyInv, NEW t \in Timers, Write(t)
    PROVE  ProxyInv'
<1> USE DEF ProxyInv
<1> DEFINE r == batch[t][index[t]]
           v == ResponseAt(t)
<1>1. index[t] \in 1..Len(batch[t]) /\ Len(batch[t]) \in Nat /\ Len(responses[t]) \in Nat
  BY DEF Write, TypeOK
<1>2. r \in Requests
  BY <1>1 DEF TypeOK
<1>3. v \in Fit(r)
  BY <1>1 DEF HoldersFit, Write, ResponseAt, Fit, TypeOK
<1>4. v # None /\ v \in Payloads
  BY <1>2, <1>3, ProxyAssumption DEF Fit, Payloads, Errors, None, Failed, Missing
<1>5. /\ flush[t] = "write" /\ flush' = [flush EXCEPT ![t] = "set"]
      /\ response' = [response EXCEPT ![r] = v]
      /\ UNCHANGED <<pc, answer, queue, timerRunning, event, batch, responses, index, requestCount, batchCount>>
  BY DEF Write, clientVars, countVars
<1> HIDE DEF r, v
<1>6. /\ \A u \in Timers : flush'[u] = IF u = t THEN "set" ELSE flush[u]
      /\ \A s \in Requests : response'[s] = IF s = r THEN v ELSE response[s]
  BY <1>2, <1>5 DEF TypeOK
<1>7. TypeOK'
  BY <1>1, <1>2, <1>4, <1>5, <1>6 DEF TypeOK, FlushSteps
<1>8. OneFlusher' /\ QueueServed' /\ BatchTaken'
  BY <1>5, <1>6 DEF OneFlusher, QueueServed, BatchTaken
<1>9. HoldersFit'
  <2>1. \A u \in Timers : flush'[u] = "set" => batch'[u][index'[u]] \in Requests
    BY <1>7 DEF TypeOK
  <2> QED BY <1>2, <1>3, <1>4, <1>5, <1>6, <2>1 DEF HoldersFit, r
<1> QED BY <1>7, <1>8, <1>9

\* An event is set only after its holder was written.
LEMMA SetStep ==
    ASSUME ProxyInv, NEW t \in Timers, Set(t)
    PROVE  ProxyInv'
<1> USE DEF ProxyInv
<1> DEFINE r == batch[t][index[t]]
<1>1. index[t] \in 1..Len(batch[t]) /\ Len(batch[t]) \in Nat
  BY DEF Set, TypeOK
<1>2. r \in Requests /\ response[r] # None
  BY <1>1 DEF TypeOK, HoldersFit, Set
<1>3. /\ flush[t] = "set" /\ event' = [event EXCEPT ![r] = TRUE]
      /\ UNCHANGED <<pc, answer, queue, timerRunning, response, batch, responses, requestCount, batchCount>>
  BY DEF Set, clientVars, countVars
<1>4. PICK k \in Nat \ {0}, p \in {"write", "finish"} :
        /\ flush' = [flush EXCEPT ![t] = p] /\ index' = [index EXCEPT ![t] = k]
        /\ p = "write" => k <= Len(batch[t])
  <2>1. CASE MoreToDeliver(t)
    <3>1. index[t] + 1 \in Nat \ {0} /\ index[t] + 1 <= Len(batch[t])
      BY <1>1, <2>1 DEF MoreToDeliver
    <3> QED BY <2>1, <3>1 DEF Set
  <2>2. CASE ~MoreToDeliver(t)
    <3>1. index' = [index EXCEPT ![t] = index[t]]
      BY <2>2 DEF Set, TypeOK
    <3>2. flush' = [flush EXCEPT ![t] = "finish"]
      BY <2>2 DEF Set
    <3>3. index[t] \in Nat \ {0}
      BY DEF TypeOK
    <3> QED BY <3>1, <3>2, <3>3
  <2> QED BY <2>1, <2>2
<1> HIDE DEF r
<1>5. /\ \A u \in Timers : /\ flush'[u] = IF u = t THEN p ELSE flush[u]
                           /\ index'[u] = IF u = t THEN k ELSE index[u]
      /\ \A s \in Requests : event'[s] = IF s = r THEN TRUE ELSE event[s]
  BY <1>2, <1>3, <1>4 DEF TypeOK
<1>6. TypeOK'
  BY <1>2, <1>3, <1>4, <1>5 DEF TypeOK, FlushSteps
<1>7. OneFlusher' /\ QueueServed' /\ BatchTaken'
  BY <1>3, <1>4, <1>5 DEF OneFlusher, QueueServed, BatchTaken
<1>8. HoldersFit'
  BY <1>2, <1>3, <1>4, <1>5 DEF HoldersFit
<1> QED BY <1>6, <1>7, <1>8

\* The last critical section hands over to a fresh timer exactly when there is work.
LEMMA FinishStep ==
    ASSUME ProxyInv, NEW t \in Timers, Finish(t)
    PROVE  ProxyInv'
<1> USE DEF ProxyInv
<1>1. PICK p \in {"armed", "idle"} :
        /\ flush[t] = "finish" /\ flush' = [flush EXCEPT ![t] = p]
        /\ timerRunning' = (queue # << >>) /\ (p = "armed" <=> queue # << >>)
        /\ UNCHANGED <<pc, answer, queue, response, event, batch, responses, index, requestCount, batchCount>>
  BY DEF Finish, clientVars, holderVars, countVars
<1>2. \A u \in Timers : flush'[u] = IF u = t THEN p ELSE flush[u]
  BY <1>1 DEF TypeOK
<1>3. \A u \in Timers : u # t => flush[u] = "idle"
  BY <1>1 DEF OneFlusher
<1>4. TypeOK'
  BY <1>1, <1>2 DEF TypeOK, FlushSteps
<1>5. OneFlusher'
  BY <1>1, <1>2, <1>3 DEF OneFlusher
<1>6. QueueServed' /\ BatchTaken' /\ HoldersFit'
  BY <1>1, <1>2, <1>3 DEF QueueServed, BatchTaken, HoldersFit
<1> QED BY <1>4, <1>5, <1>6

\* ProxyInv is inductive.
LEMMA ProxyInvariant == Spec => []ProxyInv
<1>1. ProxyInv /\ [Next]_vars => ProxyInv'
  <2> SUFFICES ASSUME ProxyInv, [Next]_vars PROVE ProxyInv'
    OBVIOUS
  <2>1. CASE UNCHANGED vars
    BY <2>1 DEF ProxyInv, TypeOK, OneFlusher, QueueServed, BatchTaken, HoldersFit,
                vars, clientVars, holderVars, flushVars, countVars
  <2>2. ASSUME NEW r \in Requests, Client(r) PROVE ProxyInv'
    <3>1. CASE Reject(r)
      BY <3>1, RespondStep DEF Reject, Respond, Payloads, Errors
    <3>2. CASE Submit(r)
      BY <3>2, SubmitStep
    <3>3. CASE GiveUp(r)
      BY <3>3, RespondStep DEF GiveUp, Payloads, Errors
    <3>4. CASE Return(r)
      BY <3>4, RespondStep DEF Return, ProxyInv, TypeOK
    <3> QED BY <2>2, <3>1, <3>2, <3>3, <3>4 DEF Client
  <2>3. ASSUME NEW t \in Timers, Timer(t) PROVE ProxyInv'
    BY <2>3, TakeStep, PostStep, WriteStep, SetStep, FinishStep DEF Timer
  <2> QED BY <2>1, <2>2, <2>3 DEF Next
<1> QED BY <1>1, ProxyInit, PTL DEF Spec

\* Every variable keeps its type and no delivery loop leaves its batch.
THEOREM ProxyTypeOK == Spec => []TypeOK
BY ProxyInvariant, PTL DEF ProxyInv

\* At most one timer thread flushes, exactly while _timer_running is set.
THEOREM ProxyOneFlusher == Spec => []OneFlusher
BY ProxyInvariant, PTL DEF ProxyInv

\* A non-empty queue always has a timer coming for it, and a timer always finds work.
THEOREM ProxyQueueServed == Spec => []QueueServed
BY ProxyInvariant, PTL DEF ProxyInv

-----------------------------------------------------------------------------
\* A value written to a holder is an answer of the abstract call, and never a rejection.
LEMMA FitIsAnswer ==
    ASSUME NEW r \in Requests, NEW v \in Fit(r)
    PROVE  v \in Errors \cup {r} /\ v # Rejected /\ v # None
BY ProxyAssumption DEF Fit, Errors, Failed, Missing, Rejected, None

\* What a returning handler answers is its own reply or an error.
LEMMA ReturnedAnswer ==
    ASSUME ProxyInv, NEW r \in Requests, event[r]
    PROVE  response[r] \in Fit(r)
BY DEF ProxyInv, HoldersFit

\* Seen from the workers, the proxy is one answer per call: its own reply or an error.
THEOREM ProxyImplementsRequestReply == Spec => ImplementsRequestReply
<1> DEFINE call == [r \in Requests |-> CASE pc[r] = "idle" -> "idle"
                                        [] pc[r] = "waiting" -> "pending"
                                        [] pc[r] = "done" -> "answered"]
<1>1. Init => Abstract!Init
  BY DEF Init, Abstract!Init, Abstract!NoAnswer, None
<1>2. ProxyInv /\ [Next]_vars => [Abstract!Next]_<<call, answer>>
  <2> SUFFICES ASSUME ProxyInv, [Next]_vars PROVE [Abstract!Next]_<<call, answer>>
    OBVIOUS
  <2>1. ASSUME NEW r \in Requests, NEW v \in Errors \cup {r}, Respond(r, v), pc[r] # "done"
        PROVE  Abstract!Answer(r)
    <3>1. pc' = [pc EXCEPT ![r] = "done"] /\ answer' = [answer EXCEPT ![r] = v]
      BY <2>1 DEF Respond
    <3>2. call' = [call EXCEPT ![r] = "answered"]
      BY <3>1 DEF ProxyInv, TypeOK
    <3>3. call[r] \in {"idle", "pending"}
      BY <2>1 DEF ProxyInv, TypeOK
    <3> HIDE DEF call
    <3>4. \E w \in Errors \cup {r} : answer' = [answer EXCEPT ![r] = w]
      BY <3>1
    <3> QED BY <3>2, <3>3, <3>4 DEF Abstract!Answer, call
  <2>2. ASSUME NEW r \in Requests, Client(r) PROVE [Abstract!Next]_<<call, answer>>
    <3>1. CASE Reject(r)
      BY <2>1, <3>1 DEF Reject, Respond, Errors, Abstract!Next
    <3>2. CASE Submit(r)
      <4>1. call' = [call EXCEPT ![r] = "pending"] /\ call[r] = "idle" /\ UNCHANGED answer
        BY <3>2 DEF Submit, ProxyInv, TypeOK
      <4>2. Abstract!Call(r)
        BY <4>1 DEF Abstract!Call
      <4> QED BY <4>2 DEF Abstract!Next
    <3>3. CASE GiveUp(r)
      BY <2>1, <3>3 DEF GiveUp, Errors, Abstract!Next
    <3>4. CASE Return(r)
      BY <2>1, <3>4, ReturnedAnswer, FitIsAnswer DEF Return, Abstract!Next
    <3> QED BY <2>2, <3>1, <3>2, <3>3, <3>4 DEF Client
  <2>3. ASSUME NEW t \in Timers, Timer(t) PROVE UNCHANGED <<pc, answer>>
    BY <2>3 DEF Timer, Take, Post, Write, Set, Finish, clientVars
  <2>4. CASE UNCHANGED <<pc, answer>>
    BY <2>4
  <2>5. CASE UNCHANGED vars
    BY <2>4, <2>5 DEF vars, clientVars
  <2> QED BY <2>2, <2>3, <2>4, <2>5 DEF Next
<1> QED BY <1>1, <1>2, ProxyInvariant, PTL DEF Spec, ImplementsRequestReply, Abstract!Spec

-----------------------------------------------------------------------------
\* Only a submitted request has its event set.
EventOfSubmitted == \A r \in Requests : event[r] => Submitted(r)

PlaceInv == ProxyInv /\ InOnePlace /\ EventOfSubmitted

\* While a timer thread flushes, only its batch holds undelivered requests.
LEMMA OnlyBatch ==
    ASSUME ProxyInv, NEW t \in Timers, flush[t] # "idle"
    PROVE  /\ \A u \in Timers : u # t => Undelivered(u) = {}
           /\ \A r : Held(r) <=> \E i \in Undelivered(t) : batch[t][i] = r
BY DEF ProxyInv, OneFlusher, Undelivered, Held

\* A handler's step that leaves the queue and the flush alone, and neither submits nor
\* un-submits a request, keeps every request in its place.
LEMMA PlacesKept ==
    ASSUME PlaceInv, UNCHANGED <<queue, event, flush, batch, index>>,
           \A r \in Requests : Submitted(r)' <=> Submitted(r)
    PROVE  InOnePlace' /\ EventOfSubmitted'
BY DEF PlaceInv, InOnePlace, EventOfSubmitted, Queued, Held, Undelivered

LEMMA RespondPlace ==
    ASSUME PlaceInv, NEW r \in Requests, NEW v, Respond(r, v),
           IF v = Rejected THEN pc[r] = "idle" ELSE pc[r] = "waiting"
    PROVE  InOnePlace' /\ EventOfSubmitted'
<1>1. UNCHANGED <<queue, event, flush, batch, index>>
  BY DEF Respond, holderVars, flushVars
<1>2. \A s \in Requests : /\ pc'[s] = IF s = r THEN "done" ELSE pc[s]
                          /\ answer'[s] = IF s = r THEN v ELSE answer[s]
  BY DEF Respond, PlaceInv, ProxyInv, TypeOK
<1>3. \A s \in Requests : Submitted(s)' <=> Submitted(s)
  BY <1>2 DEF Submitted
<1> QED BY <1>1, <1>3, PlacesKept

\* A submitted request goes to the end of the queue, where it was not before.
LEMMA SubmitPlace ==
    ASSUME PlaceInv, NEW r \in Requests, Submit(r)
    PROVE  InOnePlace' /\ EventOfSubmitted'
<1>1. /\ pc[r] = "idle" /\ queue' = Append(queue, r) /\ UNCHANGED <<event, answer, batch, index>>
      /\ \A s \in Requests : pc'[s] = IF s = r THEN "waiting" ELSE pc[s]
  BY DEF Submit, holderVars, PlaceInv, ProxyInv, TypeOK
<1>2. \A s \in Requests : Submitted(s)' <=> (s = r \/ Submitted(s))
  BY <1>1 DEF Submitted
<1>3. ~Submitted(r) /\ ~event[r] /\ ~Queued(r) /\ ~Held(r)
  BY <1>1 DEF Submitted, PlaceInv, EventOfSubmitted, InOnePlace
<1>4. queue \in Seq(Requests) /\ Len(queue) \in Nat
  BY DEF PlaceInv, ProxyInv, TypeOK
<1>5. /\ Len(queue') = Len(queue) + 1 /\ queue'[Len(queue) + 1] = r
      /\ \A i \in 1..Len(queue) : queue'[i] = queue[i]
  BY <1>1, <1>4
<1>6. \A s \in Requests : Queued(s)' <=> (s = r \/ Queued(s))
  <2> SUFFICES ASSUME NEW s \in Requests PROVE Queued(s)' <=> (s = r \/ Queued(s))
    OBVIOUS
  <2>1. s = r => Queued(s)'
    BY <1>4, <1>5 DEF Queued
  <2>2. Queued(s) => Queued(s)'
    BY <1>4, <1>5 DEF Queued
  <2>3. Queued(s)' => (s = r \/ Queued(s))
    BY <1>4, <1>5 DEF Queued
  <2> QED BY <2>1, <2>2, <2>3
<1>7. \A t \in Timers : Undelivered(t)' = Undelivered(t)
  BY <1>1 DEF Submit, StartTimer, Undelivered, PlaceInv, ProxyInv, TypeOK
<1>8. \A s \in Requests : Held(s)' <=> Held(s)
  BY <1>1, <1>7 DEF Held
<1>9. \A i, j \in 1..Len(queue') : queue'[i] = queue'[j] => i = j
  <2>1. \A i \in 1..Len(queue) : queue[i] # r
    BY <1>3 DEF Queued
  <2>2. \A i, j \in 1..Len(queue) : queue[i] = queue[j] => i = j
    BY DEF PlaceInv, InOnePlace
  <2> QED BY <1>4, <1>5, <2>1, <2>2
<1>10. \A t \in Timers : \A i, j \in Undelivered(t)' : batch'[t][i] = batch'[t][j] => i = j
  BY <1>1, <1>7 DEF PlaceInv, InOnePlace
<1>11. \A s \in Requests : /\ (Queued(s)' \/ Held(s)') <=> (Submitted(s)' /\ ~event'[s])
                           /\ ~(Queued(s)' /\ Held(s)')
  BY <1>1, <1>2, <1>3, <1>6, <1>8 DEF PlaceInv, InOnePlace
<1>12. InOnePlace'
  BY <1>9, <1>10, <1>11 DEF InOnePlace
<1>13. EventOfSubmitted'
  BY <1>1, <1>2 DEF PlaceInv, EventOfSubmitted
<1> QED BY <1>12, <1>13

\* Taking the queue moves every queued request to the undelivered batch.
LEMMA TakePlace ==
    ASSUME PlaceInv, NEW t \in Timers, Take(t)
    PROVE  InOnePlace' /\ EventOfSubmitted'
<1>1. /\ flush[t] = "armed" /\ queue # << >> /\ queue \in Seq(Requests)
      /\ queue' = << >> /\ UNCHANGED <<pc, answer, event, index>>
      /\ \A u \in Timers : /\ flush'[u] = IF u = t THEN "post" ELSE flush[u]
                           /\ batch'[u] = IF u = t THEN queue ELSE batch[u]
  BY DEF Take, Taken, clientVars, holderVars, PlaceInv, ProxyInv, TypeOK, QueueServed
<1>2. \A u \in Timers : Undelivered(u) = {}
  BY <1>1, OnlyBatch DEF PlaceInv, Undelivered
<1>3. Undelivered(t)' = 1..Len(queue) /\ \A u \in Timers : u # t => Undelivered(u)' = {}
  BY <1>1, <1>2 DEF Undelivered
<1>4. \A s \in Requests : ~Held(s) /\ ~Queued(s)' /\ (Held(s)' <=> Queued(s))
  BY <1>1, <1>2, <1>3 DEF Held, Queued
<1>5. \A s \in Requests : Submitted(s)' <=> Submitted(s)
  BY <1>1 DEF Submitted
<1>6. \A u \in Timers : \A i, j \in Undelivered(u)' : batch'[u][i] = batch'[u][j] => i = j
  BY <1>1, <1>3 DEF PlaceInv, InOnePlace
<1> QED BY <1>1, <1>4, <1>5, <1>6 DEF PlaceInv, InOnePlace, EventOfSubmitted

\* Setting an event takes its request, and no other, out of the batch.
LEMMA SetPlace ==
    ASSUME PlaceInv, NEW t \in Timers, Set(t)
    PROVE  InOnePlace' /\ EventOfSubmitted'
<1> DEFINE r == batch[t][index[t]]
<1>1. /\ index[t] \in 1..Len(batch[t]) /\ Len(batch[t]) \in Nat /\ index[t] \in Nat
      /\ flush[t] = "set" /\ r \in Requests
  BY DEF Set, PlaceInv, ProxyInv, TypeOK
<1>2. /\ UNCHANGED <<pc, answer, queue, batch>>
      /\ \A s \in Requests : event'[s] = IF s = r THEN TRUE ELSE event[s]
      /\ \A u \in Timers \ {t} : flush'[u] = flush[u] /\ index'[u] = index[u]
  BY <1>1 DEF Set, clientVars, PlaceInv, ProxyInv, TypeOK
<1>3. Undelivered(t) = index[t]..Len(batch[t])
  BY <1>1 DEF Undelivered
<1>4. Undelivered(t)' = (index[t] + 1)..Len(batch[t])
  <2>1. CASE MoreToDeliver(t)
    <3>1. flush'[t] = "write" /\ index'[t] = index[t] + 1
      BY <2>1 DEF Set, PlaceInv, ProxyInv, TypeOK
    <3> QED BY <1>2, <3>1 DEF Undelivered
  <2>2. CASE ~MoreToDeliver(t)
    <3>1. flush'[t] = "finish"
      BY <2>2 DEF Set, PlaceInv, ProxyInv, TypeOK
    <3>2. Undelivered(t)' = {}
      BY <3>1 DEF Undelivered
    <3>3. (index[t] + 1)..Len(batch[t]) = {}
      BY <1>1, <2>2 DEF MoreToDeliver
    <3> QED BY <3>2, <3>3
  <2> QED BY <2>1, <2>2
<1>5. \A u \in Timers : u # t => Undelivered(u) = {} /\ Undelivered(u)' = {}
  BY <1>1, <1>2, OnlyBatch DEF PlaceInv, Undelivered
<1>6. \A i, j \in Undelivered(t) : batch[t][i] = batch[t][j] => i = j
  BY DEF PlaceInv, InOnePlace
<1>7. \A s \in Requests : Held(s) <=> \E i \in index[t]..Len(batch[t]) : batch[t][i] = s
  BY <1>3, <1>5 DEF Held
<1>8. \A s \in Requests : Held(s)' <=> \E i \in (index[t] + 1)..Len(batch[t]) : batch[t][i] = s
  BY <1>2, <1>4, <1>5 DEF Held
<1>9. \A s \in Requests : Held(s)' <=> (Held(s) /\ s # r)
  <2> SUFFICES ASSUME NEW s \in Requests PROVE Held(s)' <=> (Held(s) /\ s # r)
    OBVIOUS
  <2>1. Held(s)' => Held(s) /\ s # r
    BY <1>1, <1>3, <1>6, <1>7, <1>8
  <2>2. Held(s) /\ s # r => Held(s)'
    BY <1>1, <1>7, <1>8
  <2> QED BY <2>1, <2>2
<1>10. Held(r)
  BY <1>1, <1>7
<1> HIDE DEF r
<1>11. \A s \in Requests : /\ Submitted(s)' <=> Submitted(s)
                           /\ Queued(s)' <=> Queued(s)
                           /\ event'[s] <=> (s = r \/ event[s])
  <2>1. event' = [event EXCEPT ![r] = TRUE] /\ event \in [Requests -> BOOLEAN]
    BY DEF Set, PlaceInv, ProxyInv, TypeOK, r
  <2>2. \A s \in Requests : event'[s] <=> (s = r \/ event[s])
    BY <2>1, <1>1
  <2>3. \A s \in Requests : Submitted(s)' <=> Submitted(s)
    BY <1>2 DEF Submitted
  <2>4. \A s \in Requests : Queued(s)' <=> Queued(s)
    BY <1>2 DEF Queued
  <2> QED BY <2>2, <2>3, <2>4
<1>12. \A s \in Requests : /\ (Queued(s)' \/ Held(s)') <=> (Submitted(s)' /\ ~event'[s])
                           /\ ~(Queued(s)' /\ Held(s)')
  <2>1. \A s \in Requests : /\ Queued(s) \/ Held(s) <=> Submitted(s) /\ ~event[s]
                           /\ ~(Queued(s) /\ Held(s))
    BY DEF PlaceInv, InOnePlace
  <2> QED BY <1>1, <1>9, <1>10, <1>11, <2>1
<1>13. \A u \in Timers : \A i, j \in Undelivered(u)' : batch'[u][i] = batch'[u][j] => i = j
  BY <1>1, <1>2, <1>3, <1>4, <1>5, <1>6
<1>14. \A i, j \in 1..Len(queue') : queue'[i] = queue'[j] => i = j
  BY <1>2 DEF PlaceInv, InOnePlace
<1>15. InOnePlace'
  BY <1>12, <1>13, <1>14 DEF InOnePlace
<1>16. EventOfSubmitted'
  <2>1. Submitted(r)
    BY <1>1, <1>10 DEF PlaceInv, InOnePlace
  <2>2. \A s \in Requests : event[s] => Submitted(s)
    BY DEF PlaceInv, EventOfSubmitted
  <2> QED BY <1>11, <2>1, <2>2 DEF EventOfSubmitted
<1> QED BY <1>15, <1>16

\* Posting, writing a response and finishing move no request.
LEMMA OtherFlushPlace ==
    ASSUME PlaceInv, NEW t \in Timers, Post(t) \/ Write(t) \/ Finish(t)
    PROVE  InOnePlace' /\ EventOfSubmitted'
<1>1. UNCHANGED <<pc, answer, queue, event, batch>>
  BY DEF Post, Write, Finish, clientVars, holderVars
<1>2. \A u \in Timers : Undelivered(u)' = Undelivered(u)
  <2>1. CASE Post(t)
    <3>1. /\ flush[t] = "post" /\ flush'[t] = "write" /\ index'[t] = 1
          /\ \A u \in Timers : u # t => flush'[u] = flush[u] /\ index'[u] = index[u]
      BY <2>1 DEF Post, PlaceInv, ProxyInv, TypeOK
    <3> QED BY <1>1, <3>1 DEF Undelivered
  <2>2. CASE Write(t)
    <3>1. /\ flush[t] = "write" /\ flush'[t] = "set" /\ index' = index
          /\ \A u \in Timers : u # t => flush'[u] = flush[u]
      BY <2>2 DEF Write, PlaceInv, ProxyInv, TypeOK
    <3> QED BY <1>1, <3>1 DEF Undelivered
  <2>3. CASE Finish(t)
    <3>1. /\ flush[t] = "finish" /\ flush'[t] \in {"armed", "idle"} /\ index' = index
          /\ \A u \in Timers : u # t => flush'[u] = flush[u]
      BY <2>3 DEF Finish, PlaceInv, ProxyInv, TypeOK
    <3> QED BY <1>1, <3>1 DEF Undelivered
  <2> QED BY <2>1, <2>2, <2>3
<1>3. \A s \in Requests : /\ Submitted(s)' <=> Submitted(s)
                          /\ Queued(s)' <=> Queued(s)
                          /\ Held(s)' <=> Held(s)
  <2>1. \A s \in Requests : Submitted(s)' <=> Submitted(s)
    BY <1>1 DEF Submitted
  <2>2. \A s \in Requests : Queued(s)' <=> Queued(s)
    BY <1>1 DEF Queued
  <2>3. \A s \in Requests : Held(s)' <=> Held(s)
    BY <1>1, <1>2 DEF Held
  <2> QED BY <2>1, <2>2, <2>3
<1>4. \A u \in Timers : \A i, j \in Undelivered(u)' : batch'[u][i] = batch'[u][j] => i = j
  BY <1>1, <1>2 DEF PlaceInv, InOnePlace
<1> QED BY <1>1, <1>3, <1>4 DEF PlaceInv, InOnePlace, EventOfSubmitted

\* No request is lost, dispatched twice or answered twice, whatever the interleaving.
THEOREM ProxyInOnePlace == Spec => []InOnePlace
<1>1. Init => InOnePlace /\ EventOfSubmitted
  <2> SUFFICES ASSUME Init PROVE InOnePlace /\ EventOfSubmitted
    OBVIOUS
  <2>1. \A t \in Timers : Undelivered(t) = {}
    BY DEF Init, Undelivered
  <2>2. 1..Len(queue) = {} /\ \A r \in Requests : ~event[r] /\ ~Submitted(r)
    <3>1. Len(queue) = 0
      BY DEF Init
    <3>2. \A r \in Requests : ~event[r] /\ ~Submitted(r)
      BY DEF Init, Submitted
    <3> QED BY <3>1, <3>2
  <2>3. \A r \in Requests : ~Queued(r) /\ ~Held(r)
    BY <2>1, <2>2 DEF Queued, Held
  <2> QED BY <2>1, <2>2, <2>3 DEF InOnePlace, EventOfSubmitted
<1>2. PlaceInv /\ [Next]_vars => InOnePlace' /\ EventOfSubmitted'
  <2> SUFFICES ASSUME PlaceInv, [Next]_vars PROVE InOnePlace' /\ EventOfSubmitted'
    OBVIOUS
  <2>1. CASE UNCHANGED vars
    BY <2>1, PlacesKept DEF vars, clientVars, holderVars, flushVars, Submitted
  <2>2. ASSUME NEW r \in Requests, Client(r) PROVE InOnePlace' /\ EventOfSubmitted'
    <3>1. CASE Reject(r)
      BY <3>1, RespondPlace DEF Reject, Respond
    <3>2. CASE Submit(r)
      BY <3>2, SubmitPlace
    <3>3. CASE GiveUp(r)
      BY <3>3, RespondPlace DEF GiveUp, TimedOut, Rejected
    <3>4. CASE Return(r)
      BY <3>4, RespondPlace, ReturnedAnswer, FitIsAnswer DEF Return, PlaceInv
    <3> QED BY <2>2, <3>1, <3>2, <3>3, <3>4 DEF Client
  <2>3. ASSUME NEW t \in Timers, Timer(t) PROVE InOnePlace' /\ EventOfSubmitted'
    BY <2>3, TakePlace, SetPlace, OtherFlushPlace DEF Timer
  <2> QED BY <2>1, <2>2, <2>3 DEF Next
<1> QED BY <1>1, <1>2, ProxyInvariant, PTL DEF Spec, PlaceInv
=============================================================================
