--------------------------- MODULE ParallelRunner ---------------------------
(***************************************************************************)
(* The experiment runner (src/experiments/parallel_runner.py): a grid of   *)
(* cells, each one episode in a child process, executed by a pool of       *)
(* worker threads that share planning-server ports, collected by the main  *)
(* thread, and checkpointed so that a later run may resume.                *)
(*                                                                         *)
(* The main thread, the workers and the children interleave: a worker      *)
(* reads the completed keys while the main thread adds to them, results    *)
(* are collected in any order, completed.json is written in place, and the *)
(* run may be left by an exception at every place where the main thread    *)
(* waits or does I/O (waiting for results, writing a checkpoint, shutting  *)
(* the pool down, starting or stopping the planning server), or its        *)
(* process killed at any point.  An exception between two statements of    *)
(* the loop body, which neither wait nor do I/O, is not modelled.          *)
(*                                                                         *)
(* Of the contents of a cell's store and of the shared policy file the     *)
(* model keeps whether they changed while the cell's episode ran: a child  *)
(* may change them, although a frozen run must not.  A child that outlives *)
(* a killed runner is not modelled.                                        *)
(***************************************************************************)
EXTENDS Integers, FiniteSets

CONSTANTS
    N,                \* the cells of the grid are 1..N, in order
    Keys, Key,        \* the key of a cell: (task, seed, method, frozen)
    Ports, Port,      \* the planning-server port a cell was given
    Frozen,           \* the cells that run frozen
    Workers,          \* threads of the pool
    MaxAttempts,      \* attempts at an episode with transient failures (3)
    CheckpointEvery,  \* collected results between two checkpoints (10)
    MaxRuns           \* bound: runs of the program

Cells == 1..N

ASSUME RunnerAssumption ==
    /\ N \in Nat
    /\ Key \in [Cells -> Keys]
    /\ Port \in [Cells -> Ports]
    /\ Frozen \subseteq Cells
    /\ Workers \in Nat \ {0}
    /\ MaxAttempts \in Nat \ {0}
    /\ CheckpointEvery \in Nat \ {0}
    /\ MaxRuns \in Nat

VARIABLES
    phase,      \* where run() is
    resumed,    \* whether this run loaded the checkpoint
    saving,     \* the checkpoint being written: "no", "periodic" or "final";
                \* "stopping" while the server is stopped, before the final one
    permits,    \* the semaphore of each planning-server port
    job,        \* where each cell's future is
    attempt,    \* which attempt the episode of a cell is at
    outcome,    \* the result its future holds
    changed,    \* which of its store and policy changed since a cell began
    completed,  \* _completed
    results,    \* _results
    failures,   \* batch_failures, as cells
    file,       \* completed.json
    runs        \* runs begun, for the bound

mainVars == <<phase, resumed, completed, results, failures, runs>>
jobVars == <<permits, job, attempt, outcome, changed>>
vars == <<mainVars, saving, jobVars, file>>

Statuses == {"success", "failed", "timeout", "error", "skipped"}

Result == [cell : Cells, status : Statuses,
           storeIntact : BOOLEAN, policyIntact : BOOLEAN]

NoResult == [cell |-> 0, status |-> "none",
             storeIntact |-> TRUE, policyIntact |-> TRUE]

(* What future.result() raises when _run_one itself raised.                *)
Broken == [cell |-> 0, status |-> "broken",
           storeIntact |-> TRUE, policyIntact |-> TRUE]

Empty == [completed |-> {}, results |-> {}]
Torn == [completed |-> {}, results |-> {NoResult}]

-----------------------------------------------------------------------------
(* The main thread.                                                        *)

LoadedNothing(resume) == Empty

(* _load_checkpoint: an unreadable file leaves the runner empty.           *)
Loaded(resume) == IF resume /\ file # Torn THEN file ELSE Empty

(* A new semaphore for every port, with one permit.                        *)
Permits == [p \in Ports |-> 1]

(* A worker has not finished with a cell yet.                              *)
Active(c) == job[c] \in {"queued", "waiting", "preparing", "running"}

(* run() goes on, or has left workers behind for which the process waits.  *)
Alive == phase \in {"running", "interrupted"} \/ \E c \in Cells : Active(c)

(* run(): the cells whose key is not completed are submitted to the pool;  *)
(* with nothing to submit the run is over.  The planning server may fail   *)
(* to start, which leaves run() before its try block.                      *)
Begin(resume, serverStarts) ==
    /\ ~Alive
    /\ runs < MaxRuns
    /\ runs' = runs + 1
    /\ resumed' = resume
    /\ completed' = Loaded(resume).completed
    /\ results' = Loaded(resume).results
    /\ failures' = {}
    /\ LET pending == {c \in Cells : Key[c] \notin completed'}
       IN  /\ phase' = IF pending = {} THEN "returned"
                       ELSE IF serverStarts THEN "running" ELSE "aborted"
           /\ job' = [c \in Cells |-> IF serverStarts /\ c \in pending
                                      THEN "queued" ELSE "out"]
    /\ permits' = Permits
    /\ outcome' = [c \in Cells |-> NoResult]
    /\ attempt' = [c \in Cells |-> 0]
    /\ changed' = [c \in Cells |-> {}]
    /\ UNCHANGED <<saving, file>>

Collected == {c \in Cells : job[c] = "collected"}
Submitted == {c \in Cells : job[c] # "out"}

(* The statuses after which a cell's key counts as completed; any other    *)
(* is a batch failure.                                                     *)
Completes(status) == status \in {"success", "skipped", "failed", "timeout"}

CheckpointDueLate(n) == n % (CheckpointEvery + 1) = 0

CheckpointDue(n) == n % CheckpointEvery = 0

(* The body of the as_completed loop: one result is recorded, and after    *)
(* every tenth a checkpoint is begun.                                      *)
Collect(c) ==
    /\ phase = "running" /\ saving = "no"
    /\ job[c] = "over"
    /\ IF outcome[c] = Broken
       THEN /\ phase' = "interrupted"
            /\ UNCHANGED <<job, outcome, completed, results, failures, saving>>
       ELSE /\ job' = [job EXCEPT ![c] = "collected"]
            /\ outcome' = [outcome EXCEPT ![c] = NoResult]
            /\ results' = results \union {outcome[c]}
            /\ IF Completes(outcome[c].status)
               THEN /\ completed' = completed \union {Key[c]}
                    /\ UNCHANGED failures
               ELSE /\ failures' = failures \union {c}
                    /\ UNCHANGED completed
            /\ saving' = IF CheckpointDue(Cardinality(Collected) + 1)
                         THEN "periodic" ELSE "no"
            /\ UNCHANGED phase
    /\ UNCHANGED <<resumed, runs, permits, attempt, changed, file>>

(* An exception in the main thread, such as KeyboardInterrupt, while it    *)
(* waits for a result, or in a periodic checkpoint, which stays as far as  *)
(* it got: leaving the with-block waits for every submitted future, and    *)
(* collects none.                                                          *)
Interrupt ==
    /\ phase = "running" /\ saving \in {"no", "periodic"}
    /\ phase' = "interrupted"
    /\ saving' = "no"
    /\ UNCHANGED <<resumed, completed, results, failures, runs, jobVars, file>>

(* The finally block, once the pool has shut down ...                      *)
Finally ==
    /\ saving = "no"
    /\ \/ phase = "running" /\ Submitted = Collected
       \/ phase = "interrupted" /\ \A c \in Cells : ~Active(c)
    /\ saving' = "stopping"
    /\ UNCHANGED <<mainVars, jobVars, file>>

(* ... or at once, when a second exception ends the wait for the pool: the *)
(* workers then go on without a main thread.                               *)
AbandonPool ==
    /\ phase = "interrupted" /\ saving = "no"
    /\ saving' = "stopping"
    /\ UNCHANGED <<mainVars, jobVars, file>>

(* The planning server is stopped before the last checkpoint is written.   *)
StopServer ==
    /\ saving = "stopping"
    /\ saving' = "final"
    /\ UNCHANGED <<mainVars, jobVars, file>>

(* An exception in the finally block: in stopping the server, or in the    *)
(* last checkpoint.                                                        *)
CutShort ==
    /\ saving \in {"stopping", "final"}
    /\ phase' = "aborted"
    /\ saving' = "no"
    /\ UNCHANGED <<resumed, completed, results, failures, runs, jobVars, file>>

SnapshotWithoutResults == [completed |-> completed, results |-> {}]

(* What _save_checkpoint writes.                                           *)
Snapshot == [completed |-> completed, results |-> results]

(* open("w") empties the file ...                                          *)
Truncate ==
    /\ saving \in {"periodic", "final"}
    /\ file # Torn
    /\ file' = Torn
    /\ UNCHANGED <<mainVars, saving, jobVars>>

ReturnsAlways == "returned"

(* A run with batch failures, or an exception, does not return normally.   *)
Exit == IF phase = "running" /\ failures = {} THEN "returned" ELSE "raised"

(* ... and json.dump fills it; the final checkpoint ends the run.          *)
WriteCheckpoint ==
    /\ saving \in {"periodic", "final"}
    /\ file = Torn
    /\ file' = Snapshot
    /\ saving' = "no"
    /\ phase' = IF saving = "final" THEN Exit ELSE phase
    /\ UNCHANGED <<resumed, completed, results, failures, runs, jobVars>>

(* The process is killed: memory, pool and futures are gone.               *)
Kill ==
    /\ Alive
    /\ phase' = "off"
    /\ saving' = "no"
    /\ permits' = Permits
    /\ job' = [c \in Cells |-> "out"]
    /\ completed' = {} /\ results' = {} /\ failures' = {}
    /\ outcome' = [c \in Cells |-> NoResult]
    /\ attempt' = [c \in Cells |-> 0]
    /\ changed' = [c \in Cells |-> {}]
    /\ UNCHANGED <<resumed, runs, file>>

-----------------------------------------------------------------------------
(* The worker threads.                                                     *)

(* The cells whose worker is inside the with-block of its semaphore.       *)
Holds(c) == job[c] \in {"preparing", "running"}

Busy == {c \in Cells : job[c] = "waiting" \/ Holds(c)}

(* A free worker takes the first future of the queue.                      *)
Take(c) ==
    /\ job[c] = "queued"
    /\ \A d \in Cells : d < c => job[d] # "queued"
    /\ Cardinality(Busy) < Workers
    /\ job' = [job EXCEPT ![c] = "waiting"]
    /\ UNCHANGED <<mainVars, saving, permits, attempt, outcome, changed, file>>

PermitKept(c) == permits

(* Leaving the with-block of _run_one_locked gives the permit back.        *)
PermitBack(c) == [permits EXCEPT ![Port[c]] = @ + 1]

ResultOf(c, status) ==
    [cell |-> c, status |-> status,
     storeIntact |-> "store" \notin changed[c],
     policyIntact |-> "policy" \notin changed[c]]

SkippedWithoutKey(c) == NoResult

SkippedResult(c) == [cell |-> c, status |-> "skipped",
                     storeIntact |-> TRUE, policyIntact |-> TRUE]

(* _run_one_locked takes a permit of the cell's port and calls _run_one,   *)
(* which looks at the completed keys: a cell whose key has been completed  *)
(* since it was submitted is skipped, and its permit is given straight     *)
(* back; any other is prepared (its snapshot cloned, its store hashed).    *)
Acquire(c) ==
    /\ job[c] = "waiting"
    /\ permits[Port[c]] > 0
    /\ IF Key[c] \in completed
       THEN /\ job' = [job EXCEPT ![c] = "over"]
            /\ outcome' = [outcome EXCEPT ![c] = SkippedResult(c)]
            /\ UNCHANGED permits
       ELSE /\ job' = [job EXCEPT ![c] = "preparing"]
            /\ permits' = [permits EXCEPT ![Port[c]] = @ - 1]
            /\ UNCHANGED outcome
    /\ UNCHANGED <<mainVars, saving, attempt, changed, file>>

(* The store and the policy are hashed and the child is started.           *)
StartChild(c) ==
    /\ job[c] = "preparing"
    /\ job' = [job EXCEPT ![c] = "running"]
    /\ attempt' = [attempt EXCEPT ![c] = 1]
    /\ UNCHANGED <<mainVars, saving, permits, outcome, changed, file>>

(* A child that changes its own store, or the policy file all share, while *)
(* episodes run.                                                           *)
MutateStore(c) ==
    /\ job[c] = "running" /\ c \in Frozen
    /\ changed' = [changed EXCEPT ![c] = @ \union {"store"}]
    /\ UNCHANGED <<mainVars, saving, permits, job, attempt, outcome, file>>

MutatePolicy(c) ==
    /\ job[c] = "running" /\ c \in Frozen
    /\ changed' = [d \in Cells |-> IF job[d] = "running"
                                    THEN changed[d] \union {"policy"}
                                    ELSE changed[d]]
    /\ UNCHANGED <<mainVars, saving, permits, job, attempt, outcome, file>>

DigestOfFiles(isDirectory, contents) == IF isDirectory THEN {} ELSE contents

(* store_hash digests the files below a directory, and nothing when the    *)
(* path is itself a file.                                                  *)
Digest(isDirectory, contents) == IF isDirectory THEN contents ELSE {}

(* A frozen episode is audited when its child has exited: the store is a   *)
(* directory, the policy artifact a file.                                  *)
Audited(c) ==
    c \in Frozen => /\ Digest(TRUE, changed[c] \intersect {"store"}) = {}
                    /\ Digest(FALSE, changed[c] \intersect {"policy"}) = {}

Over(c, result) ==
    /\ job' = [job EXCEPT ![c] = "over"]
    /\ outcome' = [outcome EXCEPT ![c] = result]
    /\ attempt' = [attempt EXCEPT ![c] = 0]
    /\ changed' = [changed EXCEPT ![c] = {}]
    /\ permits' = PermitBack(c)
    /\ UNCHANGED <<mainVars, saving, file>>

RetryOutsideLock(c) ==
    /\ attempt' = [attempt EXCEPT ![c] = @ + 1]
    /\ permits' = PermitBack(c)
    /\ UNCHANGED <<mainVars, saving, job, outcome, changed, file>>

(* The next attempt, on the same port.                                     *)
Retry(c) ==
    /\ attempt' = [attempt EXCEPT ![c] = @ + 1]
    /\ UNCHANGED <<mainVars, saving, permits, job, outcome, changed, file>>

(* The child exits.  A transient failure is retried as long as attempts    *)
(* are left; otherwise the episode succeeded if its exit code and the      *)
(* audit say so.                                                           *)
ChildExits(c, ok, transient) ==
    /\ job[c] = "running"
    /\ IF ~ok /\ transient /\ attempt[c] < MaxAttempts
       THEN Retry(c)
       ELSE Over(c, ResultOf(c, IF ok /\ Audited(c) THEN "success"
                                                    ELSE "failed"))

(* The time limit passes and the child's process group is killed; the      *)
(* result is returned without the audit.                                   *)
ChildTimesOut(c) ==
    /\ job[c] = "running"
    /\ Over(c, ResultOf(c, "timeout"))

(* An exception inside the try block of _run_one, or a frozen cell without *)
(* the world snapshot it requires ...                                      *)
EpisodeErrs(c) ==
    /\ Holds(c)
    /\ Over(c, ResultOf(c, "error"))

(* ... and an exception before it, while the snapshot is cloned or hashed. *)
EpisodeBreaks(c) ==
    /\ job[c] = "preparing"
    /\ Over(c, Broken)

EpisodeEnds(c) ==
    \/ \E ok, transient \in BOOLEAN : ChildExits(c, ok, transient)
    \/ ChildTimesOut(c)
    \/ EpisodeErrs(c)
    \/ EpisodeBreaks(c)

-----------------------------------------------------------------------------
Init ==
    /\ phase = "off" /\ resumed = FALSE /\ saving = "no"
    /\ permits = Permits
    /\ job = [c \in Cells |-> "out"]
    /\ attempt = [c \in Cells |-> 0]
    /\ outcome = [c \in Cells |-> NoResult]
    /\ changed = [c \in Cells |-> {}]
    /\ completed = {} /\ results = {} /\ failures = {}
    /\ file = Empty
    /\ runs = 0

Main ==
    \/ \E c \in Cells : Collect(c)
    \/ Finally
    \/ StopServer
    \/ Truncate
    \/ WriteCheckpoint

Worker(c) ==
    \/ Take(c)
    \/ Acquire(c)
    \/ StartChild(c)
    \/ EpisodeEnds(c)

Child(c) ==
    \/ MutateStore(c)
    \/ MutatePolicy(c)

(* The exceptions that leave run() early, at the latest by the finally     *)
(* block's own.                                                            *)
Leave ==
    \/ Interrupt
    \/ AbandonPool
    \/ CutShort

Next ==
    \/ \E resume, serverStarts \in BOOLEAN : Begin(resume, serverStarts)
    \/ Main
    \/ Leave
    \/ Kill
    \/ \E c \in Cells : Worker(c) \/ Child(c)

Spec == Init /\ [][Next]_vars

(* The main thread and the workers keep running; a child ends, at the      *)
(* latest when its time limit passes.  Nothing has to be interrupted,      *)
(* killed, mutated or begun.                                               *)
FairSpec ==
    /\ Spec
    /\ WF_vars(Main)
    /\ \A c \in Cells : /\ WF_vars(Take(c))
                        /\ WF_vars(Acquire(c))
                        /\ WF_vars(StartChild(c))
                        /\ WF_vars(EpisodeEnds(c))

-----------------------------------------------------------------------------
(* Every variable has the shape the code gives it; in particular an        *)
(* outcome is only held by a future that is over.                          *)
TypeOK ==
    /\ phase \in {"off", "running", "interrupted", "returned", "raised",
                  "aborted"}
    /\ saving \in {"no", "periodic", "stopping", "final"}
    /\ permits \in [Ports -> 0..1]
    /\ job \in [Cells -> {"out", "queued", "waiting", "preparing", "running",
                          "over", "collected"}]
    /\ attempt \in [Cells -> 0..MaxAttempts]
    /\ outcome \in [Cells -> Result \union {NoResult, Broken}]
    /\ \A c \in Cells : job[c] = "over" <=> outcome[c] # NoResult
    /\ resumed \in BOOLEAN
    /\ changed \in [Cells -> SUBSET {"store", "policy"}]
    /\ completed \subseteq Keys /\ failures \subseteq Cells
    /\ results \subseteq Result
    /\ file \in {Torn} \union [completed : SUBSET Keys, results : SUBSET Result]
    /\ runs \in 0..MaxRuns

(* The semaphores of run() keep two episodes off the same planning server, *)
(* however many workers there are, and a permit is out exactly while an    *)
(* episode is prepared or runs on its port: a skip, a retry, a time limit, *)
(* an error and a broken future neither lose it nor give it back twice.    *)
OneEpisodePerPort ==
    /\ \A c, d \in Cells :
          c # d /\ Holds(c) /\ Holds(d) => Port[c] # Port[d]
    /\ \A p \in Ports :
          permits[p] = 0 <=> \E c \in Cells : Holds(c) /\ Port[c] = p

(* A completed key is accounted for by a result, in memory and in every    *)
(* checkpoint a run may resume from: none is skipped without a trace.      *)
AccountedFor(keys, rows) ==
    \A k \in keys : \E r \in rows : Key[r.cell] = k /\ r.status # "error"

CompletedHaveResults ==
    /\ AccountedFor(completed, results)
    /\ file # Torn => AccountedFor(file.completed, file.results)

(* A run that returns left no cell behind: whatever was interrupted, broke *)
(* or failed with an error makes run() raise.                              *)
ReturnedMeansAll ==
    phase = "returned" => \A c \in Cells : Key[c] \in completed

(* A run whose finally block was carried out, whether it then returns or   *)
(* raises, has saved all it completed and all its results.                 *)
SavedOnExit ==
    phase \in {"returned", "raised"} =>
        file = [completed |-> completed, results |-> results]

(* The cells that completed in this run whose key is not on disk.          *)
Unsaved == {c \in Collected \ failures : Key[c] \notin file.completed}

(* Wherever a run is left, also in its finally block, and while the server *)
(* starts or a checkpoint is written: unless the checkpoint itself is torn *)
(* at most one batch of what was collected is missing from it, and a       *)
(* resumed run knows all that is in it.                                    *)
LosesAtMostABatch ==
    file # Torn =>
        /\ Cardinality(Unsaved) <= CheckpointEvery
        /\ phase # "off" /\ resumed => file.completed \subseteq completed

(* The checkpoint keeps up with the run, however the run ends.             *)
CheckpointKeepsUp == SavedOnExit /\ LosesAtMostABatch

(* A frozen episode whose store was changed is never reported as a         *)
(* success.                                                                *)
SuccessMeansStoreIntact ==
    \A r \in results :
        r.status = "success" /\ r.cell \in Frozen => r.storeIntact

(* A resumed run does not run again what the checkpoint on disk holds when *)
(* a worker looks at the completed keys.  (The child starts later: a cell  *)
(* of the same key may have been completed and saved by then.)             *)
Starts(c) == job[c] = "waiting" /\ job'[c] = "preparing"

NeverRerun ==
    [][\A c \in Cells :
          Starts(c) /\ resumed /\ file # Torn => Key[c] \notin file.completed]_vars

(* A run ends, whichever episodes time out or fail.                        *)
RunEnds ==
    phase = "running" ~> phase \in {"off", "returned", "raised", "aborted"}

-----------------------------------------------------------------------------
(* "Parallel execution now checkpoints only successful/skipped episodes".  *)
ChecksOnlySuccesses ==
    file # Torn =>
        \A k \in file.completed :
            \E r \in file.results :
                Key[r.cell] = k /\ r.status \in {"success", "skipped"}

(* "Frozen evaluation: store/policy mutation is a failure, not a warning." *)
PolicyMutationFails ==
    \A r \in results :
        r.cell \in Frozen /\ ~r.policyIntact => r.status # "success"

(* "rerun each selected opportunity [...] in a reuse and a base branch":   *)
(* a run that returns has run every cell of its grid.                      *)
EveryCellRan ==
    phase = "returned" =>
        \A c \in Cells :
            \E r \in results : r.cell = c /\ r.status # "skipped"
=============================================================================
