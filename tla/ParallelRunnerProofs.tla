------------------------ MODULE ParallelRunnerProofs ------------------------
(***************************************************************************)
(* Proofs about ParallelRunner, for every grid, every assignment of keys   *)
(* and ports to cells, and every number of workers, attempts and runs.     *)
(***************************************************************************)
EXTENDS ParallelRunner, FiniteSetTheorems, TLAPS

USE RunnerAssumption

On == phase \in {"running", "interrupted"}

Ending == saving \in {"stopping", "final"}

(* A checkpoint is written while the main thread is in run(); a future is  *)
(* unfinished only in a process that goes on, and none is when the last    *)
(* checkpoint is written unless the pool was abandoned.                    *)
MainThread ==
    /\ saving # "no" => On
    /\ \A c \in Cells : Active(c) => /\ phase \notin {"off", "returned"}
                                    /\ ~(phase = "running" /\ Ending)

(* A future holds the result of its own cell, and an audited one.          *)
Honest(r) == r.status = "success" /\ r.cell \in Frozen => r.storeIntact

OwnResults ==
    /\ \A c \in Cells : job[c] = "over" /\ outcome[c] # Broken =>
          outcome[c].cell = c /\ Honest(outcome[c])
    /\ \A r \in results : Honest(r)
    /\ file # Torn => \A r \in file.results : Honest(r)

(* While run() is under way, a cell that was not submitted is completed,   *)
(* and one that was collected is completed or a failure; at its regular    *)
(* end every submitted cell has been collected.                            *)
Accounted ==
    On => /\ \A c \in Cells : job[c] = "out" => Key[c] \in completed
          /\ \A c \in Cells : job[c] = "collected" =>
                Key[c] \in completed \/ c \in failures
          /\ phase = "running" /\ Ending => Submitted = Collected

(* A resumed run knows all that the checkpoint on disk holds.              *)
Resumed ==
    phase # "off" /\ resumed /\ file # Torn => file.completed \subseteq completed

(* While results are collected, what is missing on disk is at most what    *)
(* was collected since the last checkpoint was due; later at most a batch. *)
MissingAtMost ==
    IF phase = "running" /\ saving = "no"
    THEN Cardinality(Collected) % CheckpointEvery
    ELSE CheckpointEvery

Batch == file # Torn => Cardinality(Unsaved) <= MissingAtMost

(* A run of an empty grid is over at once and writes nothing.              *)
EmptyGrid == Cells = {} => ~On /\ file = Empty

RunnerInv ==
    /\ TypeOK
    /\ OneEpisodePerPort
    /\ CompletedHaveResults
    /\ ReturnedMeansAll
    /\ SavedOnExit
    /\ MainThread
    /\ OwnResults
    /\ Accounted
    /\ Resumed
    /\ Batch
    /\ EmptyGrid

-----------------------------------------------------------------------------
(* The values that stand for no result, a broken future and a torn file    *)
(* are none of the others.                                                 *)
LEMMA Distinct ==
    /\ NoResult \notin Result /\ Broken \notin Result /\ NoResult # Broken
    /\ \A S, T : T \subseteq Result => [completed |-> S, results |-> T] # Torn
    /\ Empty # Torn
<1>1. NoResult \notin Result /\ Broken \notin Result /\ NoResult # Broken
    BY DEF NoResult, Broken, Result, Cells
<1>2. \A S, T : T \subseteq Result => [completed |-> S, results |-> T] # Torn
  <2>1. SUFFICES ASSUME NEW S, NEW T, T \subseteq Result,
                        [completed |-> S, results |-> T] = Torn
                 PROVE  FALSE
      OBVIOUS
  <2>2. [completed |-> S, results |-> T].results = Torn.results
      BY <2>1
  <2>3. T = {NoResult}
      BY <2>2 DEF Torn
  <2> QED
      BY <2>1, <2>3, <1>1
<1>3. Empty # Torn
    BY <1>2 DEF Empty
<1> QED
    BY <1>1, <1>2, <1>3

(* Sets of cells can be counted.                                           *)
LEMMA Counting ==
    /\ Cardinality({}) = 0
    /\ \A S \in SUBSET Cells : IsFiniteSet(S) /\ Cardinality(S) \in Nat
    /\ \A S, T \in SUBSET Cells : S \subseteq T => Cardinality(S) <= Cardinality(T)
    /\ \A S \in SUBSET Cells, c \in Cells :
          c \notin S => Cardinality(S \union {c}) = Cardinality(S) + 1
<1>1. IsFiniteSet(Cells)
    BY FS_Interval DEF Cells
<1>2. \A S \in SUBSET Cells : IsFiniteSet(S)
    BY <1>1, FS_Subset
<1>3. \A S \in SUBSET Cells : Cardinality(S) \in Nat
    BY <1>2, FS_CardinalityType
<1>4. \A S, T \in SUBSET Cells : S \subseteq T => Cardinality(S) <= Cardinality(T)
    BY <1>2, FS_Subset
<1>5. \A S \in SUBSET Cells, c \in Cells :
         c \notin S => Cardinality(S \union {c}) = Cardinality(S) + 1
    BY <1>2, FS_AddElement
<1> QED
    BY <1>2, <1>3, <1>4, <1>5, FS_EmptySet

(* One more result: either a batch is full, or there is one more in it.    *)
LEMMA ModStep ==
    ASSUME NEW n \in Nat, NEW d \in Nat \ {0}
    PROVE  /\ n % d \in 0..(d - 1)
           /\ (n + 1) % d # 0 => (n + 1) % d = (n % d) + 1
BY SMTT(30)

LEMMA UnsavedIsCounted ==
    /\ Collected \subseteq Cells /\ Unsaved \subseteq Cells
    /\ Cardinality(Collected) \in Nat /\ Cardinality(Unsaved) \in Nat
<1>1. Collected \subseteq Cells /\ Unsaved \subseteq Cells
    BY DEF Collected, Unsaved
<1> QED
    BY <1>1, Counting

(* What is missing on disk is never more than a batch.                     *)
LEMMA AtMostABatch ==
    ASSUME Batch, file # Torn
    PROVE  Cardinality(Unsaved) <= CheckpointEvery
<1>1. Cardinality(Collected) \in Nat /\ Cardinality(Unsaved) \in Nat
    BY UnsavedIsCounted
<1>2. Cardinality(Collected) % CheckpointEvery \in 0..(CheckpointEvery - 1)
    BY <1>1, ModStep
<1>3. MissingAtMost <= CheckpointEvery /\ MissingAtMost \in Nat
    BY <1>2 DEF MissingAtMost
<1> QED
    BY <1>1, <1>3 DEF Batch

LEMMA PartOfABatch ==
    \A S \in SUBSET Cells : Cardinality(S) % CheckpointEvery \in 0..(CheckpointEvery - 1)
BY Counting, ModStep

(* Nothing is missing when nothing was collected or all is on disk.        *)
LEMMA NothingUnsaved == Unsaved' = {} => Batch'
<1>1. Collected' \in SUBSET Cells
    BY DEF Collected
<1> QED
    BY <1>1, Counting, PartOfABatch DEF Batch, MissingAtMost

LEMMA RunnerInit == Init => RunnerInv
<1> SUFFICES ASSUME Init PROVE RunnerInv
    OBVIOUS
<1>1. TypeOK
  <2>1. file \in [completed : SUBSET Keys, results : SUBSET Result]
      BY DEF Init, Empty
  <2>2. runs \in 0..MaxRuns /\ attempt \in [Cells -> 0..MaxAttempts]
      BY DEF Init
  <2>3. outcome \in [Cells -> Result \union {NoResult, Broken}]
      BY DEF Init
  <2>4. permits \in [Ports -> 0..1]
      BY DEF Init, Permits
  <2> QED
      BY <2>1, <2>2, <2>3, <2>4 DEF Init, TypeOK
<1>2. OneEpisodePerPort
    BY DEF Init, OneEpisodePerPort, Holds, Permits
<1>3. CompletedHaveResults
    BY DEF Init, CompletedHaveResults, AccountedFor, Empty
<1>4. ReturnedMeansAll /\ SavedOnExit /\ Accounted /\ Resumed /\ EmptyGrid
    BY DEF Init, ReturnedMeansAll, SavedOnExit, Accounted, Resumed, EmptyGrid, On
<1>5. MainThread
    BY DEF Init, MainThread, On, Active
<1>6. OwnResults
    BY DEF Init, OwnResults, Empty
<1>7. Batch
  <2>1. Unsaved = {}
      BY DEF Init, Unsaved, Collected
  <2>2. Collected \in SUBSET Cells
      BY DEF Collected
  <2> QED
      BY <2>1, <2>2, Counting, PartOfABatch DEF Batch, MissingAtMost
<1> QED
    BY <1>1, <1>2, <1>3, <1>4, <1>5, <1>6, <1>7 DEF RunnerInv

-----------------------------------------------------------------------------
(* A run starts from nothing, or from a checkpoint that was accounted for. *)
LEMMA LoadedIsGood ==
    ASSUME RunnerInv, NEW resume \in BOOLEAN
    PROVE  /\ Loaded(resume) \in [completed : SUBSET Keys, results : SUBSET Result]
           /\ AccountedFor(Loaded(resume).completed, Loaded(resume).results)
           /\ \A r \in Loaded(resume).results : Honest(r)
           /\ resume /\ file # Torn => Loaded(resume) = file
           /\ Loaded(resume).completed # {} => Loaded(resume) = file
<1>1. Empty \in [completed : SUBSET Keys, results : SUBSET Result]
    BY DEF Empty
<1>2. AccountedFor(Empty.completed, Empty.results)
        /\ (\A r \in Empty.results : Honest(r)) /\ Empty.completed = {}
    BY DEF Empty, AccountedFor
<1> QED
    BY <1>1, <1>2 DEF Loaded, RunnerInv, TypeOK, CompletedHaveResults, OwnResults

LEMMA BeginKeeps ==
    ASSUME RunnerInv, NEW resume \in BOOLEAN, NEW serverStarts \in BOOLEAN,
           Begin(resume, serverStarts)
    PROVE  RunnerInv'
<1> DEFINE pending == {c \in Cells : Key[c] \notin completed'}
<1>1. /\ completed' = Loaded(resume).completed /\ results' = Loaded(resume).results
      /\ failures' = {} /\ saving' = saving /\ file' = file /\ resumed' = resume
      /\ runs < MaxRuns /\ runs' = runs + 1
      /\ job' = [c \in Cells |-> IF serverStarts /\ c \in pending
                                THEN "queued" ELSE "out"]
      /\ phase' = IF pending = {} THEN "returned"
                  ELSE IF serverStarts THEN "running" ELSE "aborted"
      /\ permits' = Permits
      /\ outcome' = [c \in Cells |-> NoResult]
      /\ attempt' = [c \in Cells |-> 0]
      /\ changed' = [c \in Cells |-> {}]
      /\ ~On
    BY DEF Begin, Alive, On
<1>2. saving = "no"
    BY <1>1 DEF RunnerInv, MainThread
<1>3. completed' \subseteq Keys /\ results' \subseteq Result
    BY <1>1, LoadedIsGood
<1>4. TypeOK'
  <2>1. permits' \in [Ports -> 0..1]
      BY <1>1 DEF Permits
  <2> QED
      BY <1>1, <1>3, <2>1, Distinct DEF RunnerInv, TypeOK
<1>5. OneEpisodePerPort'
    BY <1>1 DEF OneEpisodePerPort, Holds, Permits
<1>6. CompletedHaveResults'
    BY <1>1, LoadedIsGood DEF RunnerInv, CompletedHaveResults, AccountedFor
<1>7. ReturnedMeansAll'
    BY <1>1 DEF ReturnedMeansAll
<1>8. SavedOnExit'
  <2>1. SUFFICES ASSUME pending = {}
                 PROVE  file = [completed |-> completed', results |-> results']
      BY <1>1 DEF SavedOnExit
  <2>2. CASE Cells = {}
    <3>1. file = Empty
        BY <2>2 DEF RunnerInv, EmptyGrid
    <3> QED
        BY <1>1, <3>1 DEF Loaded, Empty
  <2>3. CASE Cells # {}
    <3>1. completed' # {}
        BY <2>1, <2>3
    <3>2. Loaded(resume) = file
        BY <1>1, <3>1, LoadedIsGood
    <3>3. file \in [completed : SUBSET Keys, results : SUBSET Result]
        BY <3>2, LoadedIsGood
    <3> QED
        BY <1>1, <3>2, <3>3
  <2> QED
      BY <2>2, <2>3
<1>9. MainThread'
    BY <1>1, <1>2 DEF RunnerInv, MainThread, On, Ending, Active
<1>10. OwnResults'
    BY <1>1, LoadedIsGood DEF RunnerInv, OwnResults, Honest
<1>11. Accounted'
    BY <1>1, <1>2 DEF Accounted, On, Ending
<1>12. Resumed'
    BY <1>1, LoadedIsGood DEF Resumed, On
<1>13. EmptyGrid'
    BY <1>1 DEF RunnerInv, EmptyGrid, On
<1>14. Batch'
  <2>1. Unsaved' = {}
      BY <1>1 DEF Unsaved, Collected
  <2> QED
      BY <2>1, NothingUnsaved
<1> QED
    BY <1>4, <1>5, <1>6, <1>7, <1>8, <1>9, <1>10, <1>11, <1>12, <1>13, <1>14
    DEF RunnerInv

-----------------------------------------------------------------------------
(* The ports are as they were when no cell took or gave back its own.      *)
LEMMA PortsKept ==
    ASSUME OneEpisodePerPort, permits' = permits,
           \A c \in Cells : Holds(c)' <=> Holds(c)
    PROVE  OneEpisodePerPort'
BY DEF OneEpisodePerPort

(* The steps of the main thread that only move it through run().           *)
LEMMA MovesKeep ==
    ASSUME RunnerInv,
           UNCHANGED <<resumed, completed, results, failures, runs, jobVars, file>>,
           phase' \in {phase, "interrupted", "aborted"}, phase # "off",
           saving' \in {"no", "stopping", "final"},
           ~(phase' = "running" /\ saving' = "no")
    PROVE  /\ TypeOK' /\ OneEpisodePerPort' /\ CompletedHaveResults'
           /\ ReturnedMeansAll' /\ OwnResults' /\ Resumed' /\ Batch'
<1>1. TypeOK'
    BY DEF RunnerInv, TypeOK, jobVars
<1>2. OneEpisodePerPort'
    BY PortsKept DEF RunnerInv, Holds, jobVars
<1>3. CompletedHaveResults' /\ OwnResults' /\ Resumed' /\ ReturnedMeansAll'
    BY DEF RunnerInv, CompletedHaveResults, OwnResults, Resumed, ReturnedMeansAll,
       jobVars
<1>4. Batch'
  <2>1. Unsaved' = Unsaved
      BY DEF Unsaved, Collected, jobVars
  <2>2. file # Torn => Cardinality(Unsaved) <= CheckpointEvery
      BY AtMostABatch DEF RunnerInv
  <2>3. MissingAtMost' = CheckpointEvery
      BY DEF MissingAtMost
  <2> QED
      BY <2>1, <2>2, <2>3 DEF Batch
<1> QED
    BY <1>1, <1>2, <1>3, <1>4

-----------------------------------------------------------------------------
(* A collected result enters the results and its key the completed ones,   *)
(* or its cell the failures.                                               *)
LEMMA CollectKeeps ==
    ASSUME RunnerInv, NEW c \in Cells, Collect(c)
    PROVE  RunnerInv'
<1>1. /\ phase = "running" /\ saving = "no" /\ job[c] = "over"
      /\ resumed' = resumed /\ runs' = runs /\ attempt' = attempt
      /\ permits' = permits /\ changed' = changed /\ file' = file
    BY DEF Collect
<1>2. CASE outcome[c] = Broken
  <2>1. /\ phase' = "interrupted"
        /\ UNCHANGED <<job, outcome, completed, results, failures, saving>>
      BY <1>2 DEF Collect
  <2>2. /\ TypeOK' /\ OneEpisodePerPort' /\ CompletedHaveResults'
        /\ ReturnedMeansAll' /\ OwnResults' /\ Resumed' /\ Batch'
      BY <1>1, <2>1, MovesKeep DEF jobVars
  <2>3. SavedOnExit' /\ MainThread' /\ Accounted' /\ EmptyGrid'
      BY <1>1, <2>1 DEF RunnerInv, SavedOnExit, MainThread, On, Ending, Active,
         Accounted, EmptyGrid
  <2> QED
      BY <2>2, <2>3 DEF RunnerInv
<1>3. CASE outcome[c] # Broken
  <2>1. /\ job' = [job EXCEPT ![c] = "collected"]
        /\ outcome' = [outcome EXCEPT ![c] = NoResult]
        /\ results' = results \union {outcome[c]}
        /\ \/ /\ Completes(outcome[c].status)
              /\ completed' = completed \union {Key[c]} /\ failures' = failures
           \/ /\ ~Completes(outcome[c].status)
              /\ completed' = completed /\ failures' = failures \union {c}
        /\ saving' = IF CheckpointDue(Cardinality(Collected) + 1)
                     THEN "periodic" ELSE "no"
        /\ phase' = "running"
      BY <1>1, <1>3 DEF Collect
  <2>2. outcome[c] \in Result /\ outcome[c].cell = c /\ Honest(outcome[c])
      BY <1>1, <1>3 DEF RunnerInv, TypeOK, OwnResults
  <2>3. \A d \in Cells : /\ d # c => job'[d] = job[d] /\ outcome'[d] = outcome[d]
                         /\ d = c => job'[d] = "collected" /\ outcome'[d] = NoResult
      BY <2>1 DEF RunnerInv, TypeOK
  <2>4. TypeOK'
      BY <1>1, <2>1, <2>2, <2>3 DEF RunnerInv, TypeOK
  <2>5. OneEpisodePerPort'
      BY <1>1, <2>3, PortsKept DEF RunnerInv, Holds
  <2>6. CompletedHaveResults'
    <3>1. Completes(outcome[c].status) =>
             Key[outcome[c].cell] = Key[c] /\ outcome[c].status # "error"
        BY <2>2 DEF Completes
    <3>2. AccountedFor(completed', results')
        BY <2>1, <3>1 DEF RunnerInv, CompletedHaveResults, AccountedFor
    <3> QED
        BY <1>1, <3>2 DEF RunnerInv, CompletedHaveResults
  <2>7. ReturnedMeansAll' /\ SavedOnExit'
      BY <2>1 DEF ReturnedMeansAll, SavedOnExit
  <2>8. MainThread'
      BY <1>1, <2>1, <2>3 DEF RunnerInv, MainThread, On, Ending, Active
  <2>9. OwnResults'
      BY <1>1, <2>1, <2>2, <2>3 DEF RunnerInv, OwnResults
  <2>10. Accounted'
      BY <1>1, <2>1, <2>3 DEF RunnerInv, Accounted, On, Ending
  <2>11. Resumed' /\ EmptyGrid'
      BY <1>1, <2>1 DEF RunnerInv, Resumed, EmptyGrid, On
  <2>12. Batch'
    <3> SUFFICES ASSUME file # Torn
                 PROVE  Cardinality(Unsaved)' <= MissingAtMost'
        BY <1>1 DEF Batch
    <3> DEFINE n == Cardinality(Collected)
    <3>1. Collected' = Collected \union {c} /\ c \notin Collected
        BY <1>1, <2>3 DEF Collected
    <3>2. n \in Nat /\ Cardinality(Collected') = n + 1
        BY <3>1, Counting, UnsavedIsCounted
    <3>3. Unsaved' \subseteq Unsaved \union {c}
        BY <1>1, <2>1, <3>1 DEF RunnerInv, Accounted, On, Unsaved, Collected
    <3>4. Cardinality(Unsaved') <= Cardinality(Unsaved) + 1
      <4>1. Cardinality(Unsaved \union {c}) <= Cardinality(Unsaved) + 1
          BY Counting, UnsavedIsCounted
      <4>2. Unsaved' \in SUBSET Cells /\ Unsaved \union {c} \in SUBSET Cells
          BY <3>3, UnsavedIsCounted
      <4>3. Cardinality(Unsaved') <= Cardinality(Unsaved \union {c})
          BY <3>3, <4>2, Counting
      <4>4. /\ Cardinality(Unsaved') \in Nat
            /\ Cardinality(Unsaved \union {c}) \in Nat
          BY <4>2, Counting
      <4> QED
          BY <4>1, <4>3, <4>4, UnsavedIsCounted
    <3>5. Cardinality(Unsaved) <= n % CheckpointEvery
        BY <1>1 DEF RunnerInv, Batch, MissingAtMost
    <3>6. /\ n % CheckpointEvery \in 0..(CheckpointEvery - 1)
          /\ (n + 1) % CheckpointEvery # 0 =>
                (n + 1) % CheckpointEvery = (n % CheckpointEvery) + 1
        BY <3>2, ModStep
    <3>7. MissingAtMost' = IF (n + 1) % CheckpointEvery = 0 THEN CheckpointEvery
                           ELSE (n + 1) % CheckpointEvery
        BY <2>1, <3>2 DEF MissingAtMost, CheckpointDue
    <3>8. Cardinality(Unsaved) \in Nat /\ Cardinality(Unsaved') \in Nat
      <4>1. Unsaved' \in SUBSET Cells
          BY <3>3, UnsavedIsCounted
      <4> QED
          BY <4>1, Counting, UnsavedIsCounted
    <3> HIDE DEF n
    <3>9. Cardinality(Unsaved') <= MissingAtMost'
        BY <3>4, <3>5, <3>6, <3>7, <3>8
    <3> QED
        BY <3>9
  <2> QED
      BY <2>4, <2>5, <2>6, <2>7, <2>8, <2>9, <2>10, <2>11, <2>12 DEF RunnerInv
<1> QED
    BY <1>2, <1>3

LEMMA InterruptKeeps ==
    ASSUME RunnerInv, Interrupt
    PROVE  RunnerInv'
<1>1. /\ phase = "running" /\ phase' = "interrupted" /\ saving' = "no"
      /\ UNCHANGED <<resumed, completed, results, failures, runs, jobVars, file>>
    BY DEF Interrupt
<1>2. /\ TypeOK' /\ OneEpisodePerPort' /\ CompletedHaveResults'
      /\ ReturnedMeansAll' /\ OwnResults' /\ Resumed' /\ Batch'
    BY <1>1, MovesKeep
<1>3. SavedOnExit' /\ MainThread' /\ Accounted' /\ EmptyGrid'
    BY <1>1 DEF RunnerInv, SavedOnExit, MainThread, On, Ending, Active, Accounted,
       EmptyGrid, jobVars
<1> QED
    BY <1>2, <1>3 DEF RunnerInv

(* The pool has shut down: no future is unfinished any more.               *)
LEMMA FinallyKeeps ==
    ASSUME RunnerInv, Finally
    PROVE  RunnerInv'
<1>1. /\ saving = "no" /\ saving' = "stopping" /\ On
      /\ UNCHANGED <<mainVars, jobVars, file>>
    BY DEF Finally, On
<1>2. \A c \in Cells : ~Active(c)
    BY DEF Finally, Submitted, Collected, Active
<1>3. phase = "running" => Submitted = Collected
    BY <1>2 DEF Finally, Active, Submitted
<1>4. /\ TypeOK' /\ OneEpisodePerPort' /\ CompletedHaveResults'
      /\ ReturnedMeansAll' /\ OwnResults' /\ Resumed' /\ Batch'
    BY <1>1, MovesKeep DEF mainVars, On
<1>5. SavedOnExit' /\ EmptyGrid'
    BY <1>1 DEF RunnerInv, SavedOnExit, EmptyGrid, On, mainVars
<1>6. MainThread'
    BY <1>1, <1>2 DEF MainThread, On, Active, mainVars, jobVars
<1>7. Accounted'
    BY <1>1, <1>3 DEF RunnerInv, Accounted, On, Submitted, Collected, mainVars,
       jobVars
<1> QED
    BY <1>4, <1>5, <1>6, <1>7 DEF RunnerInv

LEMMA AbandonPoolKeeps ==
    ASSUME RunnerInv, AbandonPool
    PROVE  RunnerInv'
<1>1. /\ phase = "interrupted" /\ saving' = "stopping"
      /\ UNCHANGED <<mainVars, jobVars, file>>
    BY DEF AbandonPool
<1>2. /\ TypeOK' /\ OneEpisodePerPort' /\ CompletedHaveResults'
      /\ ReturnedMeansAll' /\ OwnResults' /\ Resumed' /\ Batch'
    BY <1>1, MovesKeep DEF mainVars
<1>3. SavedOnExit' /\ MainThread' /\ Accounted' /\ EmptyGrid'
    BY <1>1 DEF RunnerInv, SavedOnExit, MainThread, On, Ending, Active, Accounted,
       EmptyGrid, mainVars, jobVars
<1> QED
    BY <1>2, <1>3 DEF RunnerInv

LEMMA StopServerKeeps ==
    ASSUME RunnerInv, StopServer
    PROVE  RunnerInv'
<1>1. /\ saving = "stopping" /\ saving' = "final" /\ On
      /\ UNCHANGED <<mainVars, jobVars, file>>
    BY DEF StopServer, RunnerInv, MainThread
<1>2. /\ TypeOK' /\ OneEpisodePerPort' /\ CompletedHaveResults'
      /\ ReturnedMeansAll' /\ OwnResults' /\ Resumed' /\ Batch'
    BY <1>1, MovesKeep DEF mainVars, On
<1>3. SavedOnExit' /\ MainThread' /\ EmptyGrid'
    BY <1>1 DEF RunnerInv, SavedOnExit, MainThread, On, Ending, Active,
       EmptyGrid, mainVars, jobVars
<1>4. Accounted'
    BY <1>1 DEF RunnerInv, Accounted, On, Ending, Submitted, Collected, mainVars,
       jobVars
<1> QED
    BY <1>2, <1>3, <1>4 DEF RunnerInv

(* A run cut short leaves the checkpoint as it is, and all to it.          *)
LEMMA CutShortKeeps ==
    ASSUME RunnerInv, CutShort
    PROVE  RunnerInv'
<1>1. /\ On /\ phase' = "aborted" /\ saving' = "no"
      /\ UNCHANGED <<resumed, completed, results, failures, runs, jobVars, file>>
    BY DEF CutShort, RunnerInv, MainThread
<1>2. /\ TypeOK' /\ OneEpisodePerPort' /\ CompletedHaveResults'
      /\ ReturnedMeansAll' /\ OwnResults' /\ Resumed' /\ Batch'
    BY <1>1, MovesKeep DEF On
<1>3. SavedOnExit' /\ MainThread' /\ Accounted' /\ EmptyGrid'
    BY <1>1 DEF RunnerInv, SavedOnExit, MainThread, On, Ending, Active, Accounted,
       EmptyGrid, jobVars
<1> QED
    BY <1>2, <1>3 DEF RunnerInv

LEMMA TruncateKeeps ==
    ASSUME RunnerInv, Truncate
    PROVE  RunnerInv'
<1>1. /\ saving # "no" /\ On /\ file' = Torn
      /\ UNCHANGED <<mainVars, saving, jobVars>>
    BY DEF Truncate, RunnerInv, MainThread
<1>2. TypeOK' /\ CompletedHaveResults'
    BY <1>1 DEF RunnerInv, TypeOK, CompletedHaveResults, mainVars, jobVars
<1>3. OneEpisodePerPort'
    BY <1>1, PortsKept DEF RunnerInv, Holds, jobVars
<1>4. ReturnedMeansAll' /\ SavedOnExit' /\ OwnResults' /\ Resumed' /\ EmptyGrid'
    BY <1>1 DEF RunnerInv, ReturnedMeansAll, SavedOnExit, OwnResults, Resumed,
       EmptyGrid, On, mainVars, jobVars
<1>5. MainThread' /\ Accounted'
    BY <1>1 DEF RunnerInv, MainThread, Accounted, On, Ending, Active, Submitted,
       Collected, mainVars, jobVars
<1>6. Batch'
    BY <1>1 DEF Batch
<1> QED
    BY <1>2, <1>3, <1>4, <1>5, <1>6 DEF RunnerInv

(* The last checkpoint ends the run: normally only when every submitted    *)
(* cell was collected and none was a failure.                              *)
LEMMA WriteCheckpointKeeps ==
    ASSUME RunnerInv, WriteCheckpoint
    PROVE  RunnerInv'
<1>1. /\ saving \in {"periodic", "final"} /\ On
      /\ file' = [completed |-> completed, results |-> results] /\ saving' = "no"
      /\ phase' = IF saving = "final" THEN Exit ELSE phase
      /\ UNCHANGED <<resumed, completed, results, failures, runs, jobVars>>
    BY DEF WriteCheckpoint, Snapshot, RunnerInv, MainThread
<1>2. file' \in [completed : SUBSET Keys, results : SUBSET Result]
    BY <1>1 DEF RunnerInv, TypeOK
<1>3. Exit \in {"returned", "raised"} /\ (phase # "running" => Exit = "raised")
    BY DEF Exit
<1>4. TypeOK'
    BY <1>1, <1>2, <1>3 DEF RunnerInv, TypeOK, jobVars
<1>5. OneEpisodePerPort'
    BY <1>1, PortsKept DEF RunnerInv, Holds, jobVars
<1>6. CompletedHaveResults' /\ SavedOnExit' /\ OwnResults'
    BY <1>1 DEF RunnerInv, CompletedHaveResults, SavedOnExit, OwnResults, jobVars
<1>7. ReturnedMeansAll'
  <2>1. SUFFICES ASSUME phase' = "returned", NEW c \in Cells
                 PROVE  Key[c] \in completed
      BY <1>1 DEF ReturnedMeansAll
  <2>2. saving = "final" /\ phase = "running" /\ failures = {}
      BY <1>1, <2>1 DEF Exit, On
  <2>3. job[c] \in {"out", "collected"}
      BY <1>1, <2>2 DEF RunnerInv, Accounted, Ending, Submitted, Collected
  <2> QED
      BY <1>1, <2>2, <2>3 DEF RunnerInv, Accounted
<1>8. MainThread'
    BY <1>1, <1>3 DEF RunnerInv, MainThread, On, Ending, Active, jobVars
<1>9. Accounted' /\ Resumed' /\ EmptyGrid'
    BY <1>1, <1>3 DEF RunnerInv, Accounted, Resumed, EmptyGrid, On, Ending,
       Submitted, Collected, jobVars
<1>10. Batch'
  <2>1. Unsaved' = {}
      BY <1>1 DEF RunnerInv, Accounted, Unsaved, Collected, jobVars
  <2> QED
      BY <2>1, NothingUnsaved
<1> QED
    BY <1>4, <1>5, <1>6, <1>7, <1>8, <1>9, <1>10 DEF RunnerInv

(* A killed runner leaves only what is on disk.                            *)
LEMMA KillKeeps ==
    ASSUME RunnerInv, Kill
    PROVE  RunnerInv'
<1>1. /\ Cells = {} => On
      /\ phase' = "off" /\ saving' = "no" /\ file' = file
      /\ runs' = runs /\ resumed' = resumed /\ permits' = Permits
      /\ job' = [c \in Cells |-> "out"]
      /\ completed' = {} /\ results' = {} /\ failures' = {}
      /\ outcome' = [c \in Cells |-> NoResult]
      /\ attempt' = [c \in Cells |-> 0]
      /\ changed' = [c \in Cells |-> {}]
    BY DEF Kill, Alive, On
<1>2. /\ runs' \in 0..MaxRuns /\ attempt' \in [Cells -> 0..MaxAttempts]
      /\ permits' \in [Ports -> 0..1]
    BY <1>1 DEF RunnerInv, TypeOK, Permits
<1>3. TypeOK'
    BY <1>1, <1>2 DEF RunnerInv, TypeOK
<1>4. OneEpisodePerPort'
    BY <1>1 DEF OneEpisodePerPort, Holds, Permits
<1>5. CompletedHaveResults' /\ OwnResults'
    BY <1>1 DEF RunnerInv, CompletedHaveResults, AccountedFor, OwnResults
<1>6. ReturnedMeansAll' /\ SavedOnExit' /\ MainThread' /\ Accounted' /\ Resumed'
    BY <1>1 DEF ReturnedMeansAll, SavedOnExit, MainThread, Accounted, Resumed, On,
       Active
<1>7. EmptyGrid'
    BY <1>1 DEF RunnerInv, EmptyGrid, On
<1>8. Batch'
  <2>1. Unsaved' = {}
      BY <1>1 DEF Unsaved, Collected
  <2> QED
      BY <2>1, NothingUnsaved
<1> QED
    BY <1>3, <1>4, <1>5, <1>6, <1>7, <1>8 DEF RunnerInv

-----------------------------------------------------------------------------
(* A worker moves one unfinished future and touches nothing else: what the *)
(* main thread knows is not disturbed.                                     *)
LEMMA WorkerKeeps ==
    ASSUME RunnerInv, NEW c \in Cells, Active(c),
           UNCHANGED <<mainVars, saving, file>>,
           job'[c] \in {"waiting", "preparing", "running", "over"},
           \A d \in Cells : d # c => job'[d] = job[d]
    PROVE  /\ CompletedHaveResults' /\ ReturnedMeansAll' /\ SavedOnExit'
           /\ MainThread' /\ Accounted' /\ Resumed' /\ Batch' /\ EmptyGrid'
<1>1. phase \notin {"off", "returned"} /\ ~(phase = "running" /\ Ending)
    BY DEF RunnerInv, MainThread
<1>2. CompletedHaveResults' /\ ReturnedMeansAll' /\ SavedOnExit' /\ Resumed' /\ EmptyGrid'
    BY DEF RunnerInv, CompletedHaveResults, ReturnedMeansAll, SavedOnExit, Resumed,
       EmptyGrid, On, mainVars
<1>3. MainThread'
    BY <1>1 DEF RunnerInv, MainThread, On, Ending, Active, mainVars
<1>4. Accounted'
    BY <1>1 DEF RunnerInv, Accounted, On, Ending, mainVars
<1>5. Batch'
  <2>1. Collected' = Collected
      BY DEF Collected, Active
  <2>2. Unsaved' = Unsaved /\ MissingAtMost' = MissingAtMost
      BY <2>1 DEF Unsaved, MissingAtMost, mainVars
  <2> QED
      BY <2>2 DEF RunnerInv, Batch
<1> QED
    BY <1>2, <1>3, <1>4, <1>5

LEMMA TakeKeeps ==
    ASSUME RunnerInv, NEW c \in Cells, Take(c)
    PROVE  RunnerInv'
<1>1. /\ job[c] = "queued" /\ job' = [job EXCEPT ![c] = "waiting"]
      /\ UNCHANGED <<mainVars, saving, permits, attempt, outcome, changed, file>>
    BY DEF Take
<1>2. job'[c] = "waiting" /\ \A d \in Cells : d # c => job'[d] = job[d]
    BY <1>1 DEF RunnerInv, TypeOK
<1>3. TypeOK'
    BY <1>1, <1>2 DEF RunnerInv, TypeOK, mainVars
<1>4. OneEpisodePerPort'
    BY <1>1, <1>2, PortsKept DEF RunnerInv, Holds
<1>5. OwnResults'
    BY <1>1, <1>2 DEF RunnerInv, OwnResults, mainVars
<1> QED
    BY <1>1, <1>2, <1>3, <1>4, <1>5, WorkerKeeps DEF RunnerInv, Active

(* The episode of a cell begins only with the permit of its port, which no *)
(* other holds then; a cell that is skipped instead does not keep it.      *)
LEMMA AcquireKeeps ==
    ASSUME RunnerInv, NEW c \in Cells, Acquire(c)
    PROVE  RunnerInv'
<1>1. /\ job[c] = "waiting" /\ permits[Port[c]] > 0
      /\ UNCHANGED <<mainVars, saving, attempt, changed, file>>
    BY DEF Acquire
<1>2. \/ /\ job' = [job EXCEPT ![c] = "over"]
         /\ outcome' = [outcome EXCEPT ![c] = SkippedResult(c)]
         /\ permits' = permits
      \/ /\ job' = [job EXCEPT ![c] = "preparing"]
         /\ permits' = [permits EXCEPT ![Port[c]] = @ - 1]
         /\ outcome' = outcome
    BY DEF Acquire
<1>3. /\ job'[c] \in {"preparing", "over"}
      /\ job'[c] = "over" <=> outcome'[c] # NoResult
      /\ job'[c] = "over" => outcome'[c] = SkippedResult(c)
      /\ \A d \in Cells : d # c => job'[d] = job[d] /\ outcome'[d] = outcome[d]
  <2>1. SkippedResult(c) # NoResult
      BY DEF SkippedResult, NoResult
  <2> QED
      BY <1>1, <1>2, <2>1 DEF RunnerInv, TypeOK
<1>4. SkippedResult(c) \in Result
    BY DEF SkippedResult, Result, Statuses
<1>5. Port[c] \in Ports /\ permits[Port[c]] = 1
    BY <1>1 DEF RunnerInv, TypeOK
<1>6. permits' \in [Ports -> 0..1]
    BY <1>2, <1>5 DEF RunnerInv, TypeOK
<1>7. TypeOK'
    BY <1>1, <1>2, <1>3, <1>4, <1>6 DEF RunnerInv, TypeOK, mainVars
<1>8. OneEpisodePerPort'
  <2>1. CASE job'[c] = "over"
    <3>1. permits' = permits
        BY <1>2, <2>1 DEF RunnerInv, TypeOK
    <3>2. \A d \in Cells : Holds(d)' <=> Holds(d)
        BY <1>1, <1>3, <2>1 DEF Holds
    <3> QED
        BY <3>1, <3>2, PortsKept DEF RunnerInv
  <2>2. CASE job'[c] = "preparing"
    <3>1. permits' = [permits EXCEPT ![Port[c]] = @ - 1]
        BY <1>2, <2>2 DEF RunnerInv, TypeOK
    <3>2. permits'[Port[c]] = 0 /\ \A p \in Ports : p # Port[c] => permits'[p] = permits[p]
        BY <1>5, <3>1 DEF RunnerInv, TypeOK
    <3>3. \A d \in Cells : Holds(d)' <=> (Holds(d) \/ d = c)
        BY <1>1, <1>3, <2>2 DEF Holds
    <3>4. \A d \in Cells : Holds(d) => Port[d] # Port[c]
        BY <1>5 DEF RunnerInv, OneEpisodePerPort
    <3> QED
        BY <3>2, <3>3, <3>4 DEF RunnerInv, OneEpisodePerPort
  <2> QED
      BY <1>3, <2>1, <2>2
<1>9. OwnResults'
  <2>1. SkippedResult(c).cell = c /\ Honest(SkippedResult(c))
      BY DEF SkippedResult, Honest
  <2> QED
      BY <1>1, <1>3, <2>1 DEF RunnerInv, OwnResults, mainVars
<1> QED
    BY <1>1, <1>3, <1>7, <1>8, <1>9, WorkerKeeps DEF RunnerInv, Active

LEMMA StartChildKeeps ==
    ASSUME RunnerInv, NEW c \in Cells, StartChild(c)
    PROVE  RunnerInv'
<1>1. /\ job[c] = "preparing" /\ job' = [job EXCEPT ![c] = "running"]
      /\ attempt' = [attempt EXCEPT ![c] = 1]
      /\ UNCHANGED <<mainVars, saving, permits, outcome, changed, file>>
    BY DEF StartChild
<1>2. job'[c] = "running" /\ \A d \in Cells : d # c => job'[d] = job[d]
    BY <1>1 DEF RunnerInv, TypeOK
<1>3. attempt' \in [Cells -> 0..MaxAttempts]
    BY <1>1 DEF RunnerInv, TypeOK
<1>4. TypeOK'
    BY <1>1, <1>2, <1>3 DEF RunnerInv, TypeOK, mainVars
<1>5. OneEpisodePerPort'
    BY <1>1, <1>2, PortsKept DEF RunnerInv, Holds
<1>6. OwnResults'
    BY <1>1, <1>2 DEF RunnerInv, OwnResults, mainVars
<1> QED
    BY <1>1, <1>2, <1>4, <1>5, <1>6, WorkerKeeps DEF RunnerInv, Active

(* A step that leaves the main thread, the jobs, the ports and the file as *)
(* they are.                                                               *)
LEMMA CountsKeep ==
    ASSUME RunnerInv, TypeOK',
           UNCHANGED <<mainVars, saving, permits, job, outcome, file>>
    PROVE  RunnerInv'
<1>1. OneEpisodePerPort'
    BY PortsKept DEF RunnerInv, Holds
<1>2. CompletedHaveResults' /\ OwnResults' /\ ReturnedMeansAll' /\ SavedOnExit'
    BY DEF RunnerInv, CompletedHaveResults, OwnResults, ReturnedMeansAll,
       SavedOnExit, mainVars
<1>3. MainThread' /\ Accounted' /\ Resumed' /\ EmptyGrid'
    BY DEF RunnerInv, MainThread, Accounted, Resumed, EmptyGrid, On, Ending, Active,
       Submitted, Collected, mainVars
<1>4. Batch'
    BY DEF RunnerInv, Batch, MissingAtMost, Unsaved, Collected, mainVars
<1> QED
    BY <1>1, <1>2, <1>3, <1>4 DEF RunnerInv

LEMMA ChildKeeps ==
    ASSUME RunnerInv, NEW c \in Cells, Child(c)
    PROVE  RunnerInv'
<1>1. /\ changed' \in [Cells -> SUBSET {"store", "policy"}]
      /\ UNCHANGED <<mainVars, saving, permits, job, attempt, outcome, file>>
    BY DEF Child, MutateStore, MutatePolicy, RunnerInv, TypeOK
<1>2. TypeOK'
    BY <1>1 DEF RunnerInv, TypeOK, mainVars
<1> QED
    BY <1>1, <1>2, CountsKeep

(* An episode ends with a result of its own cell, audited if it is one of  *)
(* success, or breaks its future; its permit is the one that was out.      *)
LEMMA OverKeeps ==
    ASSUME RunnerInv, NEW c \in Cells, Holds(c), NEW r,
           Over(c, r),
           r = Broken \/ (r \in Result /\ r.cell = c /\ Honest(r))
    PROVE  RunnerInv'
<1>1. /\ job' = [job EXCEPT ![c] = "over"]
      /\ outcome' = [outcome EXCEPT ![c] = r]
      /\ attempt' = [attempt EXCEPT ![c] = 0]
      /\ changed' = [changed EXCEPT ![c] = {}]
      /\ permits' = [permits EXCEPT ![Port[c]] = @ + 1]
      /\ UNCHANGED <<mainVars, saving, file>>
    BY DEF Over, PermitBack
<1>2. /\ job'[c] = "over" /\ outcome'[c] = r
      /\ \A d \in Cells : d # c => job'[d] = job[d] /\ outcome'[d] = outcome[d]
    BY <1>1 DEF RunnerInv, TypeOK
<1>3. r # NoResult
    BY Distinct
<1>4. attempt' \in [Cells -> 0..MaxAttempts]
    BY <1>1 DEF RunnerInv, TypeOK
<1>5. Port[c] \in Ports /\ permits[Port[c]] = 0
    BY DEF RunnerInv, OneEpisodePerPort
<1>6. /\ permits' \in [Ports -> 0..1] /\ permits'[Port[c]] = 1
      /\ \A p \in Ports : p # Port[c] => permits'[p] = permits[p]
    BY <1>1, <1>5 DEF RunnerInv, TypeOK
<1>7. TypeOK'
    BY <1>1, <1>2, <1>3, <1>4, <1>6 DEF RunnerInv, TypeOK, mainVars
<1>8. OneEpisodePerPort'
  <2>1. \A d \in Cells : Holds(d)' <=> (Holds(d) /\ d # c)
      BY <1>2 DEF Holds
  <2>2. \A d \in Cells : d # c /\ Holds(d) => Port[d] # Port[c]
      BY DEF RunnerInv, OneEpisodePerPort
  <2> QED
      BY <1>6, <2>1, <2>2 DEF RunnerInv, OneEpisodePerPort
<1>9. OwnResults'
    BY <1>1, <1>2 DEF RunnerInv, OwnResults, mainVars
<1> QED
    BY <1>1, <1>2, <1>7, <1>8, <1>9, WorkerKeeps DEF RunnerInv, Active, Holds

(* The audit that a success passes finds the store unchanged.              *)
LEMMA ResultIsHonest ==
    ASSUME RunnerInv, NEW c \in Cells, NEW status \in Statuses,
           status = "success" => Audited(c)
    PROVE  /\ ResultOf(c, status) \in Result
           /\ ResultOf(c, status).cell = c
           /\ Honest(ResultOf(c, status))
<1>1. ResultOf(c, status) \in Result /\ ResultOf(c, status).cell = c
    BY DEF ResultOf, Result
<1>2. ASSUME status = "success", c \in Frozen
      PROVE  "store" \notin changed[c]
  <2>1. changed[c] \intersect {"store"} = {}
      BY <1>2 DEF Audited, Digest
  <2> QED
      BY <2>1
<1> QED
    BY <1>1, <1>2 DEF ResultOf, Honest

LEMMA EpisodeEndsKeeps ==
    ASSUME RunnerInv, NEW c \in Cells, EpisodeEnds(c)
    PROVE  RunnerInv'
<1>1. CASE \E ok, transient \in BOOLEAN : ChildExits(c, ok, transient)
  <2>1. PICK ok \in BOOLEAN, transient \in BOOLEAN : ChildExits(c, ok, transient)
      BY <1>1
  <2>2. job[c] = "running"
      BY <2>1 DEF ChildExits
  <2>3. CASE ~ok /\ transient /\ attempt[c] < MaxAttempts
    <3>1. /\ attempt' = [attempt EXCEPT ![c] = @ + 1]
          /\ UNCHANGED <<mainVars, saving, permits, job, outcome, changed, file>>
        BY <2>1, <2>3 DEF ChildExits, Retry
    <3>2. attempt' \in [Cells -> 0..MaxAttempts]
        BY <2>3, <3>1 DEF RunnerInv, TypeOK
    <3>3. TypeOK'
        BY <3>1, <3>2 DEF RunnerInv, TypeOK, mainVars
    <3> QED
        BY <3>1, <3>3, CountsKeep
  <2>4. CASE ~(~ok /\ transient /\ attempt[c] < MaxAttempts)
    <3>1. PICK status \in Statuses : /\ Over(c, ResultOf(c, status))
                                     /\ status = "success" => Audited(c)
        BY <2>1, <2>4 DEF ChildExits, Statuses
    <3> QED
        BY <2>2, <3>1, ResultIsHonest, OverKeeps DEF Holds
  <2> QED
      BY <2>3, <2>4
<1>2. CASE ChildTimesOut(c)
    BY <1>2, ResultIsHonest, OverKeeps DEF ChildTimesOut, Statuses, Holds
<1>3. CASE EpisodeErrs(c)
    BY <1>3, ResultIsHonest, OverKeeps DEF EpisodeErrs, Statuses
<1>4. CASE EpisodeBreaks(c)
    BY <1>4, OverKeeps DEF EpisodeBreaks, Holds
<1> QED
    BY <1>1, <1>2, <1>3, <1>4 DEF EpisodeEnds

-----------------------------------------------------------------------------
LEMMA StutterKeeps ==
    ASSUME RunnerInv, UNCHANGED vars
    PROVE  RunnerInv'
<1>1. TypeOK'
    BY DEF RunnerInv, TypeOK, vars, mainVars, jobVars
<1> QED
    BY <1>1, CountsKeep DEF vars, jobVars

LEMMA RunnerNext ==
    ASSUME RunnerInv, [Next]_vars
    PROVE  RunnerInv'
<1>1. CASE \E resume, serverStarts \in BOOLEAN : Begin(resume, serverStarts)
    BY <1>1, BeginKeeps
<1>2. CASE Main
    BY <1>2, CollectKeeps, FinallyKeeps, StopServerKeeps, TruncateKeeps,
       WriteCheckpointKeeps DEF Main
<1>3. CASE Leave
    BY <1>3, InterruptKeeps, AbandonPoolKeeps, CutShortKeeps DEF Leave
<1>4. CASE Kill
    BY <1>4, KillKeeps
<1>5. CASE \E c \in Cells : Worker(c) \/ Child(c)
    BY <1>5, TakeKeeps, AcquireKeeps, StartChildKeeps, EpisodeEndsKeeps, ChildKeeps
    DEF Worker
<1>6. CASE UNCHANGED vars
    BY <1>6, StutterKeeps
<1> QED
    BY <1>1, <1>2, <1>3, <1>4, <1>5, <1>6 DEF Next

(* The strengthened invariant holds of every reachable state.              *)
THEOREM RunnerInvariant == Spec => []RunnerInv
<1>1. RunnerInv /\ [Next]_vars => RunnerInv'
    BY RunnerNext
<1> QED
    BY RunnerInit, <1>1, PTL DEF Spec

(* The runner's state keeps its types through interruption, kill, torn     *)
(* checkpoints and resume.                                                 *)
THEOREM RunnerTypeOK == Spec => []TypeOK
<1>1. RunnerInv => TypeOK
    BY DEF RunnerInv
<1> QED
    BY <1>1, RunnerInvariant, PTL

(* Two episodes never share a planning server, with any number of workers, *)
(* and every permit that is out belongs to an episode under way: none is   *)
(* lost or given back twice by a skip, a retry, a time limit or an error.  *)
THEOREM RunnerOneEpisodePerPort == Spec => []OneEpisodePerPort
<1>1. RunnerInv => OneEpisodePerPort
    BY DEF RunnerInv
<1> QED
    BY <1>1, RunnerInvariant, PTL

(* A completed key, in memory or in a checkpoint, has a result.            *)
THEOREM RunnerCompletedHaveResults == Spec => []CompletedHaveResults
<1>1. RunnerInv => CompletedHaveResults
    BY DEF RunnerInv
<1> QED
    BY <1>1, RunnerInvariant, PTL

(* A run that returns normally has completed the key of every cell.        *)
THEOREM RunnerReturnedMeansAll == Spec => []ReturnedMeansAll
<1>1. RunnerInv => ReturnedMeansAll
    BY DEF RunnerInv
<1> QED
    BY <1>1, RunnerInvariant, PTL

(* Whatever exception ends a run, and wherever, at most one batch of what  *)
(* it collected is missing on disk, unless the checkpoint is torn; when    *)
(* the finally block was carried out, nothing is missing.                  *)
THEOREM RunnerCheckpointKeepsUp == Spec => []CheckpointKeepsUp
<1>1. RunnerInv => CheckpointKeepsUp
    BY AtMostABatch DEF RunnerInv, Resumed, CheckpointKeepsUp, LosesAtMostABatch
<1> QED
    BY <1>1, RunnerInvariant, PTL

(* The audit works for the store: no frozen success with a changed one.    *)
THEOREM RunnerSuccessMeansStoreIntact == Spec => []SuccessMeansStoreIntact
<1>1. RunnerInv => SuccessMeansStoreIntact
    BY DEF RunnerInv, OwnResults, Honest, SuccessMeansStoreIntact
<1> QED
    BY <1>1, RunnerInvariant, PTL

(* Only Acquire starts an episode, and it has looked for the key among the *)
(* completed ones, which include the checkpoint's.                         *)
LEMMA StartsIsAcquire ==
    ASSUME RunnerInv, [Next]_vars, NEW c \in Cells, Starts(c)
    PROVE  Key[c] \notin completed /\ phase # "off"
<1>1. phase # "off" /\ Alive
    BY DEF Starts, RunnerInv, MainThread, Active, Alive
<1>2. job'[c] = "preparing" /\ job[c] = "waiting"
    BY DEF Starts
<1>3. PICK d \in Cells : Acquire(d)
  <2>1. \A d \in Cells : /\ ~Collect(d) /\ ~Take(d) /\ ~StartChild(d)
                         /\ ~EpisodeEnds(d) /\ ~Child(d)
      BY <1>2 DEF RunnerInv, TypeOK, Collect, Take, StartChild, EpisodeEnds,
         ChildExits, Retry, ChildTimesOut, EpisodeErrs, EpisodeBreaks, Over, Child,
         MutateStore, MutatePolicy
  <2>2. ~UNCHANGED job
      BY <1>2
  <2>3. /\ ~Finally /\ ~StopServer /\ ~Truncate /\ ~WriteCheckpoint /\ ~Leave
        /\ ~UNCHANGED vars
      BY <2>2 DEF Finally, StopServer, Truncate, WriteCheckpoint, Leave, Interrupt,
         AbandonPool, CutShort, jobVars, vars
  <2>4. ~Kill /\ \A resume, starts \in BOOLEAN : ~Begin(resume, starts)
      BY <1>1, <1>2 DEF Kill, Begin
  <2> QED
      BY <2>1, <2>3, <2>4 DEF Next, Main, Worker
<1>4. d = c
    BY <1>2, <1>3 DEF Acquire, RunnerInv, TypeOK
<1> QED
    BY <1>1, <1>2, <1>3, <1>4 DEF Acquire, RunnerInv, TypeOK

(* A resumed run starts no cell whose key the checkpoint on disk holds.    *)
THEOREM RunnerNeverRerun == Spec => NeverRerun
<1> DEFINE Fresh == \A c \in Cells :
                       Starts(c) /\ resumed /\ file # Torn => Key[c] \notin file.completed
<1>1. RunnerInv /\ [Next]_vars => Fresh
    BY StartsIsAcquire DEF RunnerInv, Resumed
<1>2. RunnerInv /\ [Next]_vars => [Fresh]_vars
    BY <1>1
<1> QED
    BY <1>2, RunnerInvariant, PTL DEF Spec, NeverRerun
=============================================================================
