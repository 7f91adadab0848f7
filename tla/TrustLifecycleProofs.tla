------------------------ MODULE TrustLifecycleProofs ------------------------
(***************************************************************************)
(* Proofs about TrustLifecycle, for every set of items and contexts, every *)
(* weight and posterior and every number of crashes.                       *)
(***************************************************************************)
EXTENDS TrustLifecycle, TLAPS

USE LifecycleAssumption

(* The order of the writes of lifecycle.json, and room for the observation *)
(* that is still to be appended.                                           *)
Owed ==
    /\ "truncate" \in pending => "lifecycle" \in pending
    /\ "append" \in pending => observations < MaxObservations
    /\ ~up => pending = {}

(* A file no write is owed to holds what is in memory.                     *)
Written ==
    up => /\ "lifecycle" \notin pending => Loaded(lifecycleFile) = states
          /\ "db" \notin pending => dbFile = count
          /\ "contracts" \notin pending => contractsFile = contracts

(* The observation log on disk is behind by what has been appended since.  *)
LogWritten ==
    /\ observationsFile <= observations
    /\ up /\ "observations" \notin pending =>
          /\ observations <= observationsFile + 1
          /\ "append" \in pending => observations = observationsFile

(* What a completed operation disabled is disabled in memory and on disk.  *)
DisabledKept ==
    ~everTorn => \A k \in disabled :
        /\ states[k] = "disabled"
        /\ lifecycleFile # Torn => lifecycleFile[k] = "disabled"

(* Evidence, in memory or on disk, belongs to an item that left candidate. *)
Governed ==
    UseLifecycle /\ ~everTorn => \A k \in Kids, c \in Contexts :
        /\ count[k][c] > 0 => states[k] # "candidate"
        /\ dbFile[k][c] > 0 =>
              /\ states[k] # "candidate"
              /\ lifecycleFile # Torn => lifecycleFile[k] # "candidate"

StoreInv ==
    /\ TypeOK
    /\ Owed
    /\ Written
    /\ LogWritten
    /\ DisabledKept
    /\ Governed
    /\ OldOrNew

-----------------------------------------------------------------------------
(* One evaluation keeps the state, or moves it along one edge; it never    *)
(* returns to candidate, never leaves disabled, and leaves candidate as    *)
(* soon as there is evidence.                                              *)
LEMMA EvaluateMoves ==
    ASSUME NEW s \in States, NEW n \in Nat, NEW post \in Posteriors
    PROVE  /\ Evaluate(s, n, post) \in States
           /\ Evaluate(s, n, post) = s \/ <<s, Evaluate(s, n, post)>> \in Edges
           /\ s = "disabled" => Evaluate(s, n, post) = "disabled"
           /\ s # "candidate" => Evaluate(s, n, post) # "candidate"
           /\ n >= 1 => Evaluate(s, n, post) # "candidate"
<1>1. post.pi \in Int /\ post.harm \in Int
    OBVIOUS
<1> QED
    BY <1>1 DEF Evaluate, States, Edges

LEMMA EvaluatedMoves ==
    ASSUME NEW s \in States, NEW n \in Nat, NEW post \in Posteriors
    PROVE  /\ Evaluated(s, n, post) \in States
           /\ Evaluated(s, n, post) = s \/ <<s, Evaluated(s, n, post)>> \in Edges
           /\ s = "disabled" => Evaluated(s, n, post) = "disabled"
           /\ s # "candidate" => Evaluated(s, n, post) # "candidate"
           /\ n >= 1 /\ UseLifecycle => Evaluated(s, n, post) # "candidate"
BY EvaluateMoves DEF Evaluated

(* Counting a use keeps every count within its bound and leaves the item   *)
(* with evidence.                                                          *)
LEMMA AddUseCounts ==
    ASSUME NEW k \in Kids, NEW c \in Contexts, NEW w \in Weights,
           count \in Evidence
    PROVE  /\ AddUse(k, c, w) \in Evidence
           /\ AddUse(k, c, w)[k][c] \in Nat
           /\ AddUse(k, c, w)[k][c] >= 1
           /\ \A j \in Kids, d \in Contexts :
                 <<j, d>> # <<k, c>> => AddUse(k, c, w)[j][d] = count[j][d]
<1>1. w \in 1..20
    OBVIOUS
<1>2. count[k][c] \in 0..MaxCount
    BY <1>1 DEF Evidence
<1>3. AddUse(k, c, w)[k][c] =
        IF count[k][c] + w > MaxCount THEN MaxCount ELSE count[k][c] + w
    BY <1>1 DEF AddUse, Evidence
<1>4. AddUse(k, c, w) \in Evidence
    BY <1>1, <1>2 DEF AddUse, Evidence
<1>5. \A j \in Kids, d \in Contexts :
          <<j, d>> # <<k, c>> => AddUse(k, c, w)[j][d] = count[j][d]
    BY <1>1 DEF AddUse, Evidence
<1> QED
    BY <1>1, <1>2, <1>3, <1>4, <1>5

-----------------------------------------------------------------------------
LEMMA StoreInit == Init => StoreInv
<1> SUFFICES ASSUME Init PROVE StoreInv
    OBVIOUS
<1>1. AllCandidate \in Lifecycles /\ NoEvidence \in Evidence
    BY DEF AllCandidate, Lifecycles, NoEvidence, Evidence, States
<1>2. TypeOK
  <2>1. /\ states \in Lifecycles /\ count \in Evidence
        /\ contracts \in SUBSET Kids /\ observations \in 0..MaxObservations
      BY <1>1 DEF Init
  <2>2. before \in Memory
      BY <2>1 DEF Init, Memory, Now
  <2>3. /\ lifecycleFile \in Lifecycles \union {Torn}
        /\ dbFile \in Evidence
        /\ observationsFile \in 0..MaxObservations
        /\ contractsFile \subseteq Kids
    <3>1. contractsFile = {} /\ observationsFile = 0
        BY DEF Init
    <3>2. lifecycleFile = AllCandidate /\ dbFile = NoEvidence
        BY DEF Init
    <3> QED
        BY <1>1, <3>1, <3>2
  <2>4. /\ pending \subseteq Writes /\ up \in BOOLEAN
        /\ disabled \subseteq Kids /\ everTorn \in BOOLEAN
        /\ decays \in 0..MaxDecays /\ crashes \in 0..MaxCrashes
    <3>1. decays = 0 /\ crashes = 0 /\ pending = {} /\ disabled = {}
        BY DEF Init
    <3>2. up \in BOOLEAN /\ everTorn \in BOOLEAN
        BY DEF Init
    <3> QED
        BY <3>1, <3>2
  <2> QED
      BY <2>1, <2>2, <2>3, <2>4 DEF TypeOK
<1>3. Owed /\ Written /\ LogWritten
    BY <1>1 DEF Init, Owed, Written, LogWritten, Loaded, Lifecycles
<1>4. \A k \in Kids, c \in Contexts : NoEvidence[k][c] = 0
    BY DEF NoEvidence
<1>5. DisabledKept /\ Governed
    BY <1>4 DEF Init, DisabledKept, Governed
<1>6. OldOrNew
    BY DEF Init, OldOrNew, Now
<1> QED
    BY <1>2, <1>3, <1>5, <1>6 DEF StoreInv

(* When an operation begins, memory is on disk; its snapshot is that memory. *)
LEMMA Begins ==
    ASSUME StoreInv, Idle
    PROVE  /\ Now \in Memory
           /\ lifecycleFile \in {states, Torn}
           /\ Loaded(lifecycleFile) = states
           /\ dbFile = count /\ contractsFile = contracts
           /\ observations <= observationsFile + 1
           /\ observationsFile <= observations
BY DEF StoreInv, TypeOK, Idle, Now, Memory, Written, LogWritten, Loaded

(* What one recording does to the memory, whichever path records it.       *)
LEMMA MemoryMoves ==
    ASSUME StoreInv, Idle,
           NEW k \in Kids, NEW c \in Contexts, NEW w \in Weights,
           NEW post \in Posteriors, NEW used \in BOOLEAN,
           \/ /\ count' = IF used THEN AddUse(k, c, w) ELSE count
              /\ states' = [states EXCEPT
                              ![k] = Evaluated(states[k], count'[k][c], post)]
           \/ ~used /\ UNCHANGED <<count, states>>
    PROVE  /\ count' \in Evidence
           /\ states' \in Lifecycles
           /\ OneEdge
           /\ \A j \in Kids : states[j] = "disabled" => states'[j] = "disabled"
           /\ \A j \in Kids, d \in Contexts :
                 count'[j][d] > 0 /\ UseLifecycle /\ ~everTorn => states'[j] # "candidate"
           /\ \A j \in Kids : states[j] # "candidate" => states'[j] # "candidate"
<1>1. states \in Lifecycles /\ count \in Evidence
    BY DEF StoreInv, TypeOK
<1>2. CASE ~used /\ UNCHANGED <<count, states>>
    BY <1>1, <1>2 DEF OneEdge, StoreInv, Governed
<1>3. CASE /\ count' = IF used THEN AddUse(k, c, w) ELSE count
           /\ states' = [states EXCEPT
                           ![k] = Evaluated(states[k], count'[k][c], post)]
  <2>1. /\ count' \in Evidence
        /\ used => count'[k][c] >= 1
        /\ ~used => count'[k][c] = count[k][c]
        /\ \A j \in Kids, d \in Contexts :
              <<j, d>> # <<k, c>> => count'[j][d] = count[j][d]
      BY <1>1, <1>3, AddUseCounts
  <2>2. count'[k][c] \in Nat
      BY <2>1 DEF Evidence
  <2>3. states[k] \in States
      BY <1>1 DEF Lifecycles
  <2> DEFINE s == Evaluated(states[k], count'[k][c], post)
  <2>4. /\ s \in States
        /\ s = states[k] \/ <<states[k], s>> \in Edges
        /\ states[k] = "disabled" => s = "disabled"
        /\ states[k] # "candidate" => s # "candidate"
        /\ count'[k][c] >= 1 /\ UseLifecycle => s # "candidate"
      BY <2>2, <2>3, EvaluatedMoves
  <2>5. /\ states' \in Lifecycles
        /\ states'[k] = s
        /\ \A j \in Kids : j # k => states'[j] = states[j]
      BY <1>1, <1>3, <2>4 DEF Lifecycles
  <2>6. OneEdge
    <3>1. CASE s = states[k]
      <4>1. states' = states
          BY <1>1, <1>3, <3>1 DEF Lifecycles
      <4> QED
          BY <4>1 DEF OneEdge
    <3>2. CASE <<states[k], s>> \in Edges
      <4>1. states' = [states EXCEPT ![k] = s]
          BY <1>3
      <4> QED
          BY <2>4, <3>2, <4>1 DEF OneEdge
    <3> QED
        BY <2>4, <3>1, <3>2
  <2>7. \A j \in Kids : states[j] # "candidate" => states'[j] # "candidate"
      BY <2>4, <2>5
  <2>8. ASSUME NEW j \in Kids, NEW d \in Contexts, count'[j][d] > 0, UseLifecycle, ~everTorn
        PROVE  states'[j] # "candidate"
    <3>1. CASE j = k /\ d = c
        BY <2>2, <2>4, <2>5, <2>8, <3>1
    <3>2. CASE <<j, d>> # <<k, c>>
      <4>1. count[j][d] > 0
          BY <2>1, <2>8, <3>2
      <4>2. states[j] # "candidate"
          BY <2>8, <4>1 DEF StoreInv, Governed
      <4> QED
          BY <2>7, <4>2
    <3> QED
        BY <3>1, <3>2
  <2> QED
      BY <2>1, <2>4, <2>5, <2>6, <2>7, <2>8
<1> QED
    BY <1>2, <1>3

(* An operation that leaves the files alone, owes the evidence, and owes   *)
(* lifecycle.json when it set a state, preserves the invariant.            *)
LEMMA OperationBegins ==
    ASSUME StoreInv, Idle,
           NEW set \in BOOLEAN, NEW appends \in BOOLEAN,
           states' \in Lifecycles, count' \in Evidence,
           contracts' \subseteq Kids,
           \A j \in Kids : states[j] = "disabled" => states'[j] = "disabled",
           \A j \in Kids : states[j] # "candidate" => states'[j] # "candidate",
           \A j \in Kids, d \in Contexts :
                 count'[j][d] > 0 /\ UseLifecycle /\ ~everTorn => states'[j] # "candidate",
           set \/ states' = states,
           pending' = Saves(set) \union IF appends THEN {"append"} ELSE {},
           \/ observations' = observations
           \/ observations < MaxObservations /\ observations' = observations + 1
                /\ ~appends,
           appends => observations < MaxObservations,
           before' = Now,
           decays' \in 0..MaxDecays, crashes' \in 0..MaxCrashes,
           UNCHANGED <<files, up, disabled, everTorn>>
    PROVE  StoreInv'
<1>1. /\ Now \in Memory
      /\ lifecycleFile \in {states, Torn}
      /\ Loaded(lifecycleFile) = states
      /\ dbFile = count /\ contractsFile = contracts
      /\ observations <= observationsFile + 1
      /\ observationsFile <= observations
    BY Begins
<1>2. TypeOK
    BY DEF StoreInv
<1>3. pending' \subseteq Writes
    BY DEF Saves, Writes, Place
<1>4. observations' \in 0..MaxObservations
    BY <1>2 DEF TypeOK
<1>5. TypeOK'
    BY <1>1, <1>2, <1>3, <1>4 DEF TypeOK, files
<1>6. Owed'
  <2>1. "truncate" \in pending' => "lifecycle" \in pending'
      BY DEF Saves
  <2>2. "append" \in pending' => observations' < MaxObservations
      BY DEF Saves
  <2>3. up'
      BY DEF Idle
  <2> QED
      BY <2>1, <2>2, <2>3 DEF Owed
<1>7. Written'
  <2>1. "db" \in pending' /\ "contracts" \in pending' /\ "observations" \in pending'
      BY DEF Saves
  <2>2. "lifecycle" \notin pending' => states' = states
      BY DEF Saves
  <2> QED
      BY <1>1, <2>1, <2>2 DEF Written, Loaded, files
<1>8. LogWritten'
  <2>1. "observations" \in pending'
      BY DEF Saves
  <2> QED
      BY <1>1, <1>2, <2>1 DEF LogWritten, files, TypeOK
<1>9. DisabledKept'
    BY <1>2 DEF StoreInv, DisabledKept, files, TypeOK
<1>10. Governed'
    BY <1>1 DEF StoreInv, Governed, files
<1>11. OldOrNew'
  <2>1. /\ before'.states = states /\ before'.count = count
        /\ before'.contracts = contracts
      BY DEF Now
  <2> QED
      BY <1>1, <2>1 DEF OldOrNew, files
<1> QED
    BY <1>5, <1>6, <1>7, <1>8, <1>9, <1>10, <1>11 DEF StoreInv


(* A write of the operation that is running, whichever file it writes: it  *)
(* leaves memory alone or appends the observation, and it writes to one    *)
(* file what is in memory, or empties lifecycle.json.                      *)
LEMMA WriteMakes ==
    ASSUME StoreInv, NEW w \in Writes, Writing(w), Done(w),
           UNCHANGED <<states, count, contracts>>,
           observations' = IF w = "append" THEN observations + 1
                                           ELSE observations,
           lifecycleFile' = CASE w = "truncate" -> Torn
                              [] w = "lifecycle" -> states
                              [] OTHER -> lifecycleFile,
           dbFile' = IF w = "db" THEN count ELSE dbFile,
           observationsFile' = IF w = "observations" THEN observations
                                                     ELSE observationsFile,
           contractsFile' = IF w = "contracts" THEN contracts
                                               ELSE contractsFile
    PROVE  StoreInv'
<1>1. TypeOK /\ Owed /\ Written /\ LogWritten
    BY DEF StoreInv
<1>2. /\ up /\ up' /\ w \in pending /\ pending' = pending \ {w}
      /\ UNCHANGED <<before, everTorn, decays, crashes>>
    BY DEF Writing, Done, bounds
<1>3. w = "append" => observations < MaxObservations /\ pending = {"append"}
  <2>1. \A v \in pending : v \in Writes /\ Place[w] <= Place[v]
      BY <1>1 DEF Writing, TypeOK
  <2>2. w = "append" => \A v \in pending : v = "append"
      BY <2>1 DEF Writes, Place
  <2> QED
      BY <1>1, <1>2, <2>2 DEF Owed
<1>4. w = "db" => "lifecycle" \notin pending
  <2>1. "lifecycle" \in pending => Place[w] <= Place["lifecycle"]
      BY DEF Writing
  <2> QED
      BY <2>1 DEF Place
<1>5. w = "lifecycle" => "truncate" \notin pending
  <2>1. "truncate" \in pending => Place[w] <= Place["truncate"]
      BY DEF Writing
  <2> QED
      BY <2>1 DEF Place
<1>6. disabled' \subseteq Kids
    BY <1>1 DEF Done, TypeOK
<1>7. /\ observations' \in 0..MaxObservations
      /\ observationsFile' \in 0..MaxObservations
    BY <1>1, <1>3 DEF TypeOK
<1>8. /\ lifecycleFile' \in Lifecycles \union {Torn}
      /\ dbFile' \in Evidence /\ contractsFile' \subseteq Kids
    BY <1>1 DEF TypeOK
<1>9. TypeOK'
    BY <1>1, <1>2, <1>6, <1>7, <1>8 DEF TypeOK
<1>10. Owed'
    BY <1>1, <1>2, <1>3, <1>5 DEF Owed
<1>11. Written'
  <2>1. Loaded(states) = states
      BY <1>1 DEF Loaded, TypeOK, Lifecycles
  <2>2. "lifecycle" \notin pending' => Loaded(lifecycleFile') = states
    <3>1. CASE w = "lifecycle"
        BY <2>1, <3>1
    <3>2. CASE w # "lifecycle" /\ w # "truncate"
        BY <1>1, <1>2, <3>2 DEF Written
    <3>3. CASE w = "truncate"
        BY <1>1, <1>2, <3>3 DEF Owed
    <3> QED
        BY <3>1, <3>2, <3>3
  <2>3. /\ "db" \notin pending' => dbFile' = count
        /\ "contracts" \notin pending' => contractsFile' = contracts
      BY <1>1, <1>2 DEF Written
  <2>4. Loaded(lifecycleFile)' = Loaded(lifecycleFile')
      BY DEF Loaded
  <2> QED
      BY <2>2, <2>3, <2>4 DEF Written
<1>12. LogWritten'
    BY <1>1, <1>2, <1>3 DEF LogWritten, TypeOK, Owed
<1>13. DisabledKept'
  <2> SUFFICES ASSUME ~everTorn, NEW k \in disabled'
               PROVE  /\ states[k] = "disabled"
                      /\ lifecycleFile' # Torn => lifecycleFile'[k] = "disabled"
      BY <1>2 DEF DisabledKept
  <2>1. CASE k \in disabled
      BY <2>1 DEF StoreInv, DisabledKept
  <2>2. CASE k \notin disabled
    <3>1. pending = {w} /\ k \in Kids /\ states[k] = "disabled"
        BY <2>2 DEF Done
    <3>2. w # "truncate"
        BY <1>1, <3>1 DEF Owed
    <3>3. CASE w = "lifecycle"
        BY <3>1, <3>3
    <3>4. CASE w # "lifecycle"
      <4>1. Loaded(lifecycleFile) = states /\ lifecycleFile' = lifecycleFile
          BY <1>1, <1>2, <3>1, <3>2, <3>4 DEF Written
      <4> QED
          BY <3>1, <4>1 DEF Loaded
    <3> QED
        BY <3>3, <3>4
  <2> QED
      BY <2>1, <2>2
<1>14. Governed'
  <2>1. CASE w = "db"
    <3>1. lifecycleFile' = lifecycleFile /\ dbFile' = count
        BY <2>1
    <3>2. Loaded(lifecycleFile) = states
        BY <1>1, <1>2, <1>4, <2>1 DEF Written
    <3> QED
        BY <1>2, <3>1, <3>2 DEF StoreInv, Governed, Loaded
  <2>2. CASE w = "lifecycle"
      BY <1>2, <2>2 DEF StoreInv, Governed
  <2>3. CASE w # "db" /\ w # "lifecycle"
      BY <1>2, <2>3 DEF StoreInv, Governed
  <2> QED
      BY <2>1, <2>2, <2>3
<1>15. OldOrNew'
    BY <1>2 DEF StoreInv, OldOrNew
<1> QED
    BY <1>9, <1>10, <1>11, <1>12, <1>13, <1>14, <1>15 DEF StoreInv


-----------------------------------------------------------------------------
(* The actions, one lemma for each kind.                                   *)

LEMMA RegisterKeeps ==
    ASSUME StoreInv, NEW k \in Kids, Register(k)
    PROVE  StoreInv' /\ OneEdge
<1>1. states \in Lifecycles /\ Idle /\ TypeOK
    BY DEF StoreInv, TypeOK, Register
<1>2. states' = states
    BY <1>1 DEF Register, Lifecycles
<1>3. \A j \in Kids, d \in Contexts :
          count[j][d] > 0 /\ UseLifecycle /\ ~everTorn => states[j] # "candidate"
    BY DEF StoreInv, Governed
<1>4. StoreInv'
  <2>1. /\ contracts' \subseteq Kids /\ count' = count /\ count \in Evidence
        /\ observations' = observations
        /\ decays' \in 0..MaxDecays /\ crashes' \in 0..MaxCrashes
      BY <1>1 DEF Register, TypeOK, bounds
  <2>2. pending' = Saves(TRUE) \union IF FALSE THEN {"append"} ELSE {}
      BY DEF Register
  <2>3. before' = Now /\ UNCHANGED <<files, up, disabled, everTorn>>
      BY DEF Register
  <2> QED
      BY <1>1, <1>2, <1>3, <2>1, <2>2, <2>3, OperationBegins
<1> QED
    BY <1>2, <1>4 DEF OneEdge

LEMMA RecordEpisodeKeeps ==
    ASSUME StoreInv, NEW k \in Kids, NEW c \in Contexts, NEW w \in Weights,
           NEW post \in Posteriors, NEW used \in BOOLEAN,
           RecordEpisode(k, c, w, used, post)
    PROVE  StoreInv' /\ OneEdge
<1>1. states \in Lifecycles /\ Idle /\ TypeOK
    BY DEF StoreInv, TypeOK, RecordEpisode
<1>2. /\ count' \in Evidence
      /\ states' \in Lifecycles
      /\ OneEdge
      /\ \A j \in Kids : states[j] = "disabled" => states'[j] = "disabled"
      /\ \A j \in Kids, d \in Contexts :
            count'[j][d] > 0 /\ UseLifecycle /\ ~everTorn => states'[j] # "candidate"
      /\ \A j \in Kids : states[j] # "candidate" => states'[j] # "candidate"
  <2>1. /\ count' = IF used THEN AddUse(k, c, w) ELSE count
        /\ states' = [states EXCEPT
                        ![k] = Evaluated(states[k], count'[k][c], post)]
      BY DEF RecordEpisode, Transition
  <2> QED
      BY <1>1, <2>1, MemoryMoves
<1>3. PICK set \in BOOLEAN :
          /\ set \/ states' = states
          /\ pending' = Saves(set) \union IF FALSE THEN {"append"} ELSE {}
  <2> DEFINE s == Evaluated(states[k], count'[k][c], post)
  <2>1. pending' = Saves(s # states[k]) /\ states' = [states EXCEPT ![k] = s]
      BY DEF RecordEpisode, Transition
  <2>2. CASE s = states[k]
    <3>1. states' = states
        BY <1>1, <2>1, <2>2 DEF Lifecycles
    <3>2. pending' = Saves(FALSE)
        BY <2>1, <2>2
    <3> QED
        BY <3>1, <3>2
  <2>3. CASE s # states[k]
    <3>1. pending' = Saves(TRUE)
        BY <2>1, <2>3
    <3> QED
        BY <3>1
  <2> QED
      BY <2>2, <2>3
<1>4. /\ contracts' \subseteq Kids
      /\ observations < MaxObservations /\ observations' = observations + 1
      /\ decays' \in 0..MaxDecays /\ crashes' \in 0..MaxCrashes
    BY <1>1 DEF RecordEpisode, TypeOK, bounds
<1>5. before' = Now /\ UNCHANGED <<files, up, disabled, everTorn>>
    BY DEF RecordEpisode
<1>6. StoreInv'
    BY <1>1, <1>2, <1>3, <1>4, <1>5, OperationBegins
<1> QED
    BY <1>2, <1>6

LEMMA ApplyAttributionKeeps ==
    ASSUME StoreInv, NEW k \in Kids, NEW c \in Contexts, NEW w \in Weights,
           NEW post \in Posteriors, NEW used \in BOOLEAN,
           ApplyAttribution(k, c, w, used, post)
    PROVE  StoreInv' /\ OneEdge
<1>1. states \in Lifecycles /\ Idle /\ TypeOK
    BY DEF StoreInv, TypeOK, ApplyAttribution
<1>2. /\ count' \in Evidence
      /\ states' \in Lifecycles
      /\ OneEdge
      /\ \A j \in Kids : states[j] = "disabled" => states'[j] = "disabled"
      /\ \A j \in Kids, d \in Contexts :
            count'[j][d] > 0 /\ UseLifecycle /\ ~everTorn => states'[j] # "candidate"
      /\ \A j \in Kids : states[j] # "candidate" => states'[j] # "candidate"
  <2>1. CASE used
    <3>1. /\ count' = AddUse(k, c, w)
          /\ states' = [states EXCEPT
                          ![k] = Evaluated(states[k], count'[k][c], post)]
        BY <2>1 DEF ApplyAttribution
    <3> QED
        BY <1>1, <2>1, <3>1, MemoryMoves
  <2>2. CASE ~used
    <3>1. UNCHANGED <<count, states>>
        BY <2>2 DEF ApplyAttribution
    <3> QED
        BY <1>1, <2>2, <3>1, MemoryMoves
  <2> QED
      BY <2>1, <2>2
<1>3. PICK set \in BOOLEAN :
          /\ set \/ states' = states
          /\ pending' = Saves(set) \union IF TRUE THEN {"append"} ELSE {}
  <2>1. pending' = Saves(states' # states) \union {"append"}
      BY DEF ApplyAttribution
  <2>2. CASE states' = states
    <3>1. pending' = Saves(FALSE) \union {"append"}
        BY <2>1, <2>2
    <3> QED
        BY <2>2, <3>1
  <2>3. CASE states' # states
    <3>1. pending' = Saves(TRUE) \union {"append"}
        BY <2>1, <2>3
    <3> QED
        BY <3>1
  <2> QED
      BY <2>2, <2>3
<1>4. /\ contracts' \subseteq Kids
      /\ observations < MaxObservations /\ observations' = observations
      /\ decays' \in 0..MaxDecays /\ crashes' \in 0..MaxCrashes
    BY <1>1 DEF ApplyAttribution, TypeOK, bounds
<1>5. before' = Now /\ UNCHANGED <<files, up, disabled, everTorn>>
    BY DEF ApplyAttribution
<1>6. StoreInv'
    BY <1>1, <1>2, <1>3, <1>4, <1>5, OperationBegins
<1> QED
    BY <1>2, <1>6

LEMMA DecayKeeps ==
    ASSUME StoreInv, Decay
    PROVE  StoreInv' /\ OneEdge
<1>1. states \in Lifecycles /\ Idle /\ TypeOK /\ states' = states
    BY DEF StoreInv, TypeOK, Decay
<1>2. PICK lost \in [Kids -> [Contexts -> {0, 1}]] :
          count' = [k \in Kids |-> [c \in Contexts |->
                       IF lost[k][c] <= count[k][c]
                       THEN count[k][c] - lost[k][c] ELSE 0]]
    BY DEF Decay
<1>3. \A k \in Kids, c \in Contexts :
          count[k][c] \in 0..MaxCount /\ lost[k][c] \in {0, 1}
    BY <1>1 DEF TypeOK, Evidence
<1>4. /\ count' \in Evidence
      /\ \A k \in Kids, c \in Contexts : count'[k][c] > 0 => count[k][c] > 0
  <2>1. \A k \in Kids, c \in Contexts :
            (IF lost[k][c] <= count[k][c] THEN count[k][c] - lost[k][c] ELSE 0)
                \in 0..MaxCount
      BY <1>3
  <2>2. count' \in Evidence
      BY <1>2, <2>1 DEF Evidence
  <2>3. ASSUME NEW k \in Kids, NEW c \in Contexts, count'[k][c] > 0
        PROVE  count[k][c] > 0
      BY <1>2, <1>3, <2>3
  <2> QED
      BY <2>2, <2>3
<1>5. \A j \in Kids, d \in Contexts :
          count'[j][d] > 0 /\ UseLifecycle /\ ~everTorn => states'[j] # "candidate"
    BY <1>1, <1>4 DEF StoreInv, Governed
<1>6. /\ contracts' \subseteq Kids /\ observations' = observations
      /\ decays' \in 0..MaxDecays /\ crashes' \in 0..MaxCrashes
    BY <1>1 DEF Decay, TypeOK
<1>7. pending' = Saves(FALSE) \union IF FALSE THEN {"append"} ELSE {}
    BY DEF Decay
<1>8. before' = Now /\ UNCHANGED <<files, up, disabled, everTorn>>
    BY DEF Decay
<1>9. StoreInv'
    BY <1>1, <1>4, <1>5, <1>6, <1>7, <1>8, OperationBegins
<1> QED
    BY <1>1, <1>9 DEF OneEdge

LEMMA PersistKeeps ==
    ASSUME StoreInv, Persist
    PROVE  StoreInv' /\ states' = states
<1> USE DEF memory, files, Writes, Place
<1>1. CASE Truncate
    BY <1>1, WriteMakes DEF Truncate
<1>2. CASE WriteLifecycle
    BY <1>2, WriteMakes DEF WriteLifecycle
<1>3. CASE WriteDb
    BY <1>3, WriteMakes DEF WriteDb
<1>4. CASE WriteObservations
    BY <1>4, WriteMakes DEF WriteObservations
<1>5. CASE WriteContracts
    BY <1>5, WriteMakes DEF WriteContracts
<1>6. CASE AppendObservation
    BY <1>6, WriteMakes DEF AppendObservation
<1> QED
    BY <1>1, <1>2, <1>3, <1>4, <1>5, <1>6 DEF Persist

LEMMA CrashKeeps ==
    ASSUME StoreInv, Crash
    PROVE  StoreInv' /\ states' = states
<1>1. /\ TypeOK /\ up' = FALSE /\ pending' = {}
      /\ UNCHANGED <<states, count, contracts, observations, lifecycleFile,
                     dbFile, observationsFile, contractsFile, before,
                     disabled, everTorn, decays>>
      /\ crashes < MaxCrashes /\ crashes' = crashes + 1
    BY DEF StoreInv, Crash, memory, files, history
<1>2. TypeOK'
  <2>1. up' \in BOOLEAN
      BY <1>1
  <2>2. crashes' \in 0..MaxCrashes
      BY <1>1 DEF TypeOK
  <2> QED
      BY <1>1, <2>1, <2>2 DEF TypeOK
<1>3. Owed' /\ Written' /\ LogWritten'
    BY <1>1 DEF StoreInv, Owed, Written, LogWritten
<1>4. DisabledKept' /\ Governed' /\ OldOrNew'
    BY <1>1 DEF StoreInv, DisabledKept, Governed, OldOrNew
<1> QED
    BY <1>1, <1>2, <1>3, <1>4 DEF StoreInv

LEMMA RestartKeeps ==
    ASSUME StoreInv, Restart
    PROVE  StoreInv'
<1>1. TypeOK /\ Owed /\ LogWritten /\ DisabledKept /\ Governed
    BY DEF StoreInv
<1>2. /\ up' = TRUE /\ states' = Loaded(lifecycleFile) /\ count' = dbFile
      /\ contracts' = contractsFile /\ observations' = observationsFile
      /\ UNCHANGED <<lifecycleFile, dbFile, observationsFile, contractsFile,
                     pending, disabled, decays, crashes>>
    BY DEF Restart, files, bounds
<1>3. /\ before' = [states |-> states', count |-> count',
                    contracts |-> contracts', observations |-> observations']
      /\ everTorn' \in BOOLEAN
      /\ ~everTorn' => ~everTorn /\ lifecycleFile # Torn
    BY <1>1 DEF Restart, Now, TypeOK
<1>4. states' \in Lifecycles
    BY <1>1, <1>2 DEF Loaded, TypeOK, AllCandidate, Lifecycles, States
<1>5. TypeOK'
  <2>1. before' \in Memory
      BY <1>1, <1>2, <1>3, <1>4 DEF TypeOK, Memory
  <2>2. up' \in BOOLEAN
      BY <1>2
  <2> QED
      BY <1>1, <1>2, <1>3, <1>4, <2>1, <2>2 DEF TypeOK
<1>6. pending = {}
    BY <1>1 DEF Restart, Owed
<1>7. Owed' /\ LogWritten'
    BY <1>1, <1>2, <1>6 DEF Owed, LogWritten, TypeOK
<1>8. Written'
  <2>1. Loaded(lifecycleFile)' = states'
      BY <1>2 DEF Loaded
  <2> QED
      BY <1>2, <2>1 DEF Written
<1>9. ~everTorn' => states' = lifecycleFile
    BY <1>2, <1>3 DEF Loaded
<1>10. DisabledKept' /\ Governed'
    BY <1>1, <1>2, <1>3, <1>9 DEF DisabledKept, Governed
<1>11. OldOrNew'
    BY <1>2, <1>3 DEF OldOrNew, Loaded
<1> QED
    BY <1>5, <1>7, <1>8, <1>10, <1>11 DEF StoreInv

LEMMA StutterKeeps ==
    ASSUME StoreInv, UNCHANGED vars
    PROVE  StoreInv' /\ states' = states
BY DEF vars, memory, files, history, bounds, StoreInv, TypeOK, Owed, Written,
       LogWritten, DisabledKept, Governed, OldOrNew, Loaded

LEMMA StoreNext ==
    ASSUME StoreInv, [Next]_vars
    PROVE  StoreInv' /\ (up => OneEdge)
<1>1. CASE \E k \in Kids : Register(k)
    BY <1>1, RegisterKeeps
<1>2. CASE Record
  <2>1. PICK k \in Kids, c \in Contexts, w \in Weights, post \in Posteriors,
             used \in BOOLEAN :
            \/ RecordEpisode(k, c, w, used, post)
            \/ ApplyAttribution(k, c, w, used, post)
      BY <1>2 DEF Record
  <2> QED
      BY <2>1, RecordEpisodeKeeps, ApplyAttributionKeeps
<1>3. CASE Decay
    BY <1>3, DecayKeeps
<1>4. CASE Persist
    BY <1>4, PersistKeeps DEF OneEdge
<1>5. CASE Crash
    BY <1>5, CrashKeeps DEF OneEdge
<1>6. CASE Restart
    BY <1>6, RestartKeeps DEF Restart
<1>7. CASE UNCHANGED vars
    BY <1>7, StutterKeeps DEF OneEdge
<1> QED
    BY <1>1, <1>2, <1>3, <1>4, <1>5, <1>6, <1>7 DEF Next

-----------------------------------------------------------------------------
(* The strengthened invariant holds of every reachable state.              *)
THEOREM StoreInvariant == Spec => []StoreInv
<1>1. Init => StoreInv
    BY StoreInit
<1>2. StoreInv /\ [Next]_vars => StoreInv'
    BY StoreNext
<1> QED
    BY <1>1, <1>2, PTL DEF Spec

(* Memory and files keep the shape the code gives them, whatever crashes.  *)
THEOREM StoreTypeOK == Spec => []TypeOK
<1>1. StoreInv => TypeOK
    BY DEF StoreInv
<1> QED
    BY <1>1, StoreInvariant, PTL

(* A process that stops between two operations loses no state, evidence or *)
(* contract: what it has in memory is what _load would read back.          *)
THEOREM StoreSavedAtRest == Spec => []SavedAtRest
<1>1. StoreInv => SavedAtRest
    BY DEF StoreInv, Written, SavedAtRest, Idle
<1> QED
    BY <1>1, StoreInvariant, PTL

(* The observation log on disk lacks at most the last observation.         *)
THEOREM StoreLogLagsByOne == Spec => []LogLagsByOne
<1>1. StoreInv => LogLagsByOne
    BY DEF StoreInv, LogWritten, LogLagsByOne, Idle
<1> QED
    BY <1>1, StoreInvariant, PTL

(* A crash never leaves a file that mixes two versions of the store.       *)
THEOREM StoreOldOrNew == Spec => []OldOrNew
<1>1. StoreInv => OldOrNew
    BY DEF StoreInv
<1> QED
    BY <1>1, StoreInvariant, PTL

(* Evidence on disk is never ahead of the lifecycle it moves.              *)
THEOREM StoreEvidenceIsGoverned == Spec => []EvidenceIsGoverned
<1>1. StoreInv => EvidenceIsGoverned
    BY DEF StoreInv, Governed, EvidenceIsGoverned
<1> QED
    BY <1>1, StoreInvariant, PTL

(* Disabled knowledge stays disabled through crashes and restarts, unless  *)
(* a process finds a lifecycle file that was being written.                *)
THEOREM StoreDisabledUnlessTorn == Spec => []DisabledUnlessTorn
<1>1. StoreInv => DisabledUnlessTorn
    BY DEF StoreInv, DisabledKept, DisabledUnlessTorn
<1> QED
    BY <1>1, StoreInvariant, PTL

(* An operation moves at most one item, by one edge of the diagram.        *)
THEOREM StoreStepsAreEdges == Spec => StepsAreEdges
<1>1. StoreInv /\ [Next]_vars => [up => OneEdge]_vars
    BY StoreNext
<1> QED
    BY <1>1, StoreInvariant, PTL DEF Spec, StepsAreEdges

-----------------------------------------------------------------------------
(* The refinement.  An operation that still owes a part owes every part    *)
(* that is saved after it, so that the parts are saved one by one.         *)
Staged ==
    /\ "lifecycle" \in pending => "db" \in pending
    /\ "db" \in pending => "observations" \in pending
    /\ "observations" \in pending => "contracts" \in pending

(* The part saved next is that of the earliest of the writes.              *)
LEMMA FirstPartIs ==
    ASSUME NEW S \in SUBSET Writes, NEW w \in S,
           \A v \in S : Place[w] <= Place[v]
    PROVE  FirstPart(S) = Part[w]
<1>1. \A v \in S : Part[w] <= Part[v]
    BY DEF Writes, Place, Part
<1>2. Part[w] \in 1..5
    BY DEF Writes, Place, Part
<1>3. \A v \in S : Part[v] \in 1..5
    BY DEF Writes, Place, Part
<1> DEFINE First(p) == /\ \E v \in S : p = Part[v]
                       /\ \A v \in S : p <= Part[v]
<1>4. First(Part[w])
    BY <1>1
<1>5. \A p \in 1..5 : First(p) => p = Part[w]
    BY <1>1, <1>2, <1>3
<1>6. FirstPart(S) = CHOOSE p \in 1..5 : First(p)
    BY DEF FirstPart
<1> HIDE DEF First
<1> QED
    BY <1>2, <1>4, <1>5, <1>6

LEMMA NothingFirst == FirstPart({}) = 0
BY DEF FirstPart

(* An operation owes the lifecycle and what follows, or all but the        *)
(* lifecycle; which of the two decides where saving begins.                *)
LEMMA SavesAreStaged ==
    ASSUME NEW set \in BOOLEAN, NEW appends \in BOOLEAN,
           pending' = Saves(set) \union IF appends THEN {"append"} ELSE {}
    PROVE  /\ Staged'
           /\ FirstPart(pending') = IF set THEN 1 ELSE 2
<1>1. Staged'
    BY DEF Staged, Saves
<1>2. pending' \in SUBSET Writes
    BY DEF Saves, Writes, Place
<1>3. CASE set
  <2>1. "truncate" \in pending' /\ \A v \in pending' : Place["truncate"] <= Place[v]
      BY <1>2, <1>3 DEF Saves, Writes, Place
  <2>2. FirstPart(pending') = Part["truncate"]
      BY <1>2, <2>1, FirstPartIs
  <2> QED
      BY <1>1, <1>3, <2>2 DEF Part
<1>4. CASE ~set
  <2>1. "db" \in pending' /\ \A v \in pending' : Place["db"] <= Place[v]
      BY <1>2, <1>4 DEF Saves, Writes, Place
  <2>2. FirstPart(pending') = Part["db"]
      BY <1>2, <2>1, FirstPartIs
  <2> QED
      BY <1>1, <1>4, <2>2 DEF Part
<1> QED
    BY <1>3, <1>4

(* An operation begins: memory changes, and saving begins with the first   *)
(* part that may have changed.                                             *)
LEMMA OperationsOperate ==
    ASSUME Idle, NEW set \in BOOLEAN, NEW appends \in BOOLEAN,
           set \/ states' = states,
           pending' = Saves(set) \union IF appends THEN {"append"} ELSE {},
           UNCHANGED <<files, up>>
    PROVE  Abstract!Next /\ Staged'
<1>1. Staged' /\ FirstPart(pending') = IF set THEN 1 ELSE 2
    BY SavesAreStaged
<1>2. FirstPart(pending) = 0
    BY NothingFirst DEF Idle
<1> DEFINE p == IF set THEN 1 ELSE 2
<1>3. p \in 1..4
    OBVIOUS
<1>4. \A q \in 1..4 : q < p =>
          <<states, count, observations, contracts>>'[q]
              = <<states, count, observations, contracts>>[q]
    OBVIOUS
<1>5. UNCHANGED <<Loaded(lifecycleFile), dbFile, observationsFile, contractsFile>>
    BY DEF files, Loaded
<1>6. Abstract!Operate(p)
    BY <1>1, <1>2, <1>4, <1>5 DEF Abstract!Operate, Abstract!Rest, Idle
<1> QED
    BY <1>1, <1>3, <1>6 DEF Abstract!Next

(* Of the writes pending, the one that is made is the first.               *)
LEMMA WritingFirst ==
    ASSUME TypeOK, NEW w \in Writes, Writing(w)
    PROVE  FirstPart(pending) = Part[w]
BY FirstPartIs DEF TypeOK, Writing

(* After a write the operation is at the part of the write that follows.   *)
LEMMA WritingNext ==
    ASSUME TypeOK, Owed, Staged, NEW w \in Writes, Writing(w),
           pending' = pending \ {w}
    PROVE  /\ Staged'
           /\ FirstPart(pending') =
                CASE w = "truncate" -> 1
                  [] w = "lifecycle" -> 2
                  [] w = "db" -> 3
                  [] w = "observations" -> 4
                  [] w = "contracts" -> IF "append" \in pending THEN 5 ELSE 0
                  [] OTHER -> 0
<1>1. pending' \in SUBSET Writes /\ w \in pending
    BY DEF TypeOK, Writing
<1>2. \A v \in pending' : Place[w] < Place[v]
    BY <1>1 DEF Writing, TypeOK, Writes, Place
<1>3. Staged'
    BY <1>1, <1>2 DEF Staged, Writes, Place
<1>4. ASSUME NEW v \in pending', Place[v] = Place[w] + 1
      PROVE  FirstPart(pending') = Part[v]
  <2>1. \A u \in pending' : Place[v] <= Place[u]
      BY <1>1, <1>2, <1>4 DEF Writes, Place
  <2> QED
      BY <1>1, <2>1, FirstPartIs
<1>5. CASE w = "truncate"
    BY <1>1, <1>3, <1>4, <1>5 DEF Owed, Place, Part
<1>6. CASE w = "lifecycle"
  <2>1. "db" \in pending' /\ Place["db"] = Place[w] + 1
      BY <1>1, <1>6 DEF Staged, Place
  <2>2. FirstPart(pending') = Part["db"]
      BY <1>4, <2>1
  <2> QED
      BY <1>3, <1>6, <2>2 DEF Part
<1>7. CASE w = "db"
  <2>1. "observations" \in pending' /\ Place["observations"] = Place[w] + 1
      BY <1>1, <1>7 DEF Staged, Place
  <2>2. FirstPart(pending') = Part["observations"]
      BY <1>4, <2>1
  <2> QED
      BY <1>3, <1>7, <2>2 DEF Part
<1>8. CASE w = "observations"
  <2>1. "contracts" \in pending' /\ Place["contracts"] = Place[w] + 1
      BY <1>1, <1>8 DEF Staged, Place
  <2>2. FirstPart(pending') = Part["contracts"]
      BY <1>4, <2>1
  <2> QED
      BY <1>3, <1>8, <2>2 DEF Part
<1>9. CASE w = "contracts"
  <2>1. pending' \subseteq {"append"}
      BY <1>1, <1>2, <1>9 DEF Writes, Place
  <2>2. CASE "append" \in pending
      BY <1>1, <1>3, <1>4, <1>9, <2>2 DEF Place, Part
  <2>3. CASE "append" \notin pending
    <3>1. pending' = {}
        BY <2>1, <2>3
    <3> QED
        BY <1>3, <1>9, <2>3, <3>1, NothingFirst
  <2> QED
      BY <2>2, <2>3
<1>10. CASE w = "append"
  <2>1. pending' = {}
      BY <1>1, <1>2, <1>10 DEF Writes, Place
  <2> QED
      BY <1>3, <1>10, <2>1, NothingFirst
<1> QED
    BY <1>5, <1>6, <1>7, <1>8, <1>9, <1>10 DEF Writes, Place

(* Each write empties the lifecycle, saves its part or makes the late      *)
(* change.                                                                 *)
LEMMA WritesSave ==
    ASSUME StoreInv, Staged, Persist
    PROVE  Abstract!Next /\ Staged'
<1>1. TypeOK /\ Owed /\ "truncate" \in Writes /\ "lifecycle" \in Writes
      /\ "db" \in Writes /\ "observations" \in Writes
      /\ "contracts" \in Writes /\ "append" \in Writes
    BY DEF StoreInv, Writes, Place
<1>2. CASE Truncate
  <2>1. Writing("truncate") /\ pending' = pending \ {"truncate"} /\ up /\ up'
      BY <1>2 DEF Truncate, Done, Writing
  <2>2. FirstPart(pending) = 1
      BY <1>1, <2>1, WritingFirst DEF Part
  <2>3. Staged' /\ FirstPart(pending') = 1
      BY <1>1, <2>1, WritingNext
  <2>4. /\ UNCHANGED <<states, count, observations, contracts, dbFile,
                       observationsFile, contractsFile>>
        /\ Loaded(lifecycleFile') = AllCandidate
      BY <1>2 DEF Truncate, memory, Loaded
  <2>5. Abstract!Empty
      BY <2>1, <2>2, <2>3, <2>4 DEF Abstract!Empty, Part, Loaded
  <2> QED
      BY <2>3, <2>5 DEF Abstract!Next
<1>3. CASE WriteLifecycle
  <2>1. Writing("lifecycle") /\ pending' = pending \ {"lifecycle"} /\ up /\ up'
      BY <1>3 DEF WriteLifecycle, Done, Writing
  <2>2. FirstPart(pending) = 1
      BY <1>1, <2>1, WritingFirst DEF Part
  <2>3. Staged' /\ FirstPart(pending') = 2
      BY <1>1, <2>1, WritingNext
  <2>4. /\ UNCHANGED <<states, count, observations, contracts, dbFile,
                       observationsFile, contractsFile>>
        /\ Loaded(lifecycleFile') = states
      BY <1>1, <1>3 DEF WriteLifecycle, memory, Loaded, TypeOK, Lifecycles
  <2>5. Abstract!Save(1)
      BY <2>1, <2>2, <2>3, <2>4 DEF Abstract!Save, Loaded
  <2> QED
      BY <2>3, <2>5 DEF Abstract!Next
<1>4. CASE WriteDb
  <2>1. Writing("db") /\ pending' = pending \ {"db"} /\ up /\ up'
      BY <1>4 DEF WriteDb, Done, Writing
  <2>2. FirstPart(pending) = 2
      BY <1>1, <2>1, WritingFirst DEF Part
  <2>3. Staged' /\ FirstPart(pending') = 3
      BY <1>1, <2>1, WritingNext
  <2>4. /\ UNCHANGED <<states, count, observations, contracts, lifecycleFile,
                       observationsFile, contractsFile>>
        /\ dbFile' = count
      BY <1>4 DEF WriteDb, memory
  <2>5. Abstract!Save(2)
      BY <2>1, <2>2, <2>3, <2>4 DEF Abstract!Save, Loaded
  <2> QED
      BY <2>3, <2>5 DEF Abstract!Next
<1>5. CASE WriteObservations
  <2>1. /\ Writing("observations") /\ pending' = pending \ {"observations"}
        /\ up /\ up'
      BY <1>5 DEF WriteObservations, Done, Writing
  <2>2. FirstPart(pending) = 3
      BY <1>1, <2>1, WritingFirst DEF Part
  <2>3. Staged' /\ FirstPart(pending') = 4
      BY <1>1, <2>1, WritingNext
  <2>4. /\ UNCHANGED <<states, count, observations, contracts, lifecycleFile,
                       dbFile, contractsFile>>
        /\ observationsFile' = observations
      BY <1>5 DEF WriteObservations, memory
  <2>5. Abstract!Save(3)
      BY <2>1, <2>2, <2>3, <2>4 DEF Abstract!Save, Loaded
  <2> QED
      BY <2>3, <2>5 DEF Abstract!Next
<1>6. CASE WriteContracts
  <2>1. /\ Writing("contracts") /\ pending' = pending \ {"contracts"}
        /\ up /\ up'
      BY <1>6 DEF WriteContracts, Done, Writing
  <2>2. FirstPart(pending) = 4
      BY <1>1, <2>1, WritingFirst DEF Part
  <2>3. Staged' /\ FirstPart(pending') \in {5, 0}
      BY <1>1, <2>1, WritingNext
  <2>4. /\ UNCHANGED <<states, count, observations, contracts, lifecycleFile,
                       dbFile, observationsFile>>
        /\ contractsFile' = contracts
      BY <1>6 DEF WriteContracts, memory
  <2>5. Abstract!Save(4)
      BY <2>1, <2>2, <2>3, <2>4 DEF Abstract!Save, Abstract!Rest, Loaded
  <2> QED
      BY <2>3, <2>5 DEF Abstract!Next
<1>7. CASE AppendObservation
  <2>1. Writing("append") /\ pending' = pending \ {"append"} /\ up /\ up'
      BY <1>7 DEF AppendObservation, Done, Writing
  <2>2. FirstPart(pending) = 5
      BY <1>1, <2>1, WritingFirst DEF Part
  <2>3. Staged' /\ FirstPart(pending') = 0
      BY <1>1, <2>1, WritingNext
  <2>4. UNCHANGED <<states, count, contracts, lifecycleFile, dbFile,
                    observationsFile, contractsFile>>
      BY <1>7 DEF AppendObservation, files
  <2>5. Abstract!ChangeLate
      BY <2>1, <2>2, <2>3, <2>4
         DEF Abstract!ChangeLate, Abstract!AllSaved, Abstract!Rest, Loaded, Part
  <2> QED
      BY <2>3, <2>5 DEF Abstract!Next
<1> QED
    BY <1>2, <1>3, <1>4, <1>5, <1>6, <1>7 DEF Persist

LEMMA StoreRefines ==
    ASSUME StoreInv, Staged, [Next]_vars
    PROVE  [Abstract!Next]_(Abstract!store) /\ Staged'
<1>1. ASSUME NEW k \in Kids, Register(k)
      PROVE  Abstract!Next /\ Staged'
  <2>1. pending' = Saves(TRUE) \union IF FALSE THEN {"append"} ELSE {}
      BY <1>1 DEF Register
  <2> QED
      BY <1>1, <2>1, OperationsOperate DEF Register
<1>2. ASSUME NEW k \in Kids, NEW c \in Contexts, NEW w \in Weights,
             NEW post \in Posteriors, NEW used \in BOOLEAN,
             RecordEpisode(k, c, w, used, post)
      PROVE  Abstract!Next /\ Staged'
  <2> DEFINE s == Evaluated(states[k], count'[k][c], post)
             set == s # states[k]
  <2>1. /\ states' = [states EXCEPT ![k] = s]
        /\ pending' = Saves(set)
      BY <1>2 DEF RecordEpisode, Transition
  <2>2. set \/ states' = states
      BY <2>1 DEF StoreInv, TypeOK, Lifecycles
  <2>3. pending' = Saves(set) \union IF FALSE THEN {"append"} ELSE {}
      BY <2>1
  <2>4. Idle /\ UNCHANGED <<files, up>>
      BY <1>2 DEF RecordEpisode
  <2>5. set \in BOOLEAN
      OBVIOUS
  <2> HIDE DEF set
  <2> QED
      BY <2>2, <2>3, <2>4, <2>5, OperationsOperate
<1>3. ASSUME NEW k \in Kids, NEW c \in Contexts, NEW w \in Weights,
             NEW post \in Posteriors, NEW used \in BOOLEAN,
             ApplyAttribution(k, c, w, used, post)
      PROVE  Abstract!Next /\ Staged'
  <2> DEFINE set == states' # states
  <2>1. pending' = Saves(set) \union IF TRUE THEN {"append"} ELSE {}
      BY <1>3 DEF ApplyAttribution
  <2>2. Idle /\ UNCHANGED <<files, up>>
      BY <1>3 DEF ApplyAttribution
  <2>3. set \in BOOLEAN /\ (set \/ states' = states)
      OBVIOUS
  <2> HIDE DEF set
  <2> QED
      BY <2>1, <2>2, <2>3, OperationsOperate
<1>4. CASE Decay
  <2>1. pending' = Saves(FALSE) \union IF FALSE THEN {"append"} ELSE {}
      BY <1>4 DEF Decay
  <2> QED
      BY <1>4, <2>1, OperationsOperate DEF Decay
<1>5. CASE Persist
    BY <1>5, WritesSave
<1>6. CASE Crash
  <2>1. /\ up /\ ~up' /\ up' = FALSE /\ pending' = {}
        /\ UNCHANGED <<states, count, observations, contracts, lifecycleFile,
                       dbFile, observationsFile, contractsFile>>
      BY <1>6 DEF Crash, memory, files
  <2>2. FirstPart(pending') = 0
      BY <2>1, NothingFirst
  <2>3. Abstract!Stop
      BY <2>1, <2>2 DEF Abstract!Stop, Abstract!Rest, Loaded
  <2> QED
      BY <2>1, <2>3 DEF Abstract!Next, Staged
<1>7. CASE Restart
  <2>1. /\ ~up /\ up' = TRUE /\ pending' = pending
        /\ states' = Loaded(lifecycleFile) /\ count' = dbFile
        /\ contracts' = contractsFile /\ observations' = observationsFile
        /\ UNCHANGED <<lifecycleFile, dbFile, observationsFile, contractsFile>>
      BY <1>7 DEF Restart, files
  <2>2. Abstract!Recover
      BY <2>1 DEF Abstract!Recover, Loaded
  <2> QED
      BY <2>1, <2>2 DEF Abstract!Next, Staged
<1>8. CASE UNCHANGED vars
    BY <1>8 DEF vars, memory, files, Abstract!store, Loaded, Staged
<1> QED
    BY <1>1, <1>2, <1>3, <1>4, <1>5, <1>6, <1>7, <1>8 DEF Next, Record

(* What a crash leaves of an operation is a beginning of it: the parts of  *)
(* the store are kept one after the other, in one order, so that a later   *)
(* process never finds the effect of a step without that of an earlier one.*)
THEOREM StoreImplementsDurableStore == Spec => ImplementsDurableStore
<1>1. Init => Abstract!Init /\ Staged
  <2> SUFFICES ASSUME Init PROVE Abstract!Init /\ Staged
      OBVIOUS
  <2>1. FirstPart(pending) = 0
      BY NothingFirst DEF Init
  <2>2. Loaded(lifecycleFile) = states
      BY DEF Init, Loaded
  <2> QED
      BY <2>1, <2>2 DEF Init, Abstract!Init, Abstract!Rest, Staged
<1>2. StoreInv /\ Staged /\ [Next]_vars
        => [Abstract!Next]_(Abstract!store) /\ Staged'
    BY StoreRefines
<1> QED
    BY <1>1, <1>2, StoreInvariant, PTL
       DEF Spec, ImplementsDurableStore, Abstract!Spec
=============================================================================
