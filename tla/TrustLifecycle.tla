--------------------------- MODULE TrustLifecycle ---------------------------
(***************************************************************************)
(* The trust store of C-ACT (src/cact/trust_store.py) and the six-state    *)
(* lifecycle it drives (src/cact/lifecycle_manager.py), with the files     *)
(* both keep in the store's directory.                                     *)
(*                                                                         *)
(* One process owns a store.  An operation first changes the dictionaries  *)
(* in memory and then writes files one after the other; the process may be *)
(* killed between two writes (the runner kills the process group of a run  *)
(* that exceeds its time), and a later process loads what it finds.        *)
(* lifecycle.json is opened for writing, which empties it, and then        *)
(* filled; the other files are written aside and renamed into place.       *)
(*                                                                         *)
(* Of a Beta posterior the model keeps the number of weighted uses, which  *)
(* the lifecycle compares with 1, 3, 5 and 10.  The uplift probability and *)
(* the harm bound computed from it are drawn from Posteriors (percent) at  *)
(* every evaluation.                                                       *)
(***************************************************************************)
EXTENDS Integers

CONSTANTS
    Kids,             \* knowledge identifiers
    Contexts,         \* context buckets: evidence is kept per kid and context
    Weights,          \* what one use may count for: 1/propensity, at most 20
    Posteriors,       \* [pi, harm] pairs an evaluation may see, in percent
    Tau, HStar,       \* thresholds on pi and harm, in percent
    UseLifecycle,     \* FALSE for the NoLifecycle ablation (abl_lifecycle)
    MaxCount,         \* bound: evidence saturates here (no threshold is above 10)
    MaxObservations,  \* bound: observations appended to the log
    MaxDecays,        \* bound: decays
    MaxCrashes,       \* bound: crashes
    Torn              \* a lifecycle.json that does not parse

States == {"candidate", "quarantined", "probation", "certified",
           "deprecated", "disabled"}

ASSUME LifecycleAssumption ==
    /\ Torn \notin [Kids -> States]
    /\ Weights \subseteq 1..20
    /\ Posteriors \subseteq [pi : 0..100, harm : 0..100]
    /\ Tau \in 0..100 /\ HStar \in 0..100
    /\ UseLifecycle \in BOOLEAN
    /\ MaxCount \in Nat /\ MaxCount >= 10
    /\ MaxObservations \in Nat /\ MaxDecays \in Nat /\ MaxCrashes \in Nat

VARIABLES
    states,            \* LifecycleManager._states
    count,             \* weighted uses in TrustStore._data, per kid and context
    contracts,         \* the kids TrustStore._contracts knows
    observations,      \* length of TrustStore._observations
    lifecycleFile,     \* lifecycle.json: the states, or Torn
    dbFile,            \* cert_db.json
    observationsFile,  \* observations.json
    contractsFile,     \* contracts.json
    pending,           \* writes the running operation has still to make
    up,                \* whether a process owns the store
    before,            \* history: the memory when the running operation began
    disabled,          \* history: kids a completed operation left disabled
    everTorn,          \* history: whether a process ever loaded a torn file
    decays, crashes    \* how many there were, for the bounds

memory == <<states, count, contracts, observations>>
files == <<lifecycleFile, dbFile, observationsFile, contractsFile>>
history == <<before, disabled, everTorn>>
bounds == <<decays, crashes>>
vars == <<memory, files, pending, up, history, bounds>>

AllCandidate == [k \in Kids |-> "candidate"]
NoEvidence == [k \in Kids |-> [c \in Contexts |-> 0]]

Lifecycles == [Kids -> States]
Evidence == [Kids -> [Contexts -> 0..MaxCount]]

Memory == [states : Lifecycles, count : Evidence,
           contracts : SUBSET Kids, observations : 0..MaxObservations]

Now == [states |-> states, count |-> count,
        contracts |-> contracts, observations |-> observations]

-----------------------------------------------------------------------------
(* An evaluation that skips states when the evidence is good enough.       *)
EvaluateSkipsStates(s, n, post) ==
    CASE s = "candidate" /\ n >= 10 /\ post.pi >= Tau -> "certified"
      [] s = "candidate" /\ n >= 1 -> "quarantined"
      [] s = "quarantined" /\ n >= 3 /\ post.pi > 30 -> "probation"
      [] s = "deprecated" /\ post.harm > 2 * HStar -> "disabled"
      [] OTHER -> s

(* An evaluation that gives a disabled item another chance.                *)
EvaluateForgives(s, n, post) ==
    CASE s = "candidate" /\ n >= 1 -> "quarantined"
      [] s = "quarantined" /\ n >= 3 /\ post.pi > 30 -> "probation"
      [] s = "probation" /\ n >= 10 /\ post.pi < 50 -> "deprecated"
      [] s = "deprecated" /\ post.harm > 2 * HStar -> "disabled"
      [] s = "disabled" /\ post.pi >= Tau -> "probation"
      [] OTHER -> s

(* evaluate_auto_transition and the guard of transition: the state after   *)
(* one evaluation, which may only move towards "disabled".  No caller      *)
(* passes recent violations or conflicts, so their conditions never hold.  *)
Evaluate(s, n, post) ==
    CASE s = "candidate" /\ n >= 1 -> "quarantined"
      [] s = "quarantined" /\ n >= 3 /\ post.pi > 30 -> "probation"
      [] s = "probation" /\ n >= 5 /\ post.pi >= Tau /\ post.harm <= HStar
            -> "certified"
      [] s = "probation" /\ n >= 10 /\ post.pi < 50 -> "deprecated"
      [] s = "certified" /\ 2 * post.harm > 3 * HStar -> "deprecated"
      [] s = "deprecated" /\ post.harm > 2 * HStar -> "disabled"
      [] OTHER -> s

(* Without the lifecycle an outcome is recorded, but nothing is evaluated. *)
Evaluated(s, n, post) == IF UseLifecycle THEN Evaluate(s, n, post) ELSE s

PlaceEvidenceFirst ==
    [db |-> 1, truncate |-> 2, lifecycle |-> 3, observations |-> 4,
     contracts |-> 5, append |-> 6]

(* The order of an operation's writes: lifecycle.json is emptied and then  *)
(* written by transition, TrustStore._save writes the others, and the      *)
(* caller appends to the observations last.                                *)
Place ==
    [truncate |-> 1, lifecycle |-> 2, db |-> 3, observations |-> 4,
     contracts |-> 5, append |-> 6]

Writes == DOMAIN Place

SavesForgetsLog(lifecycleToo) ==
    {"db", "contracts"}
        \union IF lifecycleToo THEN {"truncate", "lifecycle"} ELSE {}

SavesForgetsLifecycle(lifecycleToo) == {"db", "observations", "contracts"}

(* The writes an operation owes: lifecycle.json only when a state was set. *)
Saves(lifecycleToo) ==
    {"db", "observations", "contracts"}
        \union IF lifecycleToo THEN {"truncate", "lifecycle"} ELSE {}

IdleBeforeLastWrite == up /\ pending \subseteq {"contracts", "append"}

(* One thread runs the operations of a store, each to its last write.      *)
Idle == up /\ pending = {}

(* A state that was set is written; an evaluation that changes nothing     *)
(* writes only the evidence.                                               *)
Transition(k, s) ==
    /\ states' = [states EXCEPT ![k] = s]
    /\ pending' = Saves(s # states[k])

(* register_contract: a freshly generated identifier becomes a candidate.  *)
Register(k) ==
    /\ Idle
    /\ k \notin contracts
    /\ states[k] = "candidate"
    /\ \A c \in Contexts : count[k][c] = 0
    /\ contracts' = contracts \union {k}
    /\ states' = [states EXCEPT ![k] = "candidate"]
    /\ pending' = Saves(TRUE)
    /\ before' = Now
    /\ UNCHANGED <<count, observations, files, up, disabled, everTorn, bounds>>

AddUse(k, c, w) ==
    [count EXCEPT ![k][c] =
        IF @ + w > MaxCount THEN MaxCount ELSE @ + w]

(* record_episode: every decision, used or not, is logged and evaluated.   *)
RecordEpisode(k, c, w, used, post) ==
    /\ Idle
    /\ observations < MaxObservations
    /\ count' = IF used THEN AddUse(k, c, w) ELSE count
    /\ observations' = observations + 1
    /\ Transition(k, Evaluated(states[k], count'[k][c], post))
    /\ before' = Now
    /\ UNCHANGED <<contracts, files, up, disabled, everTorn, bounds>>

(* apply_attribution_to_lifecycle: a rewarded or penalised use counts and  *)
(* is evaluated; any other attribution only saves.  The caller appends the *)
(* observation afterwards, when the save is over.                          *)
ApplyAttribution(k, c, w, counted, post) ==
    /\ Idle
    /\ observations < MaxObservations
    /\ IF counted
       THEN /\ count' = AddUse(k, c, w)
            /\ states' = [states EXCEPT
                            ![k] = Evaluated(@, count'[k][c], post)]
       ELSE UNCHANGED <<count, states>>
    /\ pending' = Saves(states' # states) \union {"append"}
    /\ before' = Now
    /\ UNCHANGED <<contracts, observations, files, up, disabled, everTorn,
                   bounds>>

(* decay_all: every posterior moves towards its prior, so the whole part   *)
(* of each count may drop by one; the lifecycle is not evaluated.          *)
Decay ==
    /\ Idle
    /\ decays < MaxDecays
    /\ decays' = decays + 1
    /\ \E lost \in [Kids -> [Contexts -> {0, 1}]] :
          count' = [k \in Kids |-> [c \in Contexts |->
                       IF lost[k][c] <= count[k][c]
                       THEN count[k][c] - lost[k][c] ELSE 0]]
    /\ pending' = Saves(FALSE)
    /\ before' = Now
    /\ UNCHANGED <<states, contracts, observations, files, up, disabled,
                   everTorn, crashes>>

-----------------------------------------------------------------------------
(* The writes of the running operation.                                    *)

Writing(w) ==
    /\ up
    /\ w \in pending
    /\ \A v \in pending : Place[w] <= Place[v]

(* The write is made; the last one completes the operation.                *)
Done(w) ==
    /\ pending' = pending \ {w}
    /\ disabled' = IF pending = {w}
                   THEN disabled \union {k \in Kids : states[k] = "disabled"}
                   ELSE disabled
    /\ UNCHANGED <<up, before, everTorn, bounds>>

Truncate ==
    /\ Writing("truncate")
    /\ lifecycleFile' = Torn
    /\ Done("truncate")
    /\ UNCHANGED <<memory, dbFile, observationsFile, contractsFile>>

WriteLifecycle ==
    /\ Writing("lifecycle")
    /\ lifecycleFile' = states
    /\ Done("lifecycle")
    /\ UNCHANGED <<memory, dbFile, observationsFile, contractsFile>>

WriteDb ==
    /\ Writing("db")
    /\ dbFile' = count
    /\ Done("db")
    /\ UNCHANGED <<memory, lifecycleFile, observationsFile, contractsFile>>

WriteObservations ==
    /\ Writing("observations")
    /\ observationsFile' = observations
    /\ Done("observations")
    /\ UNCHANGED <<memory, lifecycleFile, dbFile, contractsFile>>

WriteContracts ==
    /\ Writing("contracts")
    /\ contractsFile' = contracts
    /\ Done("contracts")
    /\ UNCHANGED <<memory, lifecycleFile, dbFile, observationsFile>>

(* CactMemory appends the observation of an attributed outcome to the log  *)
(* in memory; the next save of any operation writes it.                    *)
AppendObservation ==
    /\ Writing("append")
    /\ observations' = observations + 1
    /\ Done("append")
    /\ UNCHANGED <<states, count, contracts, files>>

-----------------------------------------------------------------------------
(* The end of a process, in the middle of an operation or between two.     *)
Crash ==
    /\ up
    /\ crashes < MaxCrashes
    /\ crashes' = crashes + 1
    /\ up' = FALSE
    /\ pending' = {}
    /\ UNCHANGED <<memory, files, history, decays>>

LoadedRaw(file) == file

(* LifecycleManager._load swallows the error a torn file gives, and leaves *)
(* the dictionary empty: every kid is then a candidate.                    *)
Loaded(file) == IF file = Torn THEN AllCandidate ELSE file

Restart ==
    /\ ~up
    /\ up' = TRUE
    /\ states' = Loaded(lifecycleFile)
    /\ count' = dbFile
    /\ contracts' = contractsFile
    /\ observations' = observationsFile
    /\ before' = Now'
    /\ everTorn' = (everTorn \/ lifecycleFile = Torn)
    /\ UNCHANGED <<files, pending, disabled, bounds>>

-----------------------------------------------------------------------------
Init ==
    /\ states = AllCandidate
    /\ count = NoEvidence
    /\ contracts = {}
    /\ observations = 0
    /\ lifecycleFile = AllCandidate
    /\ dbFile = NoEvidence
    /\ observationsFile = 0
    /\ contractsFile = {}
    /\ pending = {}
    /\ up = TRUE
    /\ before = Now
    /\ disabled = {}
    /\ everTorn = FALSE
    /\ decays = 0 /\ crashes = 0

Record ==
    \E k \in Kids, c \in Contexts, w \in Weights, post \in Posteriors :
        \E used \in BOOLEAN :
            \/ RecordEpisode(k, c, w, used, post)
            \/ ApplyAttribution(k, c, w, used, post)

Persist ==
    \/ Truncate
    \/ WriteLifecycle
    \/ WriteDb
    \/ WriteObservations
    \/ WriteContracts
    \/ AppendObservation

Next ==
    \/ \E k \in Kids : Register(k)
    \/ Record
    \/ Decay
    \/ Persist
    \/ Crash
    \/ Restart

Spec == Init /\ [][Next]_vars

-----------------------------------------------------------------------------
(* Every dictionary and file has the shape the code gives it, and only     *)
(* lifecycle.json is ever found torn.                                      *)
TypeOK ==
    /\ states \in Lifecycles
    /\ count \in Evidence
    /\ contracts \subseteq Kids
    /\ observations \in 0..MaxObservations
    /\ lifecycleFile \in Lifecycles \union {Torn}
    /\ dbFile \in Evidence
    /\ observationsFile \in 0..MaxObservations
    /\ contractsFile \subseteq Kids
    /\ pending \subseteq Writes
    /\ up \in BOOLEAN
    /\ before \in Memory
    /\ disabled \subseteq Kids
    /\ everTorn \in BOOLEAN
    /\ decays \in 0..MaxDecays /\ crashes \in 0..MaxCrashes

(* Between two operations a crash loses no trust: what a new process would *)
(* load is what this one has in memory, whichever of register_contract,    *)
(* record_episode, apply_attribution_to_lifecycle and decay_all ran.       *)
SavedAtRest ==
    Idle => /\ Loaded(lifecycleFile) = states
            /\ dbFile = count
            /\ contractsFile = contracts

(* The observation log may lag: apply_attribution_to_lifecycle has saved   *)
(* before its caller appends the observation.  Between operations it lags  *)
(* by that one at most, and it never holds more than the process logged.   *)
LogLagsByOne ==
    /\ observationsFile <= observations
    /\ Idle => observations <= observationsFile + 1

(* A crash in the middle of an operation leaves every file as it was       *)
(* before the operation or as the operation wrote it, never mixed; only    *)
(* lifecycle.json, written in place, may be torn instead.                  *)
OldOrNew ==
    /\ lifecycleFile \in {before.states, states, Torn}
    /\ dbFile \in {before.count, count}
    /\ contractsFile \in {before.contracts, contracts}

(* The lifecycle is written before the evidence that moved it: as long as  *)
(* no torn file was loaded, evidence found on disk belongs to an item that *)
(* has left the candidate state, after any number of crashes.  (Without    *)
(* the lifecycle every item stays a candidate.)                            *)
EvidenceIsGoverned ==
    UseLifecycle /\ ~everTorn /\ lifecycleFile # Torn =>
        \A k \in Kids, c \in Contexts :
            dbFile[k][c] > 0 => lifecycleFile[k] # "candidate"

(* An operation moves one item by one edge of the lifecycle diagram, or    *)
(* none; only loading another process's files moves more.                  *)
Edges ==
    {<<"candidate", "quarantined">>, <<"quarantined", "probation">>,
     <<"probation", "certified">>, <<"probation", "deprecated">>,
     <<"certified", "deprecated">>, <<"deprecated", "disabled">>}

OneEdge ==
    \/ states' = states
    \/ \E k \in Kids, s \in States :
          /\ states' = [states EXCEPT ![k] = s]
          /\ <<states[k], s>> \in Edges

StepsAreEdges == [][up => OneEdge]_vars

(* Once an operation that disabled an item has completed, the item stays   *)
(* disabled, through later evidence, decay, registration, crashes and      *)
(* restarts, as long as no process loads a torn lifecycle file.            *)
DisabledUnlessTorn ==
    up /\ ~everTorn => \A k \in disabled : states[k] = "disabled"

(* What the module's documentation promises: "Disabled knowledge is        *)
(* permanently blocked (manual review only)."                              *)
DisabledIsPermanent ==
    up => \A k \in disabled : states[k] = "disabled"

-----------------------------------------------------------------------------
(* The store seen as a durable store of four parts: the lifecycle states,  *)
(* the evidence, the observations and the contracts, saved in this order.  *)
(* The part to be saved next is that of the first write still pending.     *)
Part ==
    [truncate |-> 1, lifecycle |-> 1, db |-> 2, observations |-> 3,
     contracts |-> 4, append |-> 5]

FirstPart(writes) ==
    IF writes = {} THEN 0
    ELSE CHOOSE p \in 1..5 : /\ \E w \in writes : p = Part[w]
                             /\ \A w \in writes : p <= Part[w]

Abstract == INSTANCE DurableStore WITH
    Parts <- 4,
    InPlace <- Part["lifecycle"],
    Late <- Part["observations"],
    Blank <- AllCandidate,
    live <- <<states, count, observations, contracts>>,
    kept <- <<Loaded(lifecycleFile), dbFile, observationsFile, contractsFile>>,
    saving <- FirstPart(pending)

(* A crash loses no more than the parts of the running operation that were *)
(* not saved yet, in the order in which they are saved: what the next      *)
(* process loads is the memory of one operation up to some file and that   *)
(* of the operation before it from there on, except for a lifecycle that   *)
(* was being written and an observation appended after the last save.      *)
ImplementsDurableStore == Abstract!Spec
=============================================================================
