# TLA+ models of C-ACT

C-ACT (contextual admission via counterfactual treatment effects) is a gate between a
retriever and a planner of a Minecraft agent. Whenever the agent reaches a waypoint for which
an earlier episode left knowledge, the gate decides whether that knowledge may be reused, the
agent carries out the subgoal, and the outcome is credited to the knowledge item. Around the
gate there are a calibrator that selects the gate's policy, a persistent trust store, a batching
proxy in front of the planning server, and an experiment runner that plays hundreds of episodes
in child processes. The agent below the gate also explores on its own: several processes share a
directory of recipes and action statistics and extend it.

This directory holds one TLA+ module per modelled component, the TLC configurations that check
them on small instances, and proofs, checked by the TLA+ proof system, that the main safety
properties hold for every value of the constants. `PROJECT.json` lists the runs, the theorems,
the source lines of each definition and, for every property, a mutation of the model that it
catches.

    tlc -config MCBatchProxy.cfg MCBatchProxy.tla
    tlapm BatchProxyProofs.tla

## 1. Inventory

### Modelled

| component | source (below `src/`) | state | operations | hard behaviour |
|---|---|---|---|---|
| Admission policy V2 | `cact/protocol_v2.py` | risk budget per episode, last certificate | `decide`: support backoff, quantiles of paired draws, caps, reserve, debit | long sequences of decisions, tolerance, clamping at zero |
| Policy calibration | `PolicyCalibrator` in `cact/protocol_v2.py`, `experiments/calibrate_v2.py` | none between calls | `_candidate`, `select`, `audit`, what is written | a choice made under one balance is used under others; ties |
| Batch proxy | `experiments/batch_proxy.py` | queue, timer flag, result holders | `submit`, `_flush`, `_post_*`, `do_POST` | threads, a lock, timers, a 30 s wait racing a late answer |
| Trust store, lifecycle | `cact/trust_store.py`, `lifecycle_manager.py`, `attribution.py` | evidence, contracts, observations, lifecycle states; a file for each | register, record, attribute, decay, transition, save, load | a crash between two file writes or inside one |
| Parallel runner | `experiments/parallel_runner.py` | completed keys, results, futures, port semaphores, `completed.json` | `run`, `_run_one`, `_save_checkpoint`, `_load_checkpoint`, starting and stopping the server | workers, shared ports, time limits, retries, exceptions in the loop and in the `finally` block, kill, resume |
| Gate and planning loop | `cact/cact_memory.py`, `src/optimus1/main_planning.py`, `cact/decision_controller.py` | last decision, pending opportunity, supervision flags, counters, waypoint-to-item map | `is_succeeded_waypoint`, `register_knowledge`, `save_success_failure`, `acknowledge_supervision`; `new_agent_do`, `main_worker` | a protocol of calls that communicate through fields; an agent thread that outlives its time limit; processes that follow one another on one store |
| Exploration | `src/optimus1/main_exploration.py`, `memories/hypothesized_recipe_graph.py`, `memories/decomposed_memory.py` | recipe graph in memory; files for goals, episodes, verified and hypothesized recipes, and the successes and failures of each item | load, choose and free a goal, plan, act, record, verify, count, revise, spread inadmissibility | several processes update files in place and give the lock back before the data is written; a process that reads an empty file dies, and its claim stays until an operator clears it; cycles assembled by different processes |

How they interact: the runner starts one child per episode, which runs the planning loop; the
loop posts to the planner through the batch proxy in the runner's process (`ServerAPI` uses a
`requests.Session`; the VLM cache replaces `requests.post` only, so it sees none of these calls);
the loop calls the gate, the gate calls the admission policy (or the decision controller) and
the trust store; the store writes files that later children, frozen ones among them, read; the
runner compares digests of these files around a frozen episode. The admission policy is one that
`calibrate_v2.py` has selected on one set of logged episodes and audited on another. Exploring
processes do not go through the gate; they meet each other in their shared directory only.

What makes each correct:

* Admission policy: what is admitted is paid for from the episode's own budget, no credit
  buys back a refused charge, a larger reserve never admits more.
* Policy calibration: only audited policies are written, a higher price admits no more groups, and
  what was selected is not refused later for any reason but lack of budget.
* Batch proxy: every request is flushed once, by one timer, and gets its own answer once.
* Trust store: a crash at any point leaves files a later process can trust: no file is a mixture
  of two operations, evidence always has a lifecycle state that governs it, a disabled item
  stays disabled.
* Runner: the semaphores keep two episodes off one planning server, on every path out of an episode;
  a key is completed only with a result on file; the checkpoint never lags behind the results in memory by
  more than a batch while the loop runs, and by nothing once a run has left its `finally` block undisturbed; a run
  that returns has left nothing out; a frozen success has an unchanged store; every run ends.
* Gate and loop: each outcome is credited to the decision made for it, once; a logged
  opportunity is joined to its own outcome; a frozen process changes nothing; trials of one
  process never overlap.
* Exploration: two processes explore one goal only when there is no other, as long as no claim is written over
  another that is still to be closed; the episode count is the number of processes that have ended (one that
  dies while it counts is not among them); an unreadable file has a writer that will still close
  it, or was written to by two at once (then it may stay torn); goals are chosen in a graph
  without cycles; and a step that finds an item inadmissible leaves nothing unverified planned with
  it, but for what a verified recipe or an exception in the revision keeps.

### Not modelled

| component | source | why |
|---|---|---|
| Decision numerics | `cact/trust_gate.py`, `thompson_probe.py`, `active_logging.py`, `empirical_bayes.py`, `context_bucket.py`, `temporal_decay.py` | floating point and random draws; the models take every outcome they may have |
| Estimation | `AIPWEstimator` in `cact/protocol_v2.py`, `joint_evidence.py`, `preference_gate.py`, `experiments/train_pairwise.py` | floating-point batch statistics over files, no state between calls; the estimates are constants of `PolicyCalibration` |
| Protocol artifacts and validators | `experiments/release_protocol.py`, `health_check.py`, `validate_e2_audit.py`, `build_*.py`, `analysis/validate_*.py` | one pass over JSON; their guarantees are assumptions on the policy rows |
| Online runner | `experiments/online_runner.py` | not yet: section 5 says what a module of it would state |
| Paired collection, E2 rollouts | `experiments/generate_pair_train.py`, `run_e2_*.py`, `e2_direct_select.py`, `collect_world_snapshots.py` | drivers that build cells for the runner and filter its logs |
| Contracts, sanitizer, interaction gate | `cact/contract.py`, `bank_sanitizer.py`, `interaction_gate.py` | pure predicates; their verdict is a choice in `EpisodeLoop` |
| VLM cache | `experiments/vlm_cache.py` | replaces `requests.post`, which the planning client does not call: it takes part in none of the modelled loops |
| Planning server | `app.py` | GPU inference; only its answers matter |
| Agent helpers, oracle graph | `src/optimus1/helper/`, `env/`, `models/`, `memories/oracle_graph.py`, `relative_graph.py` | crafting and smelting slot by slot through the game's windows, wrappers and model clients: they appear as success, a kind of failure or an exception, the true recipes as the constant `Oracle` |
| Metrics and analysis | `cact/metrics.py`, `analysis/` | offline statistics |
| MineRL, Malmo | `minerl/` | vendored |

Most lines of the repository are in the last four rows: vendored environment, window handling and
offline statistics have no state that outlives a call and nothing that runs beside it. Of the
code that has, the modules cover the larger part.

## 2. Modules

| module | role |
|---|---|
| `CapDraws` | what is read off a group's paired draws: quantiles, risks, the CAP scalar |
| `PolicyCalibration` | selection and audit of a policy; extends `CapDraws` |
| `AdmissionLedger` | `AdmissionPolicyV2.decide` and its ledger, run with a calibrated policy; extends `PolicyCalibration` |
| `BatchProxy` | the proxy's threads, one action per critical section, network call or write to a holder |
| `RequestReply` | what a caller of the proxy may rely on; `BatchProxy` implements it |
| `TrustLifecycle` | the store's memory, its files and the writes between them |
| `DurableStore` | what a process may rely on when it keeps its memory in several files; `TrustLifecycle` implements it |
| `ParallelRunner` | main thread, workers, children and checkpoint of the runner |
| `EpisodeLoop` | the planning loop and the gate's fields, composed in one module because they share every step |
| `RecipeGraph` | the recipe graph of one process, as operators |
| `SharedFiles` | files updated in place by several processes, each update in two steps |
| `Exploration` | exploring processes; extends `RecipeGraph` and `SharedFiles` |
| `CapDrawsProofs`, `AdmissionLedgerProofs`, `BatchProxyProofs`, `TrustLifecycleProofs`, `ParallelRunnerProofs`, `EpisodeLoopProofs`, `RecipeGraphProofs`, `ExplorationProofs` | theorems |
| `MC...` | instances for TLC |

### CapDraws, PolicyCalibration and AdmissionLedger

A group (a key of the policy artifact) has a sample of paired draws of benefit and of its two
risks, as integers. `Quantile` is `np.quantile` with its linear interpolation, multiplied by
`AlphaDen` to stay an integer, so that budgets, limits and charges are counted in that finer
unit and compared exactly; `CapDraw` is the CAP of one draw multiplied by its positive
denominators, which does not change the sign of a quantile. Prices (`lambda`) are natural
numbers. Fallback draws, which the code makes up for legacy point estimates, are samples like any other.

`Admitted` is `_candidate`, `Select` the loop of `select`, `Audit` the audit. `Written` says which
policies `calibrate_v2` writes: the selected one, or one selected again with a price found by
rollouts, if the audits pass. The estimates of both data sets are constants.

In `AdmissionLedger`, `budget` is `_budget_by_episode`; an episode that is not in its domain has the initial budget,
as with `setdefault`. One action per way out of `decide`: `Ineligible`, `Unsupported`, `Refuse`
(with the reasons in the order of the early returns) and `Admit`. `policy` is chosen in `Init`: one
of the controllers that `CactMemory.__init__` can construct, with a written policy and its price or
an override of it (`lambda_override`). A group that was not admitted at selection is not in the policy, and
`decide` backs off from it to a coarser group. The certificate's
`after` is the unclamped difference the code reports, while the ledger keeps the clamped one.

### BatchProxy and RequestReply

A request is one `do_POST` call. `Submit` is the critical section of `submit`; the wait for the
event ends with `Return` or, at any time before it is set, with `GiveUp`. A timer thread goes
through `armed`, `post`, `write`, `set` and `finish`: `Take` and `Finish` are the two critical
sections of `_flush`, `Post` the network call, `Write` and `Set` the two statements of the
delivery loop, between which a handler may run. The server answers with a full list, a list that is too
short, or an error. `_batch_count` is changed outside the lock, as in the code.
`RequestReply` knows only `call` and `answer`: a call is made, and is then answered once with
its own answer or an error. The refinement mapping is in `BatchProxy!Abstract`.

### TrustLifecycle and DurableStore

An operation changes memory in one step (one thread owns the store) and then makes its writes,
one action each, in the order of `Place`: `lifecycle.json` is emptied and written in place by
`transition`, the other files are renamed into place by `_save`, and the observation of an
attributed outcome is appended to memory by the caller after the save. `Crash` may happen between
any two; `Restart` loads what it finds, and a torn `lifecycle.json` loads as no states at all.
Of a Beta posterior the model keeps the number of weighted uses; the probability and the harm
bound computed from it are drawn from a constant set at each evaluation. `before`, `disabled`
and `everTorn` are history variables for the properties.

`UseLifecycle` is the switch of the NoLifecycle ablation (`trust_store.py:185`, `attribution.py:189`): without it
nothing is evaluated after an outcome. TLC runs with the lifecycle; the theorems hold for both values.

`DurableStore` knows numbered parts only. Saving begins at the first part an operation may have changed
and goes through the others in order; one part is written in place and may be found blank, one may change once
more after it was saved. A crash keeps what was saved. In the mapping (`TrustLifecycle!Abstract`) the
parts are lifecycle, evidence, observations and contracts, `kept` is what `_load` would make of each file, and
the part to be saved next is that of the first pending write; `Truncate` and a torn file become
the blank of an empty dictionary.

### ParallelRunner

`job[c]` is where the future of cell `c` is: queued, waiting for its port's semaphore, preparing (holding it, and
cloning the snapshot and hashing the store), running its child, over, collected. `permits` are the semaphores:
`Acquire` takes one (516-518), and every way out of an episode, skips, errors and time limits included, gives it back.
A worker reads the completed keys when its cell's turn comes (`Acquire`, line 339) and starts the child later
(`StartChild`, 439), so a cell may be skipped because another one with the same key has completed
meanwhile, and one that was not skipped may start after that.

`Begin` starts a run, resumed or not, and with it the planning server, whose failure leaves `run()` before the
`try`. The main thread collects results in any order, saves a checkpoint every
`CheckpointEvery` of them, and in its `finally` block waits for the pool, stops the server (`StopServer`)
and saves once more. An exception or Ctrl-C reaches it wherever it waits or does I/O: `Interrupt` while it waits for
results or saves a periodic checkpoint, after which it waits for the pool; `AbandonPool` while it waits for the
pool, so that the `finally` block runs beside workers that go on; `CutShort` while it stops the server or writes the last
checkpoint, which ends the run (`aborted`) with the file as it is. Not modelled is an exception between two statements that do neither, such as lines 663 to 667 (a cell would be
completed without its result being kept). `Kill` is the end of the process at any point, also between
`Truncate` and `WriteCheckpoint`. `changed`
records which audited files a child has changed; `Digest` is `store_hash`, which sees the files
below a directory only. Children of a killed runner are taken to end with it.

### EpisodeLoop

The agent thread (`pc`) follows `new_agent_do`: `MakePlan` with the four ways through
`is_succeeded_waypoint`, the craft and act loops, `Finish`, `GameOver` and the code after the
loop (`End`), and the early returns (`Abort`). The main thread (`main`) follows `main_worker`: it
waits for the agent with a time limit, and joins it. `last`, `opportunity`, `supervising`,
`blocked`, `uses` and `fallbacks` are the fields of `CactMemory` through which one call talks
to a later one. `NextProcess` starts another process, of any kind in `Configs`, on the same
store; `base` are the methods that never use knowledge (NoKnowledge, Base-Only), which leave `is_succeeded_waypoint` as
a frozen process without a match does (`MayDecide`). What the gate computes from evidence is a choice. No environment in the repository reports
`reflection_passed`, so a supervised reuse is always followed by a failed reflection; that is what
`EnvStep` does.

### RecipeGraph, SharedFiles and Exploration

`RecipeGraph` holds what `HypothesizedRecipeGraph` computes from recipes in memory: `Loaded` and
`Reloaded` are the two ways of reading the files (only the first cuts cycles), `Frontier`, `Before`
and `FirstWaypoints` choose goal and waypoint, `Revise` and `Spread` change hypotheses. Quantities
are left out. "Needs, however far down" is stated over closed sets, and `Cleared` as the set that
cutting one item after another arrives at, so that theorems can be proved about both. A call that
revises an item several times is modelled with one final write of that item, in some order; the
other processes read whole files in either case. `Spread`, the recursion of `spread_inadmissible`, is a recursive
function on its calls: the graph so far, the children still to be revised and the items whose calls are in
progress (`_visited`), which is what makes it end.

`SharedFiles` is the pattern of every update: open, lock, read, truncate, dump, unlock, and only
then the flush when the `with` block ends. `Rewrite` leaves the file empty on disk and the data in
`pending`; `CloseFile` writes it, over what another process has put there meanwhile. `Replace` is the one update
that truncates after the dump, which flushes it under the lock: that of `util/clear_exploring_goals.py`.

`Exploration` gives each process a program counter and a queue `todo` of file operations, one
step each, because a call such as `save_verified_recipe_data` goes to several files and the
others run in between. Tests for existence and the following open are separate steps where the code separates
them; reads that follow one another without a write are one step. An operation that meets an
unreadable file raises and ends the process (`Die`), except where the code catches it:
`select_non_conflicting_goal` takes an unreadable goals file for an empty one. A plan for a waypoint that nothing
has worked for also reads the records of similar waypoints that had succeeded when the process last looked
(`succeeded`, `PlanReads`), wherever they are in the graph, and the embeddings of all of them, which other processes write again,
without a lock, when they start or record a first success (`Encoding`; the step `Scan` after an operation "encode"
ends that). The planner may aim at another item than the waypoint (`subgoal`, `Strays`): when that has been crafted
or mined, the waypoint has failed unless it is there as well. `ClearClaim` is an operator who clears the claim of a
dead process. Processes are taken to have different identifiers, though `evaluate.yaml` gives `exploration_uuid` a default.
The branches of `increment_count` for the prefixes `adam` and `deckard` are left out; `evaluate.yaml`
sets another. The game is reduced to the items a
process has, success or failure of an action, the end of the episode's time and the exception
in Minecraft's log that ends a process by `sys.exit`.

## 3. Runs

| run | distinct states | what it shows |
|---|---|---|
| `admission_ledger` | 24 486 | three calibrations, five controllers, two episodes, groups that between them reach every refusal: charges are accounted for, certificates chain, a refused charge stays refused, the reserve only restricts, and with the selected price only lack of budget refuses |
| `batch_proxy` | 82 388 | three requests, two timer identities: one flusher, no stranded or duplicated request, every request served, `RequestReply` implemented |
| `trust_lifecycle` | 985 197 | two items, all operations, two crashes, with the lifecycle: the crash-consistency invariants, the edges of the lifecycle, `DurableStore` implemented |
| `parallel_runner` | 1 920 109 | three cells, two of them with one key, two workers, two ports, two runs with or without resume, a server that fails to start, exceptions in the loop and in the `finally` block: one episode per port, completed keys have results, how far the checkpoint lags behind, nothing run again |
| `frozen_runner` | 28 647 | two frozen cells on one port under fairness: a changed store is never a success, a run ends |
| `episode_loop` | 3 139 986 | two waypoints, five kinds of process, four decisions, three trials: which outcome is recorded for which decision |
| `exploration` | 1 022 460 | two processes on four items, from three different directories, a planner that may take one item for another, an operator who clears claims of the dead: claims, episode count, unreadable files, acyclic candidates, inadmissible items cut off |
| `disabled_permanent`, `checkpointed_failure`, `pair_branches`, `frozen_policy`, `frozen_decides` | | a statement of the repository that the code does not keep, with a counterexample (section 6) |

Bounds, and why they are enough:

* `MaxAdmits = 2` per episode reaches a clamped balance and a decision after it; a budget of 3
  with a tolerance of 2 makes both the exhaustion test and the tolerance bite. Three draws and
  `alpha = 1/4` are the smallest sample whose quantile is interpolated. One calibration is worth
  every price, one has a group that is worth price 0 only, one is refuted by its audit. `absolute_risk` and the refusals of the
  margins occur under `independent_margins`, `cap_nonpositive` under an override of the price. The
  theorems have no such bounds.
* Three requests fill a batch of two while a third arrives during the flush. Two timer identities
  are enough to see a second flusher; the proof covers any number.
* `MaxCount = 10` is the largest count the lifecycle compares with; one use weighs 5, so two
  uses reach every threshold. `MaxObservations = 4`, one decay and two crashes let an item go from
  candidate to disabled with a crash before and after; `Posteriors` has a value on each side of
  every threshold. The proof covers every value of these constants.
* Three cells, two of them with equal keys and two on one port, are the smallest grid with a skip, a wait
  for a port and an independent cell. `CheckpointEvery = 2` gives a periodic and a final checkpoint,
  `MaxAttempts = 2` a retry and its exhaustion, `MaxRuns = 2` one resume.
* Four items are a chain of three levels with two items on the middle one, so that two processes have
  a choice, an item can be an ingredient of another hypothesis, and two hypotheses can form a cycle. The
  three directories are one with right hypotheses, one with a cycle and one with nothing verified;
  all processes together take 2 actions in the game in the first (`acts`), the fewest with which something is crafted, and in the
  others fail by their time limit. In the first two the history has two of three actions failed already, so that one
  more failure counts the item, makes it inadmissible and revises what was planned with it. `Threshold = 2` with `CountCap = 3` has counts on both sides of it, `FailLimit = 2` and
  `Patience = 1` are the smallest limits a first failure does not reach or does. The planner may
  answer one action that is none of its options, without the item's name, as `all_actions_invalid`
  expects them. The proofs cover any number of processes, items and actions.
* `MaxDecisions = 4` lets a waypoint fail three times and be followed by another decision;
  `MaxTrials = 3` gives a second trial and a second process in either order.

Symmetry is used only over episodes, knowledge items, waypoints and exploring processes, which no
module compares or orders, and only in runs without liveness properties (the items of `exploration`
are numbered and not symmetric). `CHECK_DEADLOCK FALSE` is set where the system may
stop: all requests answered, all bounded operations used up, the last run returned, the last
trial over, every exploring process ended or dead.

Fairness: in `batch_proxy` a started timer fires and its thread goes on (the post has a timeout),
and a handler whose event is set goes on; requests need not arrive and the 30 s timeout need not
expire, so no request depends on it. In `frozen_runner` the main thread and the workers go
on (an episode that holds its port is prepared, and its child starts or fails to) and an episode ends, at the latest when
`_run_with_process_group` kills it at its time limit;
nothing is assumed of children, exceptions or kill. The other runs check safety only.

## 4. Theorems

Six of the eight proof modules prove an inductive invariant (`ExplorationProofs` two) and derive the
properties of the run from it, for all constants that satisfy the module's named assumptions; `CapDrawsProofs` and
`RecipeGraphProofs` prove facts about the operators two of them rest on.

* `CapDrawsProofs`: the order statistics of a sample exist and are unique (the least value with enough values
  below it), do not fall when no draw does (`QuantileMonotone`), and scale (`QuantileScales`). Multiplying
  out denominators then turns a comparison of two CAPs into one draw by draw:
  `PriceOnlyRestricts`, `ReserveRestrictsCap`, `FreeCapIgnoresBalance`.

* `AdmissionLedgerProofs`: `LedgerInv` adds to `TypeOK` and `SpendAccounted` that the last certificate
  of an episode agrees with its balance (needed for `CertificateChain`), and that every charge
  refused for lack of budget still exceeds the balance plus tolerance (needed for
  `NoSecondChance`: balances only fall, because charges are clamped to be non-negative).
  `ReserveOnlyRestricts` needs only non-negative balances and the monotonicity of the cap in the reserve.
  `SelectsLeastPrice`: by `PriceOnlyRestricts` no price admits a group that 0 does not, so 0 has the best
  coverage, and of equals the least price is taken. Hence `LedgerOnlyBudgetRefuses`, because
  with the price 0 a group that passed at selection passes with any balance and reserve.
* `BatchProxyProofs`: `ProxyInv` joins `TypeOK`, `OneFlusher` and `QueueServed` with what a flush has in
  hand: its batch is not empty, its answers fit its batch, and a written response is an answer to
  the request that holds it. With it each step maps to a step of `RequestReply` or stutters.
  `InOnePlace` needs an extension with where every request is.
* `TrustLifecycleProofs`: `StoreInv` states, for each pending set of writes, what memory owes to the
  files (`Owed`), what a write that is done has left (`Written`, `LogWritten`), and what
  the completed operations guarantee (`DisabledKept`, `Governed`, `OldOrNew`). The properties are not
  inductive alone: between two writes they hold only because of what is still pending. The refinement
(`StoreImplementsDurableStore`) needs besides that an operation which still owes a file owes every later one
(`Staged`): then the first pending write is always that of the next part. `StoreOldOrNew` says what this
means for a crash file by file.
* `ParallelRunnerProofs`: `RunnerInv` adds to the safety properties where futures may be in each phase
  (`MainThread`: none is unfinished outside `run()` or during its last checkpoint), whose result
  a future holds and that a success was audited (`OwnResults`), that a cell which was not submitted or
  was collected is completed or a failure (`Accounted`), and that a resumed run knows what the checkpoint
  holds (`Resumed`). `OneEpisodePerPort` follows from what the semaphores hold: a port's permit is out exactly as long as one
  episode on it is preparing or running, so a path that returned a permit twice, or none, would break it.
  `CheckpointKeepsUp` counts the results that are not on file: they are as many as have been collected since the last periodic
  checkpoint (`Batch`, the number of collected results modulo `CheckpointEvery`), at most one batch
  (`MissingAtMost`), and none after a run that ended by its last checkpoint. A run cut short in the `finally` block
  may miss its last batch on file; only one cut short, or killed, inside the write itself leaves a torn file.
* `EpisodeLoopProofs`: `LoopInv` says what the fields mean at each `pc`. A pending opportunity is that
  of the current decision and bears the number the next outcome will have (`Pending`), because every
  step that advances the counters also clears it; `Mode` says that a frozen process knows no waypoint
  and that supervision and the protocol exclude each other, without which a failed reflection could
  leave an opportunity pending; `Recorded` counts how often the outcome of a decision was recorded.
  `FrozenReadOnly` needs no invariant.
* `RecipeGraphProofs`: the items to clear exist (the least item for which they do not is impossible)
  and are determined (`ClearingIsDetermined`); afterwards no unverified item depends
  on itself: what lies on a cycle would have been cleared or depends on more than it did (`FewerNeeds`).
  An item whose set of items below is smallest needs none of its like (`LowestItem`), so a graph without cycles
  has something to try (`FrontierExists`) and a plan in it a first waypoint (`WaypointExists`); `LevelRises`
  says that the measure by which goals are ordered respects ingredients.
  For the propagation, a call of `Spread` has a rank that its own calls lie below (more items in progress, or the
  same and fewer children left), so `Spread` satisfies its equation (`SpreadExists`, `SpreadTurns`). By the same rank
  every call keeps the verified part of the graph (`Keeps`) and leaves its children without the
  requirements they had, except for items revisions draw on (`Settled`, `Stock`): `SpreadSettles`, and with it
  `InadmissibleIsCutOff`.
* `ExplorationProofs`: `IInv` is the conjunction of `FilesInv` (until a file is disturbed it has at most one
  writer and is empty while it has one), `ProgInv` (where a process with a goal, or one about to choose a
  goal, can be, and that its graph is then acyclic), `EpisodesInv` and `ClaimsInv` (what the two
  counters say or will say when closed). Most actions change neither goals nor counters: `OtherStep`
  says what they have in common and is shown to keep `IInv` once; the others have a lemma each.
  `TypeInv` is the second invariant. `TypeOK` alone is not inductive: it needs that a queued call names an item
  where it reads one, that a process with a subgoal has a waypoint, that every file's content fits its reader
  even while another process holds the data, and that no item is both verified and
  hypothesized. It gives `ExplorationTypes`, and with the theorems on graphs the action properties:
  `PropagationCutsOff`; a process ends while choosing a goal only if nothing is left to explore or an ingredient is
  unknown (`GoalsAreFound`, which uses both invariants), and while planning only for a cycle below the goal, for an unreadable memory
  file of an item there or of an example for it anywhere, or for embeddings that another process is writing (`PlansAreFound`); no revision touches a verified recipe (`VerifiedAreKept`). The last three
  are stated in the proof module; on the instance of the run all ingredients are known and
  loading cuts the cycles, so that TLC would find no process that ends for the first reason.

Assumptions: `DrawsAssumption` (a sample is not empty, tolerance and benefit scale are positive),
`CalibrationAssumption` (finitely many groups, prices natural numbers with 0 among them as in
`DEFAULT_LAMBDAS`), `LedgerAssumption`, `OpportunityAssumption`, `ProxyAssumption` (there is a timer;
requests are not error values), `LifecycleAssumption`,
`RunnerAssumption` and `LoopAssumption` (types of the constants; `None` is no waypoint, decision or
opportunity), `GraphAssumption` (the nearest verified items are verified items; the threshold is below the cap of
counts), `ExplorationAssumption` and `StartsAssumption` (finitely many processes; in the beginning
files are missing or whole, nothing is claimed and no episode counted). TLC evaluates them on each run.

Only model-checked: the liveness properties `EveryRequestServed` and `RunEnds`. Liveness under fairness,
`ENABLED`, theorems with an operator parameter (and with them the library's induction theorems) and recursive
operators are beyond the prover. Inductions over numbers are done by a least counterexample
(`LeastNatural`, from the well-foundedness of the natural numbers); recursion is written as recursive functions, so no
module uses a recursive operator.

## 5. Plan

1. `OnlineRunner`: rounds of accumulation, calibration and frozen evaluation over one shared store, phase
   checkpoints and the copy of the previous round's store, with a crash and a restart between any
   two phases; an abstract cell-and-store view of `ParallelRunner` and `TrustLifecycle`. A restarted run goes
   through all rounds again and removes the store of each round after the first to copy that of the round
   before (`online_runner.py:176`), while the checkpoints of its phases (`_load_checkpoint` in
   `_run_phase`) say that their cells are completed. The property to state is that what a completed cell has
   learned is in the store the next phase starts from.
2. Extend `EpisodeLoop` with the forced branches of pair collection, and `ParallelRunner` with
   orphans of a killed runner and the log rows a retried child leaves behind.
3. The ensemble over seeds and the shrinkage of estimates, as operators over small integers.

## 6. Where the code and its documents disagree

* `disabled_permanent`: "Disabled knowledge is permanently blocked" (`cact/lifecycle_manager.py:15`).
  A process that dies while it rewrites `lifecycle.json` leaves it unreadable, the next one swallows
  the error, and every item is a candidate. `DisabledUnlessTorn` shows that this is the only way.
* `checkpointed_failure`: "Parallel execution now checkpoints only successful/skipped episodes"
  (`CODE_AND_PROTOCOL_REVIEW.md:43`). `parallel_runner.py:662` also completes failed and timed-out cells.
* `pair_branches`: "rerun each selected opportunity ... in a reuse and a base branch"
  (`experiments/generate_pair_train.py:6`). Cells are identified by task, seed, method and frozen only, so one
  branch is skipped once the other has completed.
* `frozen_policy`: "store/policy mutation is a failure" (`MANUAL_IMPLEMENTATION_MATRIX.md:24`). The digest
  of a path that is a file is the digest of nothing.
* `frozen_decides`: the gate "decides whether the candidate is allowed to act" (`README.md:15`). A frozen
  process has an empty map from waypoints to items and returns without a decision.

## 7. Other observations

Met while modelling; nothing in the repository states the contrary, so no run refutes it.

* The price. Coverage never grows with the price and `DEFAULT_LAMBDAS` starts at 0.0
  (`protocol_v2.py:36`, `606`), so `select` always returns 0.0, `cap_nonpositive` and `absolute_risk` refuse
  nothing online, and the `MyopicReserve` ablation decides like the full policy
  (`SelectsLeastPrice`, `OnlyBudgetRefuses`). Only an explicit override of the price changes that.
* Groups refused at selection are dropped from the policy, and `decide` then backs off to a coarser
  group, in whose sample they are pooled (`protocol_v2.py:603`, `725`).
* Exploration gives up its lock before its data is written (`hypothesized_recipe_graph.py:949` and every
  other update). A reader in between dies; a second writer in between makes claims unreliable.
* `increment_count` writes back counts it has read without a lock that lasts; an increment may be lost.
* `all_actions_invalid` looks for `mine`, `craft` and `smelt` (`decomposed_memory.py:278`), while the planner's options, and with them
  the recorded actions, name the item as well: an item fails for good only through answers outside the options.
* A verified recipe that replaces one by mining loses the mark of a crafting resource
  (`hypothesized_recipe_graph.py:1082`).
* A process that starts without hypotheses cannot make any: `_change_material_names` uses `oracle_graph`, whose
  assignment is commented out (`hypothesized_recipe_graph.py:48`, `427`). With fewer than two verified items
  `find_top_similar_verified_items` fails.
* A process that dies keeps its claim, and later processes have other identifiers: the goal looks taken until an operator runs
  `util/clear_exploring_goals.py` with the identifier of the dead process. Nothing in the program calls it.
* Every process that records the first success of an action, and every one that starts, writes all embeddings again in place
  (`decomposed_memory.py:94`), without a lock that other processes see; one that plans meanwhile may die of it.
* An exception in the runner's `finally` block, while it stops the server or writes the last
  checkpoint (`parallel_runner.py:685-687`), ends the run without that checkpoint or with a torn `completed.json`. A torn
  one is taken for none, and a resumed run starts from nothing. One from a server that does not start (632) leaves no trace.
* The reuse log reads the identifier of the pending opportunity after it has been cleared
  (`cact_memory.py:511`, `580`).
* `online_runner.py:169` pairs results with cells by position, in whatever order the runner has collected them.
