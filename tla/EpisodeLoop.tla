----------------------------- MODULE EpisodeLoop -----------------------------
(***************************************************************************)
(* One experiment process: the planning loop (new_agent_do and main_worker *)
(* in src/optimus1/main_planning.py) and the gate it consults for every    *)
(* waypoint (CactMemory in cact/cact_memory.py).                           *)
(*                                                                         *)
(* The loop asks is_succeeded_waypoint whether stored knowledge may be     *)
(* reused, lets the agent craft or act, and reports the outcome with       *)
(* save_success_failure.  The two calls share no argument but the          *)
(* waypoint: what is recorded is whatever the last decision left in the    *)
(* fields of CactMemory.  A process plays several trials and tasks; other  *)
(* processes, frozen ones among them, follow it on the same trust store.   *)
(*                                                                         *)
(* What the gate computes from evidence is a choice here.  Paired branches *)
(* (branch_mode) are left out.                                             *)
(***************************************************************************)
EXTENDS Naturals, Sequences

CONSTANTS
    Waypoints,
    None,          \* Python's None
    Configs,       \* the processes that may run (see ConfigType)
    MaxDecisions,  \* bound: decisions, over all processes
    MaxTrials      \* bound: trials, over all processes

(* The protocol is for the C-ACT methods only.                             *)
ConfigType ==
    {c \in [frozen : BOOLEAN,      \* evaluation on a frozen store
            base : BOOLEAN,        \* the methods NoKnowledge and Base-Only
            protocol : BOOLEAN,    \* C-ACT with a protocol artifact, else the controller
            sanitizer : BOOLEAN] : \* all methods but the NoSanitizer ablation
        c.base => ~c.protocol}

Decisions == [trusted : BOOLEAN]   \* a DecisionResult: "reuse" or "probe", or not

Opportunities ==
    [id : Waypoints \X Nat, waypoint : Waypoints, reuse : BOOLEAN,
     decision : 1..MaxDecisions]

ASSUME LoopAssumption ==
    /\ None \notin Waypoints \union Decisions \union Opportunities
    /\ Configs \subseteq ConfigType /\ Configs # {}
    /\ MaxDecisions \in Nat /\ MaxTrials \in Nat \ {0}

VARIABLES
    config,      \* how the running process was started
    pc,          \* the agent thread: "plan", "craft", "act", "end", "over"
    main,        \* the main thread: "waiting" for the agent, "joining", "idle"
    waypoint,    \* the local of new_agent_do
    recorded,    \* _waypoint_recorded
    failed,      \* failed_waypoints, counted up to 3
    last,        \* _last_decision_result
    opportunity, \* _v2_pending
    supervising, \* _supervision_pending
    blocked,     \* _supervision_blocked
    uses, fallbacks,  \* _reuse_count, _fallback_count
    kids,        \* the waypoints _waypoint_to_kid knows
    rows,        \* opportunities.jsonl of this process
    contracts,   \* waypoints the trust store holds a contract for
    learned,     \* waypoints the trust store holds evidence for
    decays,      \* parity of the calls of decay_all on the store
    decided,     \* history: number of decisions
    trusts,      \* history: whether the current one is to reuse knowledge
    times,       \* history: how often each decision's outcome was recorded
    trials       \* number of trials, for the bound

agentVars == <<pc, waypoint, recorded, failed>>
decisionVars == <<last, opportunity, supervising>>
counters == <<uses, fallbacks>>
store == <<contracts, learned, decays>>
history == <<decided, trusts, times>>
vars == <<config, agentVars, main, decisionVars, blocked, counters, kids, rows,
          store, history, trials>>

-----------------------------------------------------------------------------
(* is_succeeded_waypoint                                                   *)

(* get_contract finds what this process has registered: the identifier is  *)
(* drawn at registration, and _waypoint_to_kid is not saved.               *)
Known(w) == w \in kids

(* The sanitizer quarantines what is_succeeded_waypoint registers, as it   *)
(* has neither a gene nor a scope; without it the contract is stored.      *)
Registers(w) == ~Known(w) /\ ~config.sanitizer

Register(w) ==
    /\ kids' = IF Registers(w) THEN kids \union {w} ELSE kids
    /\ contracts' = IF Registers(w) THEN contracts \union {w} ELSE contracts

OpportunityIdOfUses(w) == <<w, uses + 1>>

OpportunityId(w) == <<w, uses + fallbacks + 1>>

OpportunityOrStale(w, eligible, reuse) ==
    IF eligible THEN [id |-> OpportunityId(w), waypoint |-> w,
                      reuse |-> reuse, decision |-> decided + 1]
                ELSE opportunity

Opportunity(w, eligible, reuse) ==
    [id |-> OpportunityId(w), waypoint |-> w,
     reuse |-> reuse, decision |-> decided + 1]

(* A frozen process, and a method without knowledge, registers nothing.    *)
MayDecide(w) == Known(w) \/ ~(config.frozen \/ config.base)

(* Nothing is known of the waypoint: no decision is made.                  *)
NothingKnown(w) ==
    /\ ~MayDecide(w)
    /\ last' = None
    /\ trusts' = FALSE
    /\ UNCHANGED <<opportunity, supervising, kids, store>>

(* A reflection has failed: return before anything is decided.             *)
Blocked(w) ==
    /\ MayDecide(w)
    /\ blocked
    /\ Register(w)
    /\ trusts' = FALSE
    /\ UNCHANGED <<decisionVars, learned, decays>>

(* The protocol: an eligible opportunity is assigned at random, or by the  *)
(* policy when the process is frozen.                                      *)
DecideByProtocol(w) ==
    /\ config.protocol /\ ~blocked
    /\ MayDecide(w)
    /\ \E eligible, reuse \in BOOLEAN :
          /\ reuse => eligible
          /\ last' = [trusted |-> reuse]
          /\ opportunity' = Opportunity(w, eligible, reuse)
          /\ trusts' = reuse
    /\ supervising' = FALSE
    /\ Register(w)
    /\ UNCHANGED <<learned, decays>>

(* The controller: candidates that pass the contract filter are decided    *)
(* after a decay of the whole store.  Reuse of an item on probation is     *)
(* supervised, even if active logging then forces the base policy.  The    *)
(* baselines of _legacy_decide do without decay and supervision.           *)
DecideByController(w) ==
    /\ ~config.protocol /\ ~blocked
    /\ MayDecide(w)
    /\ \E valid, reuse, supervised \in BOOLEAN :
          /\ reuse \/ supervised => valid
          /\ last' = [trusted |-> reuse]
          /\ trusts' = reuse
          /\ supervising' = supervised
          /\ decays' = IF valid THEN 1 - decays ELSE decays
    /\ Register(w)
    /\ UNCHANGED <<opportunity, learned>>

(* make_plan: the decision, and the planner when nothing is reused.  When  *)
(* the planner fails the loop breaks, before _waypoint_recorded is reset.  *)
MakePlan(w) ==
    /\ pc = "plan"
    /\ decided < MaxDecisions
    /\ decided' = decided + 1
    /\ \/ NothingKnown(w)
       \/ Blocked(w)
       \/ DecideByProtocol(w)
       \/ DecideByController(w)
    /\ waypoint' = w
    /\ \/ pc' \in {"craft", "act"} /\ recorded' = FALSE
       \/ pc' = "end" /\ UNCHANGED recorded
    /\ UNCHANGED <<config, main, failed, blocked, counters, rows, times, trials>>

(* The original goal is achieved: the loop ends, and nothing is left to    *)
(* record.                                                                 *)
GoalAchieved ==
    /\ pc = "plan"
    /\ pc' = "over"
    /\ UNCHANGED <<config, main, waypoint, recorded, failed, decisionVars,
                   blocked, counters, kids, rows, store, history, trials>>

-----------------------------------------------------------------------------
(* save_success_failure                                                    *)

UsedByDefault == last = None \/ last.trusted

(* was_used, from the last decision.                                       *)
Used == last # None /\ last.trusted

LearnsAlways(counted) == counted

(* A frozen process records nothing, and attribution may exempt an outcome.*)
(* Every twentieth outcome that is recorded decays the store.              *)
Learns(counted) == counted /\ ~config.frozen

Save ==
    /\ uses' = IF Used THEN uses + 1 ELSE uses
    /\ fallbacks' = IF Used THEN fallbacks ELSE fallbacks + 1
    /\ rows' = IF opportunity = None THEN rows
               ELSE Append(rows, [opportunity |-> opportunity,
                                  outcomeOf |-> waypoint, used |-> Used])
    /\ opportunity' = None
    /\ \E counted \in BOOLEAN :
          learned' = IF Learns(counted) THEN learned \union {waypoint} ELSE learned
    /\ \E twentieth \in BOOLEAN :
          decays' = IF Learns(twentieth) THEN 1 - decays ELSE decays
    /\ times' = [times EXCEPT ![decided] = @ + 1]
    /\ UNCHANGED <<last, supervising, blocked, kids, contracts, decided, trusts>>

NoSave == UNCHANGED <<decisionVars, counters, kids, rows, store, history>>

FailOnce(w) == [failed EXCEPT ![w] = IF @ < 3 THEN @ + 1 ELSE 3]

-----------------------------------------------------------------------------
(* The subgoal is carried out.                                             *)

GivesUpEarly(n) == n >= 2

(* failed_waypoints.count(waypoint) >= 3                                   *)
GivesUp(n) == n >= 3

(* A craft fails for lack of a recipe or material: the outcome is recorded *)
(* at once, and after three failures of a waypoint the loop breaks.        *)
CraftFails ==
    /\ pc = "craft"
    /\ Save
    /\ failed' = FailOnce(waypoint)
    /\ pc' = IF GivesUp(failed'[waypoint]) THEN "end" ELSE "plan"
    /\ UNCHANGED <<config, main, waypoint, recorded, trials>>

(* needs_supervision_check and acknowledge_supervision after an env.step:  *)
(* no environment of the repository reports reflection_passed, so the      *)
(* reflection fails.                                                       *)
EnvStep ==
    /\ pc = "act"
    /\ supervising
    /\ supervising' = FALSE
    /\ blocked' = TRUE
    /\ UNCHANGED <<config, agentVars, main, last, opportunity, counters, kids,
                   rows, store, history, trials>>

AfterFinishSame == "act"

(* subgoal = None: the next waypoint is planned.                           *)
AfterFinish == "plan"

(* The subgoal is done, though perhaps not the waypoint.  In the act loop  *)
(* this follows at least one env.step.                                     *)
Finish ==
    /\ pc = "craft" \/ (pc = "act" /\ ~supervising)
    /\ Save
    /\ recorded' = TRUE
    /\ \E success \in BOOLEAN :
          failed' = IF success THEN failed ELSE FailOnce(waypoint)
    /\ pc' = AfterFinish
    /\ UNCHANGED <<config, main, waypoint, trials>>

(* The steps or minutes of the episode are used up.                        *)
GameOver ==
    /\ pc = "craft" \/ (pc = "act" /\ ~supervising)
    /\ pc' = "end"
    /\ failed' = FailOnce(waypoint)
    /\ NoSave
    /\ UNCHANGED <<config, main, waypoint, recorded, blocked, trials>>

(* After the loop: a last outcome, unless the flag says it is recorded.    *)
End ==
    /\ pc = "end"
    /\ pc' = "over"
    /\ IF recorded THEN NoSave /\ UNCHANGED blocked ELSE Save
    /\ UNCHANGED <<config, main, waypoint, recorded, failed, trials>>

(* Minecraft has crashed or an exception is raised: return at once.        *)
Abort ==
    /\ pc \in {"plan", "craft", "act", "end"}
    /\ pc' = "over"
    /\ NoSave
    /\ UNCHANGED <<config, main, waypoint, recorded, failed, blocked, trials>>

-----------------------------------------------------------------------------
(* The main thread and the processes.                                      *)

AfterTimeLimitIdle == "idle"

(* Leaving the with block of the executor joins the agent thread.          *)
AfterTimeLimit == "joining"

(* future.result gives up after TASK_TIMEOUT.                              *)
TimeLimit ==
    /\ main = "waiting" /\ pc # "over"
    /\ main' = AfterTimeLimit
    /\ UNCHANGED <<config, agentVars, decisionVars, blocked, counters, kids,
                   rows, store, history, trials>>

Collect ==
    /\ main \in {"waiting", "joining"} /\ pc = "over"
    /\ main' = "idle"
    /\ UNCHANGED <<config, agentVars, decisionVars, blocked, counters, kids,
                   rows, store, history, trials>>

(* new_agent_do is submitted with fresh locals.                            *)
Submit ==
    /\ trials < MaxTrials
    /\ trials' = trials + 1
    /\ main' = "waiting"
    /\ pc' = "plan"
    /\ waypoint' = None
    /\ recorded' = FALSE
    /\ failed' = [w \in Waypoints |-> 0]

(* Another trial of the task, or a trial of the next one (set_task_info).  *)
NextTrial ==
    /\ main = "idle"
    /\ Submit
    /\ \E newTask \in BOOLEAN : blocked' = IF newTask THEN FALSE ELSE blocked
    /\ NoSave
    /\ UNCHANGED config

(* The process ends, or the runner kills it, and another one is started on *)
(* the store, with a log directory of its own.                             *)
NextProcess(c) ==
    /\ Submit
    /\ config' = c
    /\ last' = None /\ opportunity' = None
    /\ supervising' = FALSE /\ blocked' = FALSE
    /\ uses' = 0 /\ fallbacks' = 0
    /\ kids' = {}
    /\ rows' = << >>
    /\ trusts' = FALSE
    /\ UNCHANGED <<store, decided, times>>

-----------------------------------------------------------------------------
Init ==
    /\ config \in Configs
    /\ pc = "plan" /\ main = "waiting"
    /\ waypoint = None /\ recorded = FALSE
    /\ failed = [w \in Waypoints |-> 0]
    /\ last = None /\ opportunity = None
    /\ supervising = FALSE /\ blocked = FALSE
    /\ uses = 0 /\ fallbacks = 0
    /\ kids = {} /\ rows = << >>
    /\ contracts = {} /\ learned = {} /\ decays = 0
    /\ decided = 0 /\ trusts = FALSE
    /\ times = [n \in 1..MaxDecisions |-> 0]
    /\ trials = 1

Agent ==
    \/ \E w \in Waypoints : MakePlan(w)
    \/ GoalAchieved
    \/ CraftFails
    \/ EnvStep
    \/ Finish
    \/ GameOver
    \/ End
    \/ Abort

Next ==
    \/ Agent
    \/ TimeLimit
    \/ Collect
    \/ NextTrial
    \/ \E c \in Configs : NextProcess(c)

Spec == Init /\ [][Next]_vars

-----------------------------------------------------------------------------
(* The fields of CactMemory and the locals of the loop are well typed; the *)
(* agent carries out only waypoints it has decided about.                  *)
TypeOK ==
    /\ config \in Configs
    /\ pc \in {"plan", "craft", "act", "end", "over"}
    /\ main \in {"waiting", "joining", "idle"}
    /\ waypoint \in Waypoints \union {None}
    /\ pc \in {"craft", "act", "end"} => waypoint # None /\ decided # 0
    /\ recorded \in BOOLEAN
    /\ failed \in [Waypoints -> 0..3]
    /\ last \in Decisions \union {None}
    /\ opportunity \in Opportunities \union {None}
    /\ supervising \in BOOLEAN /\ blocked \in BOOLEAN
    /\ uses \in Nat /\ fallbacks \in Nat
    /\ kids \subseteq contracts /\ contracts \subseteq Waypoints
    /\ rows \in Seq([opportunity : Opportunities, outcomeOf : Waypoints,
                     used : BOOLEAN])
    /\ learned \subseteq Waypoints
    /\ decays \in 0..1
    /\ decided \in 0..MaxDecisions /\ trusts \in BOOLEAN
    /\ times \in [1..MaxDecisions -> 0..2]
    /\ trials \in 1..MaxTrials

(* The opportunities a process logs have identifiers of their own, though  *)
(* these are made from counters that only recorded outcomes advance, and   *)
(* no decision is logged twice, though its outcome may be recorded twice.  *)
OpportunitiesDistinct ==
    \A i, j \in 1..Len(rows) :
        i # j => /\ rows[i].opportunity.id # rows[j].opportunity.id
                 /\ rows[i].opportunity.decision # rows[j].opportunity.decision

(* A logged opportunity carries the outcome of the waypoint it was offered *)
(* for, and the arm it was assigned is the arm its outcome is counted for: *)
(* a trial that ended without recording cannot leak into the next one.     *)
RowsAreConsistent ==
    \A i \in 1..Len(rows) :
        LET o == rows[i].opportunity
        IN rows[i].outcomeOf = o.waypoint /\ rows[i].used = o.reuse

(* While a subgoal is carried out, the outcome would be counted as a reuse *)
(* exactly if the decision made for it was to reuse (whether or not the    *)
(* memory then had a subgoal to offer).  The exception is the code path    *)
(* after a failed reflection, which keeps the decision that failed.        *)
CreditMatchesDecision ==
    pc \in {"craft", "act", "end"} /\ ~blocked => (Used <=> trusts)

(* The outcome of a decision is recorded once.  The exception is a waypoint*)
(* given up after three failures: the end of the loop records it again.    *)
RecordedTwiceOnlyWhenGivenUp ==
    [][\A n \in DOMAIN times :
          times'[n] > times[n] =>
              \/ times[n] = 0
              \/ times[n] = 1 /\ pc = "end" /\ failed[waypoint] = 3]_vars

(* "Frozen evaluation cannot create or mutate knowledge": under the        *)
(* protocol no step of a frozen process changes the store it shares.  (The *)
(* controller decays the store at every decision, frozen or not.)          *)
FrozenReadOnly ==
    [][config.frozen /\ config.protocol => UNCHANGED store]_vars

(* Trials never overlap: while none is under way no agent thread is left,  *)
(* not even that of a trial that ran out of its time.                      *)
TrialsDoNotOverlap == main = "idle" => pc = "over"

-----------------------------------------------------------------------------
(* "C-ACT [...] intercepts the top-1 candidate [...] and decides whether   *)
(* the candidate is allowed to act": a frozen process, too, decides about  *)
(* a waypoint for which the store has a contract and evidence.             *)
FrozenDecides ==
    config.frozen /\ waypoint \in contracts \intersect learned
        /\ pc \in {"craft", "act"} => last # None
=============================================================================
