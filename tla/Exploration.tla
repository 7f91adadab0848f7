---------------------------- MODULE Exploration ----------------------------
(***************************************************************************)
(* Exploring processes (src/src/optimus1/main_exploration.py).  Several    *)
(* run at once, one episode each, and share a directory of files: the      *)
(* goals being explored, the count of episodes, the verified and the       *)
(* hypothesized recipes, and the successes and failures of each action for *)
(* each item.  Every process holds the recipe graph in memory              *)
(* (RecipeGraph) and changes the files by updates of two steps             *)
(* (SharedFiles), between which the others run.                            *)
(*                                                                         *)
(* A call that goes to several files is a queue of operations, todo, one   *)
(* step each.  An operation that cannot read a file, or does not find it,  *)
(* ends its process.  Of the game the model keeps which items a process    *)
(* has obtained and whether an action succeeded; crafting needs the true   *)
(* ingredients.  A process killed from outside is not modelled.            *)
(***************************************************************************)
EXTENDS RecipeGraph, SharedFiles

CONSTANTS
    Oracle,      \* what an item is truly made of, and by which action
    Stations,    \* crafting_table and furnace: used, not used up
    Pickaxes,    \* items a mined item is recorded to require, when at hand
    FreeAnswers, \* answers of the planner that are none of its options
    Strays,      \* the items the planner may aim at instead of a waypoint
    Patience,    \* plan_failure_threshold (2)
    FailLimit,   \* failures of one waypoint after which the episode ends (10)
    Starts       \* what the files may contain in the beginning, each with a
                 \* bound: how many actions in the game all processes may take

Verbs == {"mine", "craft", "smelt"}

(* The keys under which actions are recorded: the planner's options name   *)
(* the item, "bare" answers do not; "" stands for no plan at all.          *)
Keys == [verb : Verbs, bare : BOOLEAN] \union {[verb |-> "", bare |-> TRUE]}
NoPlan == [verb |-> "", bare |-> TRUE]

GoalsFile == <<"goals", 0>>
EpisodesFile == <<"episodes", 0>>
Verified(i) == <<"verified", i>>
Hypothesized(i) == <<"hypothesized", i>>
Memory(i) == <<"memory", i>>

Files == {GoalsFile, EpisodesFile}
             \union ({"verified", "hypothesized", "memory"} \X Items)

(* What a file holds once it is written.                                   *)
NoClaims == [q \in Procs |-> 0]

RecipeData == [needs : SUBSET Items, resource : BOOLEAN]
HypothesisData == [needs : SUBSET Items, count : 0..CountCap]
MemoryData == [Keys -> [success : Nat, failure : Nat]]
ClaimData == [Procs -> Items \union {0}]

DataOf(f) ==
    [goals |-> ClaimData, episodes |-> Nat, verified |-> RecipeData,
     hypothesized |-> HypothesisData, memory |-> MemoryData][f[1]]

ASSUME ExplorationAssumption ==
    /\ IsFiniteSet(Procs)
    /\ Oracle \in [Items -> [needs : SUBSET Items, verb : Verbs]]
    /\ Stations \subseteq Items /\ Pickaxes \subseteq Items
    /\ FreeAnswers \subseteq Keys
    /\ Strays \in [Items -> SUBSET Items]
    /\ Patience \in Nat /\ FailLimit \in Nat \ {0}

(* Nothing is being written in the beginning, and nothing is claimed.      *)
ASSUME StartsAssumption ==
    \A s \in Starts :
        /\ s.disk = [f \in Files |-> s.disk[f]]
        /\ \A f \in Files : \/ s.disk[f] = Missing
                             \/ s.disk[f] \in [state : {"whole"}, data : DataOf(f)]
        /\ s.disk[GoalsFile] = Whole(NoClaims)
        /\ s.disk[EpisodesFile] = Whole(0)
        /\ s.acts \in Nat

VARIABLES
    pc,       \* "off", "loop", "selecting" a goal, "over" (left the loop),
              \* "leaving" after the last steps, "ended" or "dead"
    todo,     \* the file operations left of the call in progress
    graph,    \* the recipe graph in memory
    goal,     \* int_goal; 0 is None
    way,      \* waypoint
    key,      \* language_action_str
    subgoal,  \* the item the subgoal is for; 0 is None
    timeout,  \* game_over
    have,     \* items obtained in this episode (experienced_item_names)
    succeeded, \* succeeded_waypoints, as of the last look at the memory
    fails,    \* failed_waypoints, how often each
    acts,     \* actions in the game left to all processes
    forced    \* history: every candidate was taken when the goal was chosen

progVars == <<pc, todo, graph, goal, way, key, subgoal, timeout, have, succeeded,
              fails, acts, forced>>
vars == <<progVars, fileVars>>

Op(name, i) == [do |-> name, item |-> i, needs |-> {}]

(* The same operation on every item of a set, in some order.               *)
Each(name, S) == SetToSeq({Op(name, i) : i \in S})

Idle(p) == Quiet(p) /\ todo[p] = <<>>
Doing(p, name) == Quiet(p) /\ todo[p] # <<>> /\ Head(todo[p]).do = name
It(p) == Head(todo[p]).item

Then(p, ops) == todo' = [todo EXCEPT ![p] = ops \o Tail(@)]
Done(p) == Then(p, <<>>)

localVars == <<goal, way, key, subgoal, timeout, have, succeeded, fails, acts, forced>>

(* What the process has in memory is gone when it is.                      *)
Forget(p) ==
    /\ graph' = [graph EXCEPT ![p] = NoGraph]
    /\ goal' = [goal EXCEPT ![p] = 0]
    /\ way' = [way EXCEPT ![p] = 0]
    /\ key' = [key EXCEPT ![p] = NoPlan]
    /\ subgoal' = [subgoal EXCEPT ![p] = 0]
    /\ timeout' = [timeout EXCEPT ![p] = FALSE]
    /\ have' = [have EXCEPT ![p] = {}]
    /\ succeeded' = [succeeded EXCEPT ![p] = {}]
    /\ fails' = [fails EXCEPT ![p] = [i \in Items |-> 0]]
    /\ forced' = [forced EXCEPT ![p] = FALSE]

(* An exception, or sys.exit: the process is gone, and its claim stays.    *)
Die(p) ==
    /\ pc' = [pc EXCEPT ![p] = "dead"]
    /\ todo' = [todo EXCEPT ![p] = <<>>]
    /\ Forget(p)
    /\ UNCHANGED <<acts, fileVars>>

-----------------------------------------------------------------------------
(* Recipes: what is read from the files.                                   *)

NeedsVerified == [i \in Items |-> IF Readable(Verified(i))
                                  THEN Contents(Verified(i)).needs ELSE {}]
NeedsHypothesized == [i \in Items |-> IF Readable(Hypothesized(i))
                                      THEN Contents(Hypothesized(i)).needs ELSE {}]
CountsIn == [i \in Items |-> IF Readable(Hypothesized(i))
                             THEN Contents(Hypothesized(i)).count ELSE 0]
VerifiedFiles == {i \in Items : Exists(Verified(i))}
HypothesizedFiles == {i \in Items : Exists(Hypothesized(i))}
ResourceFiles == {i \in Items : Readable(Verified(i)) /\ Contents(Verified(i)).resource}

(* load_and_init_all_recipes, and the check for hypotheses at the start.   *)
Load(p) ==
    /\ Doing(p, "load")
    /\ IF \/ \E i \in VerifiedFiles : ~Readable(Verified(i))
          \/ \E i \in HypothesizedFiles \ VerifiedFiles : ~Readable(Hypothesized(i))
       THEN Die(p)
       ELSE /\ graph' = [graph EXCEPT ![p] =
                   Loaded(VerifiedFiles, ResourceFiles, NeedsVerified,
                          HypothesizedFiles, NeedsHypothesized, CountsIn)]
            /\ Done(p)
            /\ UNCHANGED <<pc, localVars, fileVars>>

(* initialize_hypotheses, for a process that found none, does not get      *)
(* through: _change_material_names uses an oracle graph nobody sets.       *)
Ready(p) ==
    /\ Doing(p, "ready")
    /\ IF graph[p].hypothesized = {} THEN Die(p)
       ELSE Done(p) /\ UNCHANGED <<pc, graph, localVars, fileVars>>

(* Recipes: what is written.                                               *)

(* save_verified_recipe_data: an item already verified, as far as this     *)
(* process knows, only tells which of its ingredients are resources.       *)
SaveVerified(p) ==
    /\ Doing(p, "verify")
    /\ LET i     == It(p)
           needs == Head(todo[p]).needs
           marks == IF Oracle[i].verb # "craft" THEN <<>>
                    ELSE Each("mark", needs \ (Stations \union graph[p].resources))
       IN  IF i \in graph[p].verified
           THEN Then(p, marks)
           ELSE Then(p, <<[Head(todo[p]) EXCEPT !.do = "store"]>> \o marks
                            \o <<Op("load", 0)>>)
    /\ UNCHANGED <<pc, graph, localVars, fileVars>>

(* _save_verified_recipe_data looks whether there is a file ...            *)
StoreVerified(p) ==
    /\ Doing(p, "store")
    /\ Then(p, <<[Head(todo[p]) EXCEPT !.do = IF Exists(Verified(It(p)))
                                              THEN "merge" ELSE "create"]>>)
    /\ UNCHANGED <<pc, graph, localVars, fileVars>>

(* ... and creates it, or supplies the ingredients one by mining lacks.    *)
CreateVerified(p) ==
    /\ Doing(p, "create")
    /\ Rewrite(p, Verified(It(p)), [needs |-> Head(todo[p]).needs, resource |-> FALSE])
    /\ Done(p)
    /\ UNCHANGED <<pc, graph, localVars>>

MergeVerified(p) ==
    /\ Doing(p, "merge")
    /\ LET f == Verified(It(p))
       IN  IF ~Readable(f) THEN Die(p)
           ELSE /\ Rewrite(p, f, IF /\ Contents(f).needs \subseteq Pickaxes
                                    /\ ~(Head(todo[p]).needs \subseteq Pickaxes)
                                 THEN [needs |-> Head(todo[p]).needs, resource |-> FALSE]
                                 ELSE Contents(f))
                /\ Done(p)
                /\ UNCHANGED <<pc, graph, localVars>>

(* _update_crafing_resources.                                              *)
MarkResource(p) ==
    /\ Doing(p, "mark")
    /\ LET f == Verified(It(p))
       IN  IF ~Readable(f) THEN Die(p)
           ELSE /\ Rewrite(p, f, [Contents(f) EXCEPT !.resource = TRUE])
                /\ Done(p)
                /\ UNCHANGED <<pc, graph, localVars>>

(* _save_hypothesized_recipe_data writes without reading.                  *)
WriteHypothesis(p) ==
    /\ Doing(p, "write")
    /\ LET i == It(p)
       IN  IF ~Exists(Hypothesized(i)) THEN Die(p)
           ELSE /\ Rewrite(p, Hypothesized(i), [needs |-> graph[p].needs[i],
                                                count |-> graph[p].count[i]])
                /\ Done(p)
                /\ UNCHANGED <<pc, graph, localVars>>

Fail(p) == Doing(p, "fail") /\ Die(p)

Writes(g) == Each("write", g.revised) \o (IF g.broken THEN <<Op("fail", 0)>> ELSE <<>>)

(* increment_count of an item that has failed by every action: what was    *)
(* verified is not any more ...                                            *)
Increment(p) ==
    /\ Doing(p, "increment")
    /\ LET i == It(p)
       IN  IF i \in graph[p].verified /\ Exists(Verified(i))
           THEN /\ RemoveFile(Verified(i))
                /\ Then(p, <<Op("load", 0), Op("count", i)>>)
           ELSE /\ Then(p, <<Op("count", i)>>)
                /\ UNCHANGED fileVars
    /\ UNCHANGED <<pc, graph, localVars>>

(* ... and the hypotheses are read again, counted and revised.  (Left out: *)
(* for the prefixes adam and deckard, which evaluate.yaml does not set, a  *)
(* verified item is let be and of any other only the count is written.)    *)
CountUp(p) ==
    /\ Doing(p, "count")
    /\ LET i == It(p)
           g == Reloaded(graph[p], HypothesizedFiles, NeedsHypothesized, CountsIn)
       IN  IF \/ \E j \in HypothesizedFiles \ graph[p].verified : Garbled(Hypothesized(j))
              \/ i \notin g.verified \union g.hypothesized
           THEN Die(p)
           ELSE /\ graph' = [graph EXCEPT ![p] = Incremented(g, i)]
                /\ Then(p, Writes(Incremented(g, i)))
                /\ UNCHANGED <<pc, localVars, fileVars>>

-----------------------------------------------------------------------------
(* The action memory.                                                      *)

Zero == [success |-> 0, failure |-> 0]
NoHistory == [k \in Keys |-> Zero]

HistoryOf(i) == IF Readable(Memory(i)) THEN Contents(Memory(i)) ELSE NoHistory

Score(r) == r.success - r.failure
Works(r) == r.success > 0 /\ Score(r) > -Patience
Invalid(r) == Score(r) <= -Patience

(* is_succeeded_waypoint: of the actions that work, the best.              *)
Succeeded(i) == {k \in Keys : Works(HistoryOf(i)[k])}
BestActions(i) ==
    {k \in Succeeded(i) :
        \A l \in Succeeded(i) : Score(HistoryOf(i)[l]) <= Score(HistoryOf(i)[k])}

(* _prepare_succeeded_waypoints reads the memory of every item, "encode"   *)
(* after the embeddings have been written.                                 *)
Scan(p) ==
    /\ Doing(p, "scan") \/ Doing(p, "encode")
    /\ IF \E i \in Items : Garbled(Memory(i)) THEN Die(p)
       ELSE /\ succeeded' = [succeeded EXCEPT ![p] = {i \in Items : Succeeded(i) # {}}]
            /\ Done(p)
            /\ UNCHANGED <<pc, graph, goal, way, key, subgoal, timeout, have, fails,
                           acts, forced, fileVars>>

(* The options of the planner's prompt: the actions that have not failed.  *)
FailedVerbs(i) == {k.verb : k \in {l \in Keys : Invalid(HistoryOf(i)[l])}} \ {""}
OptionVerbs(i) == IF Verbs \subseteq FailedVerbs(i) THEN Verbs ELSE Verbs \ FailedVerbs(i)
PlannerAnswers(i) ==
    [verb : OptionVerbs(i), bare : {FALSE}] \union FreeAnswers

(* all_actions_invalid looks under the bare keys only.                     *)
AllActionsInvalid(i) ==
    \A v \in Verbs : Invalid(HistoryOf(i)[[verb |-> v, bare |-> TRUE]])

RecordedAsScore(h, k, ok) ==
    IF ok THEN [h EXCEPT ![k].success = @ + 1] ELSE [h EXCEPT ![k].success = @ - 1]

Recorded(h, k, ok) ==
    IF ok THEN [h EXCEPT ![k].success = @ + 1] ELSE [h EXCEPT ![k].failure = @ + 1]

(* _save_success_failure looks whether there is a file ...                 *)
Record(p) ==
    /\ \E ok \in BOOLEAN :
          /\ Doing(p, IF ok THEN "succeeded" ELSE "failed")
          /\ Then(p, <<Op(IF Exists(Memory(It(p)))
                          THEN IF ok THEN "add success" ELSE "add failure"
                          ELSE IF ok THEN "first success" ELSE "first failure", It(p))>>)
    /\ UNCHANGED <<pc, graph, localVars, fileVars>>

(* ... and creates it, or adds to it.  A new record gets an embedding, and *)
(* the first success of an action writes all of them again.                *)
RecordFirst(p) ==
    /\ \E ok \in BOOLEAN :
          /\ Doing(p, IF ok THEN "first success" ELSE "first failure")
          /\ Rewrite(p, Memory(It(p)), Recorded(NoHistory, key[p], ok))
          /\ Then(p, <<Op("encode", IF ok THEN 0 ELSE It(p))>>)
    /\ UNCHANGED <<pc, graph, localVars>>

RecordMore(p) ==
    \E ok \in BOOLEAN :
        /\ Doing(p, IF ok THEN "add success" ELSE "add failure")
        /\ LET f   == Memory(It(p))
               new == ok /\ Contents(f)[key[p]].success = 0
           IN  IF ~Readable(f) THEN Die(p)
               ELSE /\ Rewrite(p, f, Recorded(Contents(f), key[p], ok))
                    /\ Then(p, <<Op(IF new THEN "encode" ELSE "scan", 0)>>)
                    /\ UNCHANGED <<pc, graph, localVars>>

(* After a failure: an item that all actions have failed for is counted,   *)
(* and the goal given up, unless the time is over anyway.                  *)
Judge(p) ==
    /\ Doing(p, "judge")
    /\ LET w == It(p)
           counted == <<Op("increment", w)>>
                        \o (IF timeout[p] THEN <<Op("reset", w)>> ELSE <<>>)
                        \o <<Op("resets", 0)>>
                        \o (IF timeout[p] THEN <<>> ELSE <<Op("free", 0)>>)
       IN  IF Garbled(Memory(w)) THEN Die(p)
           ELSE /\ Then(p, IF AllActionsInvalid(w) THEN counted ELSE <<>>)
                /\ UNCHANGED <<pc, graph, localVars, fileVars>>

(* The items whose recipes were revised get a new chance.                  *)
ResetRevised(p) ==
    /\ Doing(p, "resets")
    /\ Then(p, Each("reset", graph[p].revised))
    /\ graph' = [graph EXCEPT ![p].revised = {}]
    /\ UNCHANGED <<pc, localVars, fileVars>>

(* reset_success_failure_history looks whether there is something to keep  *)
(* and later clears what there is then.                                    *)
Reset(p) ==
    /\ Doing(p, "reset")
    /\ LET i == It(p)
       IN  IF Garbled(Memory(i)) THEN Die(p)
           ELSE /\ Then(p, IF Exists(Memory(i)) /\ Succeeded(i) = {}
                           THEN <<Op("clear", i)>> ELSE <<>>)
                /\ UNCHANGED <<pc, graph, localVars, fileVars>>

Clear(p) ==
    /\ Doing(p, "clear")
    /\ LET f == Memory(It(p))
       IN  IF ~Readable(f) THEN Die(p)
           ELSE /\ Rewrite(p, f, NoHistory)
                /\ Done(p)
                /\ UNCHANGED <<pc, graph, localVars>>

-----------------------------------------------------------------------------
(* Goals and episodes.                                                     *)

(* select_non_conflicting_goal takes an unreadable file for an empty one.  *)
Claims == IF Readable(GoalsFile) THEN Contents(GoalsFile) ELSE NoClaims

Taken == {Claims[q] : q \in Procs}

(* The first candidate no process explores, or the first of all: the best  *)
(* are shuffled, the others follow in order.                               *)
FirstChoices(g, free) ==
    LET best == {i \in Frontier(g) : \A j \in Frontier(g) : Before(g, i, j)}
    IN  IF free = {} THEN best
        ELSE IF free \intersect best # {} THEN free \intersect best
        ELSE {i \in free : \A j \in free :
                 Before(g, i, j) /\ (Before(g, j, i) => i <= j)}

Claim(p) ==
    /\ pc[p] = "selecting" /\ Idle(p)
    /\ LET g    == graph[p]
           free == Frontier(g) \ Taken
       IN  IF Frontier(g) = {} THEN Die(p)
           ELSE /\ \E i \in FirstChoices(g, free) :
                      /\ goal' = [goal EXCEPT ![p] = i]
                      /\ Rewrite(p, GoalsFile, [Claims EXCEPT ![p] = i])
                      /\ todo' = [todo EXCEPT ![p] = IF CountOf(g, i) > 1
                                                     THEN <<Op("revise", i)>> ELSE <<>>]
                /\ forced' = [forced EXCEPT ![p] = free = {}]
                /\ pc' = [pc EXCEPT ![p] = "loop"]
                /\ UNCHANGED <<graph, way, key, subgoal, timeout, have, succeeded, fails, acts>>

(* A goal chosen again after it failed is planned with another hypothesis. *)
ReviseGoal(p) ==
    /\ Doing(p, "revise")
    /\ LET g == Revise(graph[p], It(p))
       IN  /\ graph' = [graph EXCEPT ![p] = g]
           /\ Then(p, Writes(g))
    /\ UNCHANGED <<pc, localVars, fileVars>>

ForgottenByAll(p) == NoClaims

WithoutClaim(p) == [Contents(GoalsFile) EXCEPT ![p] = 0]

(* free_exploring_goal                                                     *)
Free(p) ==
    /\ Doing(p, "free")
    /\ IF ~Readable(GoalsFile) THEN Die(p)
       ELSE /\ Rewrite(p, GoalsFile, WithoutClaim(p))
            /\ goal' = [goal EXCEPT ![p] = 0]
            /\ Done(p)
            /\ UNCHANGED <<pc, graph, way, key, subgoal, timeout, have, succeeded, fails,
                           acts, forced>>

(* util/clear_exploring_goals.py, which an operator may run for a process  *)
(* that has died, takes an unreadable file for an empty one, too.          *)
ClearClaim(p) ==
    /\ pc[p] = "dead"
    /\ Replace(GoalsFile, [Claims EXCEPT ![p] = 0])
    /\ UNCHANGED progVars

EpisodesReadLeniently ==
    {IF Readable(EpisodesFile) THEN Contents(EpisodesFile) ELSE 0}

EpisodesRead == IF Readable(EpisodesFile) THEN {Contents(EpisodesFile)} ELSE {}

(* increment_num_episodes_save_memory                                      *)
CountEpisode(p) ==
    /\ pc[p] = "leaving" /\ Idle(p)
    /\ IF EpisodesRead = {} THEN Die(p)
       ELSE /\ \E n \in EpisodesRead : Rewrite(p, EpisodesFile, n + 1)
            /\ pc' = [pc EXCEPT ![p] = "ended"]
            /\ Forget(p)
            /\ UNCHANGED <<todo, acts>>

Start(p) ==
    /\ pc[p] = "off" /\ Idle(p)
    /\ pc' = [pc EXCEPT ![p] = "loop"]
    /\ todo' = [todo EXCEPT ![p] = <<Op("load", 0), Op("ready", 0), Op("encode", 0)>>]
    /\ UNCHANGED <<graph, localVars, fileVars>>

InLoop(p) == pc[p] = "loop" /\ Idle(p)

(* select_int_goal                                                         *)
Select(p) ==
    /\ InLoop(p) /\ goal[p] = 0
    /\ pc' = [pc EXCEPT ![p] = "selecting"]
    /\ todo' = [todo EXCEPT ![p] = <<Op("load", 0)>>]
    /\ subgoal' = [subgoal EXCEPT ![p] = 0]
    /\ UNCHANGED <<graph, goal, way, key, timeout, have, succeeded, fails, acts, forced, fileVars>>

(* What is read of the memory for a plan: the record of the waypoint and,  *)
(* when nothing has worked for it, those of the waypoints most like it that*)
(* had succeeded, the planner's examples.                                  *)
PlanReads(p, w) ==
    {w} \union (IF Succeeded(w) # {} THEN {} ELSE Nearest[w][succeeded[p]])

(* The embeddings a process may be writing, in place and without a lock.   *)
Encoding(q) == IF ~Doing(q, "encode") THEN {} ELSE IF It(q) = 0 THEN Items ELSE {It(q)}

(* The embeddings of all that had succeeded are compared with a waypoint   *)
(* nothing has worked for, and one may be incomplete then, or missing.     *)
MayMissEmbedding(p, w) ==
    /\ Succeeded(w) = {}
    /\ \E q \in Procs \ {p} : succeeded[p] \intersect Encoding(q) # {}

(* What the subgoal is for: the planner may name another item.             *)
Aims(w) == IF Succeeded(w) # {} THEN {w} ELSE {w} \union Strays[w]

(* make_plan: the first waypoint below the goal, and for it an action that *)
(* worked before or one the planner answers, if it answers at all.         *)
Plan(p) ==
    /\ InLoop(p) /\ goal[p] # 0 /\ subgoal[p] = 0
    /\ \E enough \in SUBSET (have[p] \ {goal[p]}) :
          IF FirstWaypoints(graph[p], goal[p], enough) = {} THEN Die(p)
          ELSE \E w \in FirstWaypoints(graph[p], goal[p], enough) :
                 IF \E i \in PlanReads(p, w) : Garbled(Memory(i)) THEN Die(p)
                 ELSE \/ MayMissEmbedding(p, w) /\ Die(p)
                      \/ \E k \in IF Succeeded(w) # {} THEN BestActions(w)
                                  ELSE PlannerAnswers(w) \union {NoPlan} :
                           /\ way' = [way EXCEPT ![p] = w]
                           /\ key' = [key EXCEPT ![p] = k]
                           /\ IF k = NoPlan
                              THEN /\ pc' = [pc EXCEPT ![p] = "over"]
                                   /\ todo' = [todo EXCEPT ![p] = <<Op("failed", w)>>]
                                   /\ UNCHANGED subgoal
                              ELSE /\ \E i \in Aims(w) : subgoal' = [subgoal EXCEPT ![p] = i]
                                   /\ UNCHANGED <<pc, todo>>
                           /\ UNCHANGED <<graph, goal, timeout, have, succeeded, fails, acts,
                                          forced, fileVars>>

Acting(p, verbs) ==
    /\ InLoop(p) /\ goal[p] # 0 /\ subgoal[p] # 0
    /\ key[p].verb \in verbs

Act(p) ==
    /\ acts > 0
    /\ acts' = acts - 1

(* The waypoint has been achieved, and the goal with it if it was that.    *)
Achieve(p) == <<Op("succeeded", way[p])>>
                  \o (IF way[p] = goal[p] THEN <<Op("free", 0)>> ELSE <<>>)

Obtain(p, i, needs) ==
    IF i \in have[p] THEN <<>>
    ELSE <<[do |-> "verify", item |-> i, needs |-> needs]>>

MoreFails(p) == [fails EXCEPT ![p][way[p]] = IF @ < FailLimit THEN @ + 1 ELSE @]

(* helper.step crafts or smelts what the subgoal is for, and what it says  *)
(* that was made of becomes its verified recipe.  If it is not the waypoint*)
(* the waypoint need not be there afterwards.                              *)
Craft(p) ==
    /\ Acting(p, {"craft", "smelt"}) /\ Act(p)
    /\ LET i   == subgoal[p]
           new == Obtain(p, i, Oracle[i].needs)
       IN  /\ Oracle[i].verb = key[p].verb /\ Oracle[i].needs \subseteq have[p]
           /\ have' = [have EXCEPT ![p] = @ \union {i}]
           /\ \/ /\ way[p] \in have[p] \union {i}
                 /\ todo' = [todo EXCEPT ![p] = new \o Achieve(p)]
                 /\ UNCHANGED fails
              \/ /\ way[p] # i
                 /\ todo' = [todo EXCEPT ![p] = new \o <<Op("failed", way[p])>>]
                 /\ fails' = MoreFails(p)
    /\ subgoal' = [subgoal EXCEPT ![p] = 0]
    /\ UNCHANGED <<pc, graph, goal, way, key, timeout, succeeded, forced, fileVars>>

(* There is no such recipe, or material is missing.  (After any other      *)
(* failure the loop just tries again.)                                     *)
CraftFails(p) ==
    /\ Acting(p, {"craft", "smelt"}) /\ Act(p)
    /\ todo' = [todo EXCEPT ![p] = <<Op("failed", way[p]), Op("judge", way[p])>>]
    /\ subgoal' = [subgoal EXCEPT ![p] = 0]
    /\ fails' = MoreFails(p)
    /\ pc' = [pc EXCEPT ![p] = IF fails'[p][way[p]] >= FailLimit THEN "over" ELSE @]
    /\ UNCHANGED <<graph, goal, way, key, timeout, have, succeeded, forced, fileVars>>

(* A new item appears in the inventory while mining, which is recorded to  *)
(* require the best pickaxe at hand.                                       *)
Collect(p) ==
    /\ Acting(p, {"mine"})
    /\ \E i \in Items \ have[p] :
          /\ Oracle[i].verb = "mine"
          /\ \E tool \in SUBSET (have[p] \intersect Pickaxes) :
                /\ Cardinality(tool) <= 1
                /\ have[p] \intersect Pickaxes # {} => tool # {}
                /\ todo' = [todo EXCEPT ![p] = Obtain(p, i, tool)]
          /\ have' = [have EXCEPT ![p] = @ \union {i}]
    /\ UNCHANGED <<pc, graph, goal, way, key, subgoal, timeout, succeeded, fails, acts,
                   forced, fileVars>>

(* The subgoal is finished, whether or not that is the waypoint.           *)
Mine(p) ==
    /\ Acting(p, {"mine"}) /\ Act(p)
    /\ \/ /\ way[p] \in have[p]
          /\ todo' = [todo EXCEPT ![p] = Achieve(p)]
          /\ UNCHANGED fails
       \/ /\ todo' = [todo EXCEPT ![p] = <<Op("failed", way[p])>>]
          /\ fails' = MoreFails(p)
    /\ subgoal' = [subgoal EXCEPT ![p] = 0]
    /\ UNCHANGED <<pc, graph, goal, way, key, timeout, have, succeeded, forced, fileVars>>

(* The time of the episode is over: the current action has failed.         *)
TimeOut(p) ==
    /\ Acting(p, Verbs)
    /\ pc' = [pc EXCEPT ![p] = "over"]
    /\ timeout' = [timeout EXCEPT ![p] = TRUE]
    /\ todo' = [todo EXCEPT ![p] = <<Op("failed", way[p]), Op("judge", way[p])>>]
    /\ UNCHANGED <<graph, goal, way, key, subgoal, have, succeeded, fails, acts, forced, fileVars>>

(* An exception in the log of the Minecraft process ends this one.         *)
MalmoError(p) ==
    /\ \/ Acting(p, Verbs)
       \/ pc[p] = "over" /\ Idle(p) /\ ~timeout[p]
    /\ Die(p)

(* The end of exploration_do.                                              *)
Finish(p) ==
    /\ pc[p] = "over" /\ Idle(p)
    /\ pc' = [pc EXCEPT ![p] = "leaving"]
    /\ todo' = [todo EXCEPT ![p] = <<Op("free", 0)>>]
    /\ UNCHANGED <<graph, localVars, fileVars>>

-----------------------------------------------------------------------------
Init ==
    /\ \E s \in Starts : disk = s.disk /\ acts = s.acts
    /\ pending = [p \in Procs |-> <<>>]
    /\ disturbed = {}
    /\ pc = [p \in Procs |-> "off"]
    /\ todo = [p \in Procs |-> <<>>]
    /\ graph = [p \in Procs |-> NoGraph]
    /\ goal = [p \in Procs |-> 0]
    /\ way = [p \in Procs |-> 0]
    /\ key = [p \in Procs |-> NoPlan]
    /\ subgoal = [p \in Procs |-> 0]
    /\ timeout = [p \in Procs |-> FALSE]
    /\ have = [p \in Procs |-> {}]
    /\ succeeded = [p \in Procs |-> {}]
    /\ fails = [p \in Procs |-> [i \in Items |-> 0]]
    /\ forced = [p \in Procs |-> FALSE]

Close(p) == CloseFile(p) /\ UNCHANGED progVars

RecipeStep(p) ==
    \/ Load(p) \/ Ready(p)
    \/ SaveVerified(p) \/ StoreVerified(p) \/ CreateVerified(p) \/ MergeVerified(p)
    \/ MarkResource(p) \/ WriteHypothesis(p) \/ Fail(p) \/ Increment(p) \/ CountUp(p)

MemoryStep(p) ==
    \/ Scan(p) \/ Record(p) \/ RecordFirst(p) \/ RecordMore(p)
    \/ Judge(p) \/ ResetRevised(p) \/ Reset(p) \/ Clear(p)

GoalStep(p) ==
    Claim(p) \/ ReviseGoal(p) \/ Free(p) \/ ClearClaim(p) \/ CountEpisode(p)

EpisodeStep(p) ==
    \/ Start(p) \/ Select(p) \/ Plan(p) \/ Craft(p) \/ CraftFails(p)
    \/ Collect(p) \/ Mine(p) \/ TimeOut(p) \/ MalmoError(p) \/ Finish(p)

Next ==
    \E p \in Procs : Close(p) \/ RecipeStep(p) \/ MemoryStep(p)
                        \/ GoalStep(p) \/ EpisodeStep(p)

Spec == Init /\ [][Next]_vars

-----------------------------------------------------------------------------
(* Every variable has the shape the code gives it.                         *)
OpNames == {"load", "ready", "scan", "encode", "verify", "store", "create", "merge", "mark",
            "write", "fail", "increment", "count", "succeeded", "failed",
            "first success", "first failure", "add success", "add failure",
            "judge", "resets", "reset", "clear", "revise", "free"}

Ops == [do : OpNames, item : Items \union {0}, needs : SUBSET Items]

TypeOK ==
    /\ \A f \in Files : disk[f] \in {Missing, Empty, Torn}
                                        \union [state : {"whole"}, data : DataOf(f)]
    /\ \A p \in Procs :
          \/ Quiet(p)
          \/ \E f \in Files : pending[p] \in {f} \X DataOf(f)
    /\ disturbed \subseteq Files
    /\ pc \in [Procs -> {"off", "loop", "selecting", "over", "leaving", "ended", "dead"}]
    /\ \A p \in Procs : todo[p] \in Seq(Ops)
    /\ graph \in [Procs -> Graph]
    /\ goal \in [Procs -> Items \union {0}]
    /\ way \in [Procs -> Items \union {0}]
    /\ key \in [Procs -> Keys]
    /\ subgoal \in [Procs -> Items \union {0}] /\ timeout \in [Procs -> BOOLEAN]
    /\ have \in [Procs -> SUBSET Items] /\ succeeded \in [Procs -> SUBSET Items]
    /\ fails \in [Procs -> [Items -> 0..FailLimit]]
    /\ acts \in Nat
    /\ forced \in [Procs -> BOOLEAN]

(* What a file says, or will when it is closed.                            *)
Arriving(f) == IF Writers(f) = {} THEN {Contents(f)} ELSE {Dumped(p) : p \in Writers(f)}

Alive(p) == pc[p] # "dead"

(* The claims in the file are the goals the processes pursue: a process    *)
(* that has ended holds none.  One that has died holds its last until an   *)
(* operator clears it.                                                     *)
ClaimsHeld ==
    \A claims \in Arriving(GoalsFile) :
        \A p \in Procs : Alive(p) => claims[p] = goal[p]

(* Two processes explore one goal only when the later had no choice.       *)
NoConflict ==
    \A p, q \in Procs :
        p # q /\ Alive(p) /\ Alive(q) /\ goal[p] # 0 /\ goal[p] = goal[q] =>
            forced[p] \/ forced[q]

(* Goals are shared out without conflict, as long as no process chose its  *)
(* goal while another's claim was still to be closed.                      *)
ClaimsKept == GoalsFile \notin disturbed => ClaimsHeld /\ NoConflict

(* The count is that of the processes that have ended: none of them is left*)
(* out or counted twice.  A process that would read an unclosed file dies  *)
(* instead, and its own episode is not counted.                            *)
EpisodesCounted ==
    Arriving(EpisodesFile) = {Cardinality({p \in Procs : pc[p] = "ended"})}

(* When a goal is chosen no unverified item depends on itself.             *)
CandidatesAcyclic ==
    \A p \in Procs : pc[p] = "selecting" /\ Idle(p) =>
        \A i \in graph[p].hypothesized : ~OnCycle(graph[p].needs, i)

(* When a count makes an item inadmissible, nothing unverified is planned  *)
(* with it after that step, unless a verified recipe speaks for it or an   *)
(* exception broke the revision off.  (Files may bring it back.)           *)
CutOff(g, i) ==
    \/ g.broken \/ g.count[i] <= Threshold \/ i \in g.resources
    \/ \E v \in g.verified : i \in g.needs[v]
    \/ Children(g, i) = {}

InadmissibleCutOff == [][\A p \in Procs : CountUp(p) => CutOff(graph'[p], It(p))]_vars
=============================================================================
