---------------------------- MODULE RecipeGraph ----------------------------
(***************************************************************************)
(* The dependency graph of recipes one exploring process holds in memory   *)
(* (src/src/optimus1/memories/hypothesized_recipe_graph.py), as operators: *)
(* what is loaded from the recipe files, which cycles are cut, which items *)
(* are the frontier, how a hypothesis is revised and how an item found     *)
(* inadmissible is cut off from what was planned with it.                  *)
(*                                                                         *)
(* Items are numbered in the order of their names, in which the code goes  *)
(* through them.  Quantities are left out: a recipe is the set of items it *)
(* needs, the required pickaxe included.  That one recipe needs another    *)
(* item, however far down, is stated over the sets closed under needs, so  *)
(* that nothing here is recursive but the propagation, a function.         *)
(***************************************************************************)
EXTENDS Integers, FiniteSets, SequencesExt

CONSTANTS
    N,          \* the items are 1..N
    Nearest,    \* the items whose names are closest to an item's, out of a
                \* set of items (the topK of them)
    Threshold,  \* inadmissible_threshold (3)
    CountCap    \* bound: exploration counts above it are not told apart

Items == 1..N

ASSUME GraphAssumption ==
    /\ N \in Nat
    /\ Nearest \in [Items -> [SUBSET Items -> SUBSET Items]]
    /\ \A i \in Items : \A V \in SUBSET Items : Nearest[i][V] \subseteq V
    /\ Threshold \in Nat /\ CountCap \in Nat
    /\ Threshold < CountCap /\ 1 < CountCap

Needs == [Items -> SUBSET Items]

(* self.graph and the lists kept beside it.  An item that is neither       *)
(* verified nor hypothesized is not in the graph; count 0 is no count.     *)
(* broken: an exception ended the call that was changing the graph.        *)
Graph == [verified : SUBSET Items, hypothesized : SUBSET Items,
          resources : SUBSET Items, needs : Needs, count : [Items -> 0..CountCap],
          revised : SUBSET Items, broken : BOOLEAN]

NoGraph == [verified |-> {}, hypothesized |-> {}, resources |-> {},
            needs |-> [i \in Items |-> {}], count |-> [i \in Items |-> 0],
            revised |-> {}, broken |-> FALSE]

-----------------------------------------------------------------------------
(* A set with a contains all that a depends on when it is closed.          *)
Closed(needs, S) == \A i \in S : needs[i] \subseteq S

(* b is a, or an ingredient of a, or of an ingredient of a, ...            *)
Depends(needs, a, b) ==
    \A S \in SUBSET Items : a \in S /\ Closed(needs, S) => b \in S

OnCycle(needs, i) == \E d \in needs[i] : Depends(needs, d, i)

Without(needs, C) == [i \in Items |-> IF i \in C THEN {} ELSE needs[i]]

ClearedLoops(needs, open) == {i \in open : i \in needs[i]}

(* _sanitize_dependency_cycles: the items whose requirements are dropped.  *)
(* One item is looked at after another, and what was dropped before does   *)
(* not count any more.                                                     *)
Cleared(needs, open) ==
    CHOOSE C \in SUBSET open :
        \A i \in open :
            i \in C <=> OnCycle(Without(needs, {j \in C : j < i}), i)

(* load_and_init_all_recipes, out of recipe files: a verified recipe hides *)
(* the hypothesized one of the same item.                                  *)
Loaded(verified, resources, needsV, hypothesized, needsH, countH) ==
    LET open  == hypothesized \ verified
        needs == [i \in Items |-> IF i \in verified THEN needsV[i]
                                  ELSE IF i \in open THEN needsH[i] ELSE {}]
    IN  [verified |-> verified, hypothesized |-> open, resources |-> resources,
         needs |-> Without(needs, Cleared(needs, open)),
         count |-> [i \in Items |-> IF i \in open THEN countH[i] ELSE 0],
         revised |-> {}, broken |-> FALSE]

(* _load_hypothesized_recipes alone, as increment_count calls it: the      *)
(* recipes of the files take the place of the ones in memory, and nothing  *)
(* is sanitized.                                                           *)
Reloaded(g, hypothesized, needsH, countH) ==
    LET fresh == hypothesized \ g.verified
    IN  [g EXCEPT
            !.hypothesized = @ \union fresh,
            !.needs = [i \in Items |-> IF i \in fresh THEN needsH[i] ELSE @[i]],
            !.count = [i \in Items |-> IF i \in fresh THEN countH[i] ELSE @[i]]]

-----------------------------------------------------------------------------
(* find_frontiers: the hypothesized items whose ingredients are verified.  *)
Frontier(g) == {i \in g.hypothesized : g.needs[i] \subseteq g.verified}

ItemsBelow(needs, i) == {b \in Items : Depends(needs, i, b)}

(* The length of the path compile() orders for an item: what depends on a  *)
(* cycle is never ordered.                                                 *)
Level(g, i) ==
    Cardinality({b \in ItemsBelow(g.needs, i) :
                    \A c \in ItemsBelow(g.needs, b) : ~OnCycle(g.needs, c)})

CountOf(g, i) == IF g.count[i] < 1 THEN 1 ELSE g.count[i]

(* feasibility_min_count_frontier tries the least explored frontier item   *)
(* first, and of these the one with the shortest path.                     *)
Before(g, i, j) ==
    \/ CountOf(g, i) < CountOf(g, j)
    \/ CountOf(g, i) = CountOf(g, j) /\ Level(g, i) <= Level(g, j)

(* retrieve_waypoints and the first line of its answer: an item below the  *)
(* goal nothing more is needed for, given what the agent has enough of.    *)
(* With a cycle below the goal there may be none.                          *)
FirstWaypoints(g, goal, enough) ==
    LET unmet == [i \in Items |-> g.needs[i] \ enough]
    IN  {b \in ItemsBelow(unmet, goal) : unmet[b] = {}}

-----------------------------------------------------------------------------
Bump(c) == IF c < CountCap THEN c + 1 ELSE c

Admissible(g, i) == g.count[i] <= Threshold

(* The requirements update_hypothesis gives an item: of the verified items *)
(* most like it, or any resource at all for an inadmissible one.           *)
Guess(g, i) ==
    IF Admissible(g, i)
    THEN UNION {g.needs[v] : v \in Nearest[i][g.verified]}
    ELSE g.resources

(* find_top_similar_verified_items fails with no verified item to compare  *)
(* with, and with a single one, whose squeezed score has no dimension.     *)
CannotGuess(g, i) == Admissible(g, i) /\ Cardinality(g.verified) <= 1

(* update_hypothesis; the files are written by what follows.               *)
Revise(g, i) ==
    IF g.broken \/ i \in g.verified \/ g.count[i] <= 1 THEN g
    ELSE IF CannotGuess(g, i) THEN [g EXCEPT !.broken = TRUE]
    ELSE [g EXCEPT !.needs[i] = Guess(g, i), !.revised = @ \union {i}]

(* The unverified items that need an item.                                 *)
Children(g, i) == {c \in g.hypothesized : i \in g.needs[c]}

ReviseOnly(g, c) == Revise(g, c)

BumpAndRevise(g, c) ==
    Revise([g EXCEPT !.count[c] = Bump(IF @ < 1 THEN 1 ELSE @)], c)

First(S) == CHOOSE i \in S : \A j \in S : i <= j

(* What a call of spread_inadmissible has still to do in its loop over the *)
(* children it found, and the items whose calls are in progress.           *)
Calls == [graph : Graph, children : SUBSET Items, visited : SUBSET Items]

(* The children are revised in the order of their names, each followed by  *)
(* its own children, unless its call is in progress already.               *)
Spread[call \in Calls] ==
    IF call.children = {} THEN call.graph
    ELSE LET c == First(call.children)
             h == BumpAndRevise(call.graph, c)
             below == [graph |-> h, children |-> Children(h, c),
                       visited |-> call.visited \union {c}]
         IN  Spread[[graph |-> IF c \in call.visited THEN h ELSE Spread[below],
                     children |-> call.children \ {c}, visited |-> call.visited]]

SpreadInadmissible(g, i) ==
    Spread[[graph |-> g, children |-> Children(g, i), visited |-> {i}]]

(* The part of increment_count after the recipes have been read again.     *)
Incremented(g, i) ==
    LET counted == [g EXCEPT !.count[i] = Bump(IF @ < 1 THEN 1 ELSE @),
                             !.revised = {}]
        revised == Revise(counted, i)
    IN  IF counted.count[i] > Threshold THEN SpreadInadmissible(revised, i) ELSE revised
=============================================================================
