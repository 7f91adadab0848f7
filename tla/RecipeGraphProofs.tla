------------------------- MODULE RecipeGraphProofs -------------------------
(***************************************************************************)
(* What clearing and propagation achieve, for every set of recipes: the    *)
(* set of items to clear exists, and once their requirements are dropped   *)
(* no unverified item depends on itself; the propagation ends, and leaves  *)
(* nothing unverified that needs an inadmissible item.                     *)
(***************************************************************************)
EXTENDS RecipeGraph, WellFoundedInduction, FiniteSetTheorems, TLAPS

(* Every non-empty set of natural numbers has a least one.                 *)
LEMMA LeastNatural ==
    ASSUME NEW S \in SUBSET Nat, S # {}
    PROVE  \E m \in S : \A k \in S : m <= k
<1>1. \E x \in S : \A y \in S : ~(<<y, x>> \in OpToRel(<, Nat))
  BY NatLessThanWellFounded, WFMin
<1>2. PICK m \in S : \A y \in S : ~(<<y, m>> \in OpToRel(<, Nat))
  BY <1>1
<1>3. \A y \in S : ~(y < m)
  BY <1>2 DEF OpToRel
<1> QED
  BY <1>3

LEMMA NumberOfItems == N \in Nat /\ Items \subseteq Nat
<1>1. N \in Nat
  BY GraphAssumption
<1> QED
  BY <1>1 DEF Items

LEMMA FirstIsOne ==
    ASSUME NEW S \in SUBSET Items, S # {}
    PROVE  First(S) \in S /\ \A j \in S : First(S) <= j
<1>1. S \in SUBSET Nat
  BY NumberOfItems
<1>2. \E m \in S : \A k \in S : m <= k
  BY <1>1, LeastNatural
<1> QED
  BY <1>2 DEF First

-----------------------------------------------------------------------------
(* C is what is cleared among the open items up to n, one after another.   *)
ClearedUpTo(needs, open, C, n) ==
    \A i \in open : i <= n =>
        (i \in C <=> OnCycle(Without(needs, {j \in C : j < i}), i))

(* What depends on an item with fewer needs depends on it with more.       *)
LEMMA FewerNeeds ==
    ASSUME NEW few, NEW many,
           \A i \in Items : few[i] \subseteq many[i],
           NEW i \in Items, OnCycle(few, i)
    PROVE  OnCycle(many, i)
<1>1. PICK d \in few[i] : Depends(few, d, i)
  BY DEF OnCycle
<1>2. \A S \in SUBSET Items : Closed(many, S) => Closed(few, S)
  BY DEF Closed
<1>3. Depends(many, d, i)
  BY <1>1, <1>2 DEF Depends
<1> QED
  BY <1>1, <1>3 DEF OnCycle

(* Requirements are dropped as a whole, and of the named items only.       *)
LEMMA WithoutAt ==
    ASSUME NEW needs, NEW C
    PROVE  \A i \in Items : Without(needs, C)[i] = IF i \in C THEN {} ELSE needs[i]
BY DEF Without

(* The items to clear can be found for any number of them.                 *)
LEMMA ClearingExists ==
    ASSUME NEW needs, NEW open \in SUBSET Items, NEW n \in Nat
    PROVE  \E C \in SUBSET {i \in open : i <= n} : ClearedUpTo(needs, open, C, n)
<1> DEFINE Bad == {m \in Nat : ~\E C \in SUBSET {i \in open : i <= m} :
                                  ClearedUpTo(needs, open, C, m)}
<1>1. SUFFICES ASSUME Bad # {} PROVE FALSE
  OBVIOUS
<1>2. PICK m \in Bad : \A k \in Bad : ~(k < m)
  <2>1. \E m \in Bad : \A k \in Bad : m <= k
    BY <1>1, LeastNatural
  <2> QED
    BY <2>1
<1>3. CASE m = 0
  <2>1. ClearedUpTo(needs, open, {}, 0)
    BY DEF ClearedUpTo, Items
  <2> QED
    BY <1>2, <1>3, <2>1
<1>4. CASE m > 0
  <2>1. m - 1 \in Nat /\ m - 1 \notin Bad
    BY <1>2, <1>4
  <2>2. PICK C \in SUBSET {i \in open : i <= m - 1} : ClearedUpTo(needs, open, C, m - 1)
    BY <2>1
  <2> DEFINE D == IF m \in open /\ OnCycle(Without(needs, {j \in C : j < m}), m)
                  THEN C \union {m} ELSE C
  <2>3. D \in SUBSET {i \in open : i <= m}
    BY <1>2, <2>2 DEF Items
  <2>4. \A i \in open : i <= m => {j \in D : j < i} = {j \in C : j < i}
    BY <1>2, <2>2 DEF Items
  <2>5. ClearedUpTo(needs, open, D, m)
    <3> SUFFICES ASSUME NEW i \in open, i <= m
                 PROVE  i \in D <=> OnCycle(Without(needs, {j \in D : j < i}), i)
      BY DEF ClearedUpTo
    <3>1. {j \in D : j < i} = {j \in C : j < i}
      BY <2>4
    <3>2. CASE i = m
      <4>1. m \notin C
        BY <1>2, <2>2 DEF Items
      <4>2. m \in D <=> OnCycle(Without(needs, {j \in C : j < m}), m)
        BY <3>2, <4>1
      <4> QED
        BY <3>1, <3>2, <4>2
    <3>3. CASE i < m
      <4>1. i <= m - 1 /\ (i \in D <=> i \in C)
        BY <1>2, <3>3 DEF Items
      <4> QED
        BY <2>2, <3>1, <4>1 DEF ClearedUpTo
    <3> QED
      BY <1>2, <3>2, <3>3 DEF Items
  <2> QED
    BY <1>2, <2>3, <2>5
<1> QED
  BY <1>2, <1>3, <1>4

(* _sanitize_dependency_cycles leaves no unverified item that depends on   *)
(* itself, however the recipes it is given need each other.                *)
THEOREM ClearedIsAcyclic ==
    ASSUME NEW needs, NEW open \in SUBSET Items, NEW i \in open
    PROVE  /\ Cleared(needs, open) \in SUBSET open
           /\ ~OnCycle(Without(needs, Cleared(needs, open)), i)
<1> DEFINE C == Cleared(needs, open)
<1>0. N \in Nat
  BY GraphAssumption
<1>1. /\ C \in SUBSET open
      /\ \A k \in open : k \in C <=> OnCycle(Without(needs, {j \in C : j < k}), k)
  <2>1. PICK B \in SUBSET {k \in open : k <= N} : ClearedUpTo(needs, open, B, N)
    BY ClearingExists, <1>0
  <2>2. \A k \in open : k <= N
    BY <1>0 DEF Items
  <2>3. /\ B \in SUBSET open
        /\ \A k \in open : k \in B <=> OnCycle(Without(needs, {j \in B : j < k}), k)
    BY <2>1, <2>2 DEF ClearedUpTo
  <2> QED
    BY <2>3 DEF Cleared
<1> HIDE DEF C
<1>2. ASSUME i \in C
      PROVE  ~OnCycle(Without(needs, C), i)
  BY <1>2, WithoutAt DEF OnCycle
<1>3. ASSUME i \notin C
      PROVE  ~OnCycle(Without(needs, C), i)
  <2>1. \A k \in Items : Without(needs, C)[k] \subseteq Without(needs, {j \in C : j < i})[k]
    BY WithoutAt
  <2>2. OnCycle(Without(needs, C), i) => OnCycle(Without(needs, {j \in C : j < i}), i)
    BY <2>1, WithoutAt, FewerNeeds
  <2> QED
    BY <1>1, <1>3, <2>2
<1> QED
  BY <1>1, <1>2, <1>3 DEF C

(* What a process loads is such a graph, whatever is in the files.         *)
THEOREM LoadedIsAcyclic ==
    ASSUME NEW verified \in SUBSET Items, NEW hypothesized \in SUBSET Items,
           NEW resources, NEW needsV, NEW needsH, NEW countH,
           NEW g, g = Loaded(verified, resources, needsV, hypothesized, needsH, countH)
    PROVE  \A i \in g.hypothesized : ~OnCycle(g.needs, i)
<1> DEFINE open == hypothesized \ verified
           needs == [i \in Items |-> IF i \in verified THEN needsV[i]
                                     ELSE IF i \in open THEN needsH[i] ELSE {}]
<1>1. g.hypothesized = open /\ g.needs = Without(needs, Cleared(needs, open))
  BY DEF Loaded
<1> HIDE DEF needs
<1>2. \A i \in open : ~OnCycle(Without(needs, Cleared(needs, open)), i)
  BY ClearedIsAcyclic
<1> QED
  BY <1>1, <1>2

-----------------------------------------------------------------------------
LEMMA ItemsFinite ==
    /\ IsFiniteSet(Items) /\ Cardinality(Items) = N
    /\ \A S \in SUBSET Items : IsFiniteSet(S) /\ Cardinality(S) \in 0..N
<1>1. IsFiniteSet(Items) /\ Cardinality(Items) = N
  BY NumberOfItems, FS_Interval DEF Items
<1>2. ASSUME NEW S \in SUBSET Items
      PROVE  IsFiniteSet(S) /\ Cardinality(S) \in 0..N
  <2>1. IsFiniteSet(S) /\ Cardinality(S) <= N
    BY <1>1, FS_Subset
  <2>2. Cardinality(S) \in Nat
    BY <2>1, FS_CardinalityType
  <2> QED
    BY <2>1, <2>2, NumberOfItems
<1> QED
  BY <1>1, <1>2

(* A call is below another if it has fewer items left to visit, or as many *)
(* and fewer children to go through.                                       *)
Rank(children, visited) ==
    Cardinality(Items \ visited) * (N + 1) + Cardinality(children)

(* Multiplying out, for the solver.                                        *)
LEMMA OneLess ==
    ASSUME NEW a \in Int, NEW b \in Int
    PROVE  (a - 1) * b = a * b - b
BY SMTT(30)

LEMMA RankFalls ==
    ASSUME NEW children \in SUBSET Items, NEW visited \in SUBSET Items
    PROVE  /\ Rank(children, visited) \in Nat
           /\ \A c \in children : Rank(children \ {c}, visited) < Rank(children, visited)
           /\ \A c \in Items \ visited, D \in SUBSET Items :
                 Rank(D, visited \union {c}) < Rank(children, visited)
<1> DEFINE left == Cardinality(Items \ visited)
<1>0. N \in Nat /\ left \in 0..N /\ Cardinality(children) \in 0..N
  BY ItemsFinite, NumberOfItems
<1>1. left * (N + 1) \in Nat
  BY <1>0
<1>2. Rank(children, visited) \in Nat
  BY <1>0, <1>1 DEF Rank
<1>3. ASSUME NEW c \in children
      PROVE  Rank(children \ {c}, visited) < Rank(children, visited)
  <2>1. Cardinality(children \ {c}) = Cardinality(children) - 1
    BY ItemsFinite, FS_RemoveElement
  <2> QED
    BY <1>0, <1>1, <2>1 DEF Rank
<1>4. ASSUME NEW c \in Items \ visited, NEW D \in SUBSET Items
      PROVE  Rank(D, visited \union {c}) < Rank(children, visited)
  <2>1. Items \ (visited \union {c}) = (Items \ visited) \ {c}
    OBVIOUS
  <2>2. Cardinality(Items \ (visited \union {c})) = left - 1
    <3> DEFINE rest == Items \ visited
    <3>1. IsFiniteSet(rest) /\ c \in rest
      BY ItemsFinite
    <3> HIDE DEF rest
    <3>2. Cardinality(rest \ {c}) = Cardinality(rest) - 1
      BY <3>1, FS_RemoveElement
    <3> QED
      BY <2>1, <3>2 DEF rest
  <2>3. Cardinality(D) \in 0..N
    BY ItemsFinite
  <2> HIDE DEF left
  <2>4. (left - 1) * (N + 1) = left * (N + 1) - (N + 1)
    <3>1. left \in Int /\ N + 1 \in Int
      BY <1>0
    <3> QED
      BY <3>1, OneLess
  <2> QED
    BY <1>0, <1>1, <2>2, <2>3, <2>4 DEF Rank, left
<1> QED
  BY <1>2, <1>3, <1>4

-----------------------------------------------------------------------------
(* What an item may be revised to need, whatever its own recipe was.       *)
Stock(g) == g.resources \union UNION {g.needs[v] : v \in g.verified}

(* h is a graph that g may have become by revisions.                       *)
Keeps(g, h) ==
    /\ h \in Graph
    /\ h.verified = g.verified /\ h.hypothesized = g.hypothesized
    /\ h.resources = g.resources
    /\ \A v \in g.verified : h.needs[v] = g.needs[v]
    /\ \A i \in Items : h.needs[i] \subseteq g.needs[i] \union Stock(g)
    /\ g.broken => h.broken

(* The items of C have been revised, but for verified ones.                *)
Settled(g, h, C) ==
    h.broken \/ \A c \in C \ g.verified : h.needs[c] \subseteq Stock(g)

LEMMA KeepsStock ==
    ASSUME NEW g \in Graph, NEW h, Keeps(g, h)
    PROVE  Stock(h) = Stock(g)
BY DEF Keeps, Stock, Graph

LEMMA KeepsTransitive ==
    ASSUME NEW f \in Graph, NEW g, NEW h, Keeps(f, g), Keeps(g, h)
    PROVE  /\ Keeps(f, h)
           /\ \A C \in SUBSET Items : Settled(f, g, C) => Settled(f, h, C)
           /\ \A C \in SUBSET Items : Settled(g, h, C) => Settled(f, h, C)
<1>1. Stock(g) = Stock(f)
  BY KeepsStock
<1>2. f \in Graph /\ g \in Graph /\ h \in Graph
  BY DEF Keeps
<1>3. Keeps(f, h)
  BY <1>1 DEF Keeps
<1>4. ASSUME NEW C \in SUBSET Items, Settled(f, g, C)
      PROVE  Settled(f, h, C)
  BY <1>1, <1>4 DEF Keeps, Settled
<1>5. ASSUME NEW C \in SUBSET Items, Settled(g, h, C)
      PROVE  Settled(f, h, C)
  BY <1>1, <1>5 DEF Keeps, Settled
<1> QED
  BY <1>3, <1>4, <1>5

LEMMA BumpBounds ==
    ASSUME NEW c \in 0..CountCap
    PROVE  /\ Bump(c) \in 0..CountCap
           /\ c >= 1 => Bump(c) > 1
<1>1. CountCap \in Nat /\ 1 < CountCap
  BY GraphAssumption
<1> QED
  BY <1>1 DEF Bump

LEMMA GuessInStock ==
    ASSUME NEW g \in Graph, NEW i \in Items
    PROVE  Guess(g, i) \subseteq Stock(g) /\ Guess(g, i) \subseteq Items
<1>1. Nearest[i][g.verified] \subseteq g.verified
  <2>1. g.verified \in SUBSET Items
    BY DEF Graph
  <2> QED
    BY <2>1, GraphAssumption
<1>2. /\ g.verified \subseteq Items /\ g.resources \subseteq Items
      /\ \A v \in Items : g.needs[v] \subseteq Items
  BY DEF Graph, Needs
<1> QED
  BY <1>1, <1>2 DEF Guess, Stock

LEMMA ReviseKeeps ==
    ASSUME NEW g \in Graph, NEW i \in Items
    PROVE  /\ Keeps(g, Revise(g, i))
           /\ g.count[i] > 1 => Settled(g, Revise(g, i), {i})
<1> DEFINE h == Revise(g, i)
<1>1. Keeps(g, g)
  BY DEF Keeps, Graph
<1>2. CASE g.broken \/ i \in g.verified \/ g.count[i] <= 1
  <2>1. h = g
    BY <1>2 DEF Revise
  <2>2. g.count[i] > 1 => g.broken \/ i \in g.verified
    BY <1>2 DEF Graph
  <2> QED
    BY <1>1, <2>1, <2>2 DEF Settled
<1>3. CASE ~(g.broken \/ i \in g.verified \/ g.count[i] <= 1) /\ CannotGuess(g, i)
  <2>1. h = [g EXCEPT !.broken = TRUE]
    BY <1>3 DEF Revise
  <2>2. h \in Graph /\ h.broken
    BY <2>1 DEF Graph
  <2> QED
    BY <2>1, <2>2 DEF Keeps, Settled, Graph
<1>4. CASE ~(g.broken \/ i \in g.verified \/ g.count[i] <= 1) /\ ~CannotGuess(g, i)
  <2>1. h = [g EXCEPT !.needs[i] = Guess(g, i), !.revised = @ \union {i}]
    BY <1>4 DEF Revise
  <2>2. Guess(g, i) \subseteq Stock(g) /\ Guess(g, i) \in SUBSET Items
    BY GuessInStock
  <2> DEFINE n == [g.needs EXCEPT ![i] = Guess(g, i)]
             r == g.revised \union {i}
  <2>3. h \in Graph
    <3>1. n \in Needs /\ r \in SUBSET Items
      BY <2>2 DEF Graph, Needs
    <3>2. h = [g EXCEPT !.needs = n, !.revised = r]
      BY <2>1 DEF Graph
    <3> HIDE DEF h, n, r
    <3> QED
      BY <3>1, <3>2 DEF Graph
  <2>4. /\ h.verified = g.verified /\ h.hypothesized = g.hypothesized
        /\ h.resources = g.resources /\ h.broken = g.broken
        /\ h.needs = [g.needs EXCEPT ![i] = Guess(g, i)]
    BY <2>1 DEF Graph
  <2>5. \A j \in Items : h.needs[j] = IF j = i THEN Guess(g, i) ELSE g.needs[j]
    BY <2>4 DEF Graph, Needs
  <2>6. g.verified \subseteq Items
    BY DEF Graph
  <2> QED
    BY <1>4, <2>2, <2>3, <2>4, <2>5, <2>6 DEF Keeps, Settled
<1> QED
  BY <1>2, <1>3, <1>4

LEMMA CountKeeps ==
    ASSUME NEW g \in Graph, NEW i \in Items,
           NEW h, h = [g EXCEPT !.count[i] = Bump(IF @ < 1 THEN 1 ELSE @)]
    PROVE  Keeps(g, h) /\ h.count[i] > 1
<1> DEFINE b == Bump(IF g.count[i] < 1 THEN 1 ELSE g.count[i])
<1>1. g.count[i] \in 0..CountCap /\ 1 \in 0..CountCap
  BY GraphAssumption DEF Graph
<1>2. b \in 0..CountCap /\ b > 1
  BY <1>1, BumpBounds
<1> HIDE DEF b
<1>3. h = [g EXCEPT !.count = [g.count EXCEPT ![i] = b]]
  BY DEF b
<1>4. h \in Graph /\ h.count[i] = b
  BY <1>2, <1>3 DEF Graph
<1> QED
  BY <1>2, <1>3, <1>4 DEF Keeps, Graph

LEMMA BumpAndReviseKeeps ==
    ASSUME NEW g \in Graph, NEW c \in Items
    PROVE  /\ Keeps(g, BumpAndRevise(g, c))
           /\ Settled(g, BumpAndRevise(g, c), {c})
<1> DEFINE k == [g EXCEPT !.count[c] = Bump(IF @ < 1 THEN 1 ELSE @)]
<1>1. Keeps(g, k) /\ k.count[c] > 1
  BY CountKeeps
<1>2. BumpAndRevise(g, c) = Revise(k, c)
  BY DEF BumpAndRevise
<1> HIDE DEF k
<1>3. Keeps(k, Revise(k, c)) /\ Settled(k, Revise(k, c), {c})
  BY <1>1, ReviseKeeps DEF Keeps
<1> QED
  BY <1>1, <1>2, <1>3, KeepsTransitive

-----------------------------------------------------------------------------
(* Spread is a recursive function: that there is one, and that it returns  *)
(* a graph, is shown by induction on the rank of its calls.                *)
RankOf(call) == Rank(call.children, call.visited)

Below(call) ==
    LET c == First(call.children)
        h == BumpAndRevise(call.graph, c)
    IN  [graph |-> h, children |-> Children(h, c), visited |-> call.visited \union {c}]

Rest(f, call) ==
    LET c == First(call.children)
    IN  [graph |-> IF c \in call.visited THEN BumpAndRevise(call.graph, c)
                   ELSE f[Below(call)],
         children |-> call.children \ {c}, visited |-> call.visited]

(* One turn of the loop, the inner calls being answered by f.              *)
Turn(f, call) == IF call.children = {} THEN call.graph ELSE f[Rest(f, call)]

LEMMA BelowIsBelow ==
    ASSUME NEW call \in Calls, call.children # {}, First(call.children) \notin call.visited
    PROVE  Below(call) \in Calls /\ RankOf(Below(call)) < RankOf(call)
<1> DEFINE c == First(call.children)
           h == BumpAndRevise(call.graph, c)
<1>1. /\ call.graph \in Graph /\ call.children \in SUBSET Items
      /\ call.visited \in SUBSET Items /\ c \in Items
  BY FirstIsOne DEF Calls
<1>2. h \in Graph
  BY <1>1, BumpAndReviseKeeps DEF Keeps
<1>3. /\ Children(h, c) \in SUBSET Items
      /\ call.visited \union {c} \in SUBSET Items
  BY <1>1, <1>2 DEF Children, Graph
<1>4. /\ Below(call).graph = h /\ Below(call).children = Children(h, c)
      /\ Below(call).visited = call.visited \union {c}
      /\ Below(call) \in Calls
  BY <1>2, <1>3 DEF Below, Calls
<1>5. c \in Items \ call.visited
  BY <1>1
<1> QED
  BY <1>1, <1>3, <1>4, <1>5, RankFalls DEF RankOf

LEMMA RestIsBelow ==
    ASSUME NEW call \in Calls, call.children # {},
           NEW f, First(call.children) \in call.visited \/ f[Below(call)] \in Graph
    PROVE  Rest(f, call) \in Calls /\ RankOf(Rest(f, call)) < RankOf(call)
<1> DEFINE c == First(call.children)
           g == IF c \in call.visited THEN BumpAndRevise(call.graph, c) ELSE f[Below(call)]
<1>1. /\ call.graph \in Graph /\ call.children \in SUBSET Items
      /\ call.visited \in SUBSET Items /\ c \in Items /\ c \in call.children
  BY FirstIsOne DEF Calls
<1>2. g \in Graph
  BY <1>1, BumpAndReviseKeeps DEF Keeps
<1>3. Rest(f, call) = [graph |-> g, children |-> call.children \ {c},
                       visited |-> call.visited]
  BY DEF Rest
<1> HIDE DEF g
<1>4. Rest(f, call) \in Calls
  BY <1>1, <1>2, <1>3 DEF Calls
<1>5. RankOf(Rest(f, call)) = Rank(call.children \ {c}, call.visited)
  BY <1>3 DEF RankOf
<1> QED
  BY <1>1, <1>4, <1>5, RankFalls DEF RankOf

LEMMA TurnIsGraph ==
    ASSUME NEW f \in [Calls -> Graph], NEW call \in Calls
    PROVE  Turn(f, call) \in Graph
<1>1. CASE call.children = {}
  BY <1>1 DEF Turn, Calls
<1>2. CASE call.children # {}
  <2>1. First(call.children) \in call.visited \/ f[Below(call)] \in Graph
    BY <1>2, BelowIsBelow
  <2>2. Rest(f, call) \in Calls
    BY <1>2, <2>1, RestIsBelow
  <2> QED
    BY <1>2, <2>2 DEF Turn
<1> QED
  BY <1>1, <1>2

LEMMA RankIsNatural ==
    ASSUME NEW call \in Calls
    PROVE  RankOf(call) \in Nat /\ RankOf(call) < (N + 1) * (N + 1)
<1>1. call.children \in SUBSET Items /\ call.visited \in SUBSET Items
  BY DEF Calls
<1> DEFINE left == Cardinality(Items \ call.visited)
<1>2. /\ N \in Nat /\ left \in 0..N
      /\ Cardinality(call.children) \in 0..N
  BY <1>1, ItemsFinite, NumberOfItems
<1> HIDE DEF left
<1>3. left * (N + 1) \in Nat /\ left * (N + 1) <= N * (N + 1)
  <2>1. \E k \in Nat : N = left + k
    BY <1>2
  <2>2. PICK k \in Nat : N = left + k
    BY <2>1
  <2>3. N * (N + 1) = left * (N + 1) + k * (N + 1) /\ k * (N + 1) \in Nat
    BY <1>2, <2>2
  <2>4. left * (N + 1) \in Nat
    BY <1>2
  <2> QED
    BY <2>3, <2>4
<1>4. (N + 1) * (N + 1) = N * (N + 1) + N + 1
  BY <1>2
<1> QED
  BY <1>1, <1>2, <1>3, <1>4, RankFalls DEF RankOf, Rank, left

(* Two answers that agree below a rank take the same turns up to it.       *)
LEMMA TurnsAgree ==
    ASSUME NEW f \in [Calls -> Graph], NEW e \in [Calls -> Graph], NEW r \in Nat,
           \A call \in Calls : RankOf(call) < r => e[call] = f[call],
           NEW call \in Calls, RankOf(call) <= r
    PROVE  Turn(e, call) = Turn(f, call)
<1>1. CASE call.children = {}
  BY <1>1 DEF Turn
<1>2. CASE call.children # {}
  <2>1. \A d \in Calls : RankOf(d) < RankOf(call) => e[d] = f[d]
    BY RankIsNatural
  <2>2. \/ First(call.children) \in call.visited
        \/ f[Below(call)] \in Graph /\ e[Below(call)] = f[Below(call)]
    BY <1>2, <2>1, BelowIsBelow
  <2>3. Rest(e, call) = Rest(f, call)
    BY <2>2 DEF Rest
  <2>4. Rest(f, call) \in Calls /\ RankOf(Rest(f, call)) < RankOf(call)
    BY <1>2, <2>2, RestIsBelow
  <2> QED
    BY <1>2, <2>1, <2>3, <2>4 DEF Turn
<1> QED
  BY <1>1, <1>2

LEMMA SpreadExists ==
    \E f \in [Calls -> Graph] : f = [call \in Calls |-> Turn(f, call)]
<1> DEFINE Answers(f, r) == /\ f \in [Calls -> Graph]
                            /\ \A call \in Calls : RankOf(call) < r => f[call] = Turn(f, call)
           Bad == {r \in Nat : ~\E f : Answers(f, r)}
<1>1. Bad = {}
  <2> SUFFICES ASSUME Bad # {} PROVE FALSE
    OBVIOUS
  <2>1. PICK r \in Bad : \A k \in Bad : r <= k
    BY LeastNatural
  <2>2. CASE r = 0
    <3>1. [call \in Calls |-> call.graph] \in [Calls -> Graph]
      BY DEF Calls
    <3>2. Answers([call \in Calls |-> call.graph], 0)
      BY <3>1, RankIsNatural
    <3> QED
      BY <2>1, <2>2, <3>2
  <2>3. CASE r > 0
    <3>1. r - 1 \in Nat /\ r - 1 \notin Bad
      BY <2>1, <2>3
    <3>2. PICK f : Answers(f, r - 1)
      BY <3>1
    <3> DEFINE e == [call \in Calls |-> Turn(f, call)]
    <3>3. e \in [Calls -> Graph]
      BY <3>2, TurnIsGraph
    <3>4. \A call \in Calls : e[call] = Turn(f, call)
      OBVIOUS
    <3> HIDE DEF e
    <3>5. \A call \in Calls : RankOf(call) < r - 1 => e[call] = f[call]
      BY <3>2, <3>4
    <3>6. ASSUME NEW call \in Calls, RankOf(call) < r
          PROVE  e[call] = Turn(e, call)
      <4>1. RankOf(call) <= r - 1
        BY <2>1, <3>6, RankIsNatural
      <4>2. Turn(e, call) = Turn(f, call)
        BY <3>1, <3>2, <3>3, <3>5, <4>1, TurnsAgree
      <4> QED
        BY <3>4, <4>2
    <3>7. Answers(e, r)
      BY <3>3, <3>6
    <3> QED
      BY <2>1, <3>7
  <2> QED
    BY <2>1, <2>2, <2>3
<1>2. (N + 1) * (N + 1) \in Nat
  BY NumberOfItems
<1>3. PICK f : Answers(f, (N + 1) * (N + 1))
  BY <1>1, <1>2
<1>4. \A call \in Calls : f[call] = Turn(f, call)
  BY <1>3, RankIsNatural
<1>5. f = [call \in Calls |-> Turn(f, call)]
  BY <1>3, <1>4
<1> QED
  BY <1>3, <1>5

LEMMA SpreadTurns ==
    ASSUME NEW call \in Calls
    PROVE  Spread[call] = Turn(Spread, call)
<1> DEFINE Loop(f, d) ==
             IF d.children = {} THEN d.graph
             ELSE LET c == First(d.children)
                      h == BumpAndRevise(d.graph, c)
                      below == [graph |-> h, children |-> Children(h, c),
                                visited |-> d.visited \union {c}]
                  IN  f[[graph |-> IF c \in d.visited THEN h ELSE f[below],
                         children |-> d.children \ {c}, visited |-> d.visited]]
<1>1. \A f, d : Loop(f, d) = Turn(f, d)
  BY Zenon DEF Turn, Rest, Below
<1>2. PICK f : f = [d \in Calls |-> Turn(f, d)]
  BY SpreadExists
<1>3. f = [d \in Calls |-> Loop(f, d)]
  <2> HIDE DEF Loop
  <2> QED
    BY <1>1, <1>2
<1>4. Spread = [d \in Calls |-> Loop(Spread, d)]
  BY <1>3, Zenon DEF Spread
<1> HIDE DEF Loop
<1> QED
  BY <1>1, <1>4

(* Whatever item it starts from and however the hypotheses need each       *)
(* other, the propagation ends with every child revised.                   *)
THEOREM SpreadSettles ==
    ASSUME NEW call \in Calls
    PROVE  /\ Keeps(call.graph, Spread[call])
           /\ Settled(call.graph, Spread[call], call.children)
<1> DEFINE Good(d) == /\ Keeps(d.graph, Spread[d])
                      /\ Settled(d.graph, Spread[d], d.children)
           Bad == {r \in Nat : \E d \in Calls : RankOf(d) = r /\ ~Good(d)}
<1>1. SUFFICES Bad = {}
  BY RankIsNatural
<1>2. SUFFICES ASSUME Bad # {} PROVE FALSE
  OBVIOUS
<1>3. PICK r \in Bad : \A k \in Bad : r <= k
  BY <1>2, LeastNatural
<1>4. PICK d \in Calls : RankOf(d) = r /\ ~Good(d)
  BY <1>3
<1>5. \A e \in Calls : RankOf(e) < RankOf(d) => Good(e)
  BY <1>3, <1>4, RankIsNatural
<1> HIDE DEF Bad
<1> DEFINE c == First(d.children)
           g == d.graph
           h == BumpAndRevise(g, c)
           k == IF c \in d.visited THEN h ELSE Spread[Below(d)]
           z == Spread[d]
<1>6. g \in Graph /\ d.children \in SUBSET Items
  BY DEF Calls
<1>7. CASE d.children = {}
  <2>1. z = g
    BY <1>7, SpreadTurns DEF Turn
  <2>2. Keeps(g, g)
    BY <1>6 DEF Keeps, Graph
  <2> QED
    BY <1>4, <1>7, <2>1, <2>2 DEF Settled
<1>8. CASE d.children # {}
  <2>1. c \in d.children /\ c \in Items
    BY <1>6, <1>8, FirstIsOne
  <2>2. Keeps(g, h) /\ Settled(g, h, {c}) /\ h \in Graph
    BY <1>6, <2>1, BumpAndReviseKeeps DEF Keeps
  <2>3. Keeps(h, k)
    <3>1. CASE c \in d.visited
      <4>1. Keeps(h, h)
        BY <2>2 DEF Keeps, Graph
      <4> QED
        BY <3>1, <4>1
    <3>2. CASE c \notin d.visited
      <4>1. Keeps(Below(d).graph, Spread[Below(d)])
        BY <1>5, <1>8, <3>2, BelowIsBelow
      <4>2. Below(d).graph = h
        BY DEF Below
      <4> QED
        BY <3>2, <4>1, <4>2
    <3> QED
      BY <3>1, <3>2
  <2> HIDE DEF h
  <2>4. Keeps(g, k) /\ Settled(g, k, {c}) /\ k \in Graph
    BY <1>6, <2>1, <2>2, <2>3, KeepsTransitive DEF Keeps
  <2> DEFINE rest == Rest(Spread, d)
  <2>5. /\ rest.graph = k /\ rest.children = d.children \ {c}
        /\ z = Spread[rest]
    BY <1>8, SpreadTurns DEF Turn, Rest, h
  <2>6. rest \in Calls /\ RankOf(rest) < RankOf(d)
    BY <1>8, <2>4, RestIsBelow
  <2> HIDE DEF rest, k
  <2>7. Keeps(k, z) /\ Settled(k, z, d.children \ {c})
    BY <1>5, <2>5, <2>6
  <2> HIDE DEF z
  <2>8. Keeps(g, z) /\ Settled(g, z, d.children \ {c}) /\ Settled(g, z, {c})
    BY <1>6, <2>1, <2>4, <2>7, KeepsTransitive
  <2>9. Settled(g, z, d.children)
    BY <2>8 DEF Settled
  <2> QED
    BY <1>4, <2>8, <2>9 DEF z
<1> QED
  BY <1>7, <1>8

(* After increment_count the item is not inadmissible, or nothing          *)
(* unverified needs it any more, unless a revision could not be made or    *)
(* what revisions are made of contains the item.                           *)
THEOREM InadmissibleIsCutOff ==
    ASSUME NEW g \in Graph, g.verified \intersect g.hypothesized = {},
           NEW i \in Items, NEW h, h = Incremented(g, i)
    PROVE  /\ Keeps(g, h)
           /\ \/ h.broken \/ h.count[i] <= Threshold \/ i \in Stock(h)
              \/ Children(h, i) = {}
<1> DEFINE k == [g EXCEPT !.count[i] = Bump(IF @ < 1 THEN 1 ELSE @)]
           counted == [g EXCEPT !.count[i] = Bump(IF @ < 1 THEN 1 ELSE @), !.revised = {}]
           revised == Revise(counted, i)
<1>1. Keeps(g, counted)
  <2>1. Keeps(g, k)
    BY CountKeeps
  <2>2. /\ counted.verified = k.verified /\ counted.hypothesized = k.hypothesized
        /\ counted.resources = k.resources /\ counted.needs = k.needs
        /\ counted.broken = k.broken /\ counted.count = k.count
    BY DEF Graph
  <2>3. counted \in Graph
    <3>1. k.count \in [Items -> 0..CountCap]
      BY <2>1 DEF Keeps, Graph
    <3>2. counted = [g EXCEPT !.count = k.count, !.revised = {}]
      BY DEF Graph
    <3> HIDE DEF counted, k
    <3> QED
      BY <3>1, <3>2 DEF Graph
  <2> HIDE DEF counted, k
  <2> QED
    BY <2>1, <2>2, <2>3 DEF Keeps
<1>2. counted \in Graph
  BY <1>1 DEF Keeps
<1>3. h = IF counted.count[i] > Threshold THEN SpreadInadmissible(revised, i) ELSE revised
  BY DEF Incremented
<1> HIDE DEF counted
<1>4. Keeps(counted, revised) /\ revised \in Graph
  BY <1>2, ReviseKeeps DEF Keeps
<1>5. Keeps(g, revised)
  BY <1>1, <1>4, KeepsTransitive
<1>6. CASE ~(counted.count[i] > Threshold)
  <2>1. h = revised
    BY <1>3, <1>6
  <2>2. revised.count = counted.count
    BY <1>2 DEF Revise, Graph
  <2>3. counted.count[i] <= Threshold
    <3>1. counted.count[i] \in Nat /\ Threshold \in Nat
      BY <1>2, GraphAssumption DEF Graph
    <3> QED
      BY <1>6, <3>1
  <2> QED
    BY <1>5, <2>1, <2>2, <2>3
<1>7. CASE counted.count[i] > Threshold
  <2> DEFINE call == [graph |-> revised, children |-> Children(revised, i), visited |-> {i}]
  <2>1. call \in Calls
    BY <1>4 DEF Calls, Children, Graph
  <2>2. Keeps(revised, h) /\ Settled(revised, h, Children(revised, i))
    BY <1>3, <1>7, <2>1, SpreadSettles DEF SpreadInadmissible
  <2>3. Keeps(g, h)
    BY <1>5, <2>2, KeepsTransitive
  <2>4. Stock(h) = Stock(revised)
    BY <1>4, <2>2, KeepsStock
  <2>5. ASSUME ~h.broken, i \notin Stock(h), NEW c \in Children(h, i)
        PROVE  FALSE
    <3>1. c \in revised.hypothesized /\ i \in h.needs[c] /\ c \in Items
      BY <1>4, <2>2, <2>5 DEF Children, Keeps, Graph
    <3>2. c \notin revised.verified
      BY <1>5, <3>1 DEF Keeps
    <3>3. CASE c \in Children(revised, i)
      BY <2>2, <2>4, <2>5, <3>1, <3>2, <3>3 DEF Settled
    <3>4. CASE c \notin Children(revised, i)
      <4>1. i \notin revised.needs[c]
        BY <3>1, <3>4 DEF Children
      <4> QED
        BY <2>2, <2>4, <2>5, <3>1, <4>1 DEF Keeps
    <3> QED
      BY <3>3, <3>4
  <2> QED
    BY <2>3, <2>5
<1> QED
  BY <1>6, <1>7

-----------------------------------------------------------------------------
(* Dependence.                                                             *)
LEMMA DependsTransitive ==
    ASSUME NEW needs, NEW a, NEW b, NEW c, Depends(needs, a, b), Depends(needs, b, c)
    PROVE  Depends(needs, a, c)
BY DEF Depends

LEMMA DependsOnNeeds ==
    ASSUME NEW needs, NEW a, NEW d \in needs[a]
    PROVE  Depends(needs, a, a) /\ Depends(needs, a, d)
BY DEF Depends, Closed

(* What an item depends on it depends on through one of its ingredients.   *)
LEMMA DependsUnfolds ==
    ASSUME NEW needs \in Needs, NEW a \in Items, NEW b, Depends(needs, a, b), b # a
    PROVE  \E d \in needs[a] : Depends(needs, d, b)
<1> DEFINE reached == {x \in Items : \E d \in needs[a] : Depends(needs, d, x)}
           S == {a} \union reached
<1>1. needs[a] \subseteq Items
  BY DEF Needs
<1>2. needs[a] \subseteq reached
  BY <1>1 DEF Depends
<1>3. ASSUME NEW x \in reached PROVE needs[x] \subseteq reached
  <2>1. PICK d \in needs[a] : Depends(needs, d, x)
    BY DEF reached
  <2>2. \A y \in needs[x] : Depends(needs, d, y)
    BY <2>1, DependsTransitive, DependsOnNeeds
  <2>3. needs[x] \subseteq Items
    BY DEF Needs, reached
  <2> QED
    BY <2>2, <2>3
<1>4. S \in SUBSET Items /\ a \in S /\ Closed(needs, S)
  BY <1>2, <1>3 DEF Closed
<1>5. b \in S
  BY <1>4 DEF Depends
<1> QED
  BY <1>5

LEMMA BelowIngredients ==
    ASSUME NEW needs \in Needs, NEW i \in Items, NEW d \in needs[i], ~OnCycle(needs, i)
    PROVE  /\ d \in Items
           /\ ItemsBelow(needs, d) \subseteq ItemsBelow(needs, i)
           /\ i \in ItemsBelow(needs, i) \ ItemsBelow(needs, d)
           /\ Cardinality(ItemsBelow(needs, d)) < Cardinality(ItemsBelow(needs, i))
<1>1. d \in Items
  BY DEF Needs
<1>2. ItemsBelow(needs, d) \subseteq ItemsBelow(needs, i)
  BY DependsOnNeeds, DependsTransitive DEF ItemsBelow
<1>3. i \in ItemsBelow(needs, i) /\ i \notin ItemsBelow(needs, d)
  BY DependsOnNeeds DEF ItemsBelow, OnCycle
<1>4. IsFiniteSet(ItemsBelow(needs, i)) /\ Cardinality(ItemsBelow(needs, i)) \in 0..N
      /\ Cardinality(ItemsBelow(needs, d)) \in 0..N
  BY ItemsFinite DEF ItemsBelow
<1>5. Cardinality(ItemsBelow(needs, d)) < Cardinality(ItemsBelow(needs, i))
  BY <1>2, <1>3, <1>4, FS_Subset, NumberOfItems
<1> QED
  BY <1>1, <1>2, <1>3, <1>5

(* Of items none of which depends on itself one needs none of the others.  *)
LEMMA LowestItem ==
    ASSUME NEW needs \in Needs, NEW S \in SUBSET Items, S # {},
           \A i \in S : ~OnCycle(needs, i)
    PROVE  \E i \in S : needs[i] \intersect S = {}
<1> DEFINE height(i) == Cardinality(ItemsBelow(needs, i))
           heights == {height(i) : i \in S}
<1>1. \A i \in S : height(i) \in Nat
  BY ItemsFinite DEF ItemsBelow
<1>2. heights \in SUBSET Nat /\ heights # {}
  BY <1>1
<1>3. PICK m \in heights : \A k \in heights : m <= k
  BY <1>2, LeastNatural
<1>4. PICK i \in S : height(i) = m
  BY DEF heights
<1>5. ASSUME NEW d \in needs[i], d \in S
      PROVE  FALSE
  <2>1. height(d) < height(i)
    BY <1>5, BelowIngredients
  <2>2. height(i) <= height(d)
    BY <1>3, <1>4, <1>5
  <2>3. height(i) \in Nat /\ height(d) \in Nat
    BY <1>1, <1>5
  <2> HIDE DEF height
  <2> QED
    BY <2>1, <2>2, <2>3
<1> QED
  BY <1>5

(* A graph without cycles whose ingredients are all known has a frontier:  *)
(* an exploring process finds something to try as long as anything is left *)
(* to explore.                                                             *)
THEOREM FrontierExists ==
    ASSUME NEW g \in Graph, g.hypothesized # {},
           \A i \in g.hypothesized : /\ ~OnCycle(g.needs, i)
                                     /\ g.needs[i] \subseteq g.verified \union g.hypothesized
    PROVE  Frontier(g) # {}
<1>1. g.needs \in Needs /\ g.hypothesized \in SUBSET Items
  BY DEF Graph
<1>2. PICK i \in g.hypothesized : g.needs[i] \intersect g.hypothesized = {}
  BY <1>1, LowestItem
<1> QED
  BY <1>2 DEF Frontier

(* A waypoint is the goal or something the goal depends on.                *)
LEMMA WaypointsBelow ==
    ASSUME NEW g \in Graph, NEW goal \in Items, NEW enough
    PROVE  FirstWaypoints(g, goal, enough) \subseteq ItemsBelow(g.needs, goal)
<1> DEFINE unmet == [i \in Items |-> g.needs[i] \ enough]
<1>1. \A T \in SUBSET Items : Closed(g.needs, T) => Closed(unmet, T)
  BY DEF Closed
<1>2. FirstWaypoints(g, goal, enough) \subseteq ItemsBelow(unmet, goal)
  BY DEF FirstWaypoints
<1> HIDE DEF unmet
<1> QED
  BY <1>1, <1>2 DEF ItemsBelow, Depends

(* Without a cycle below the goal retrieve_waypoints always has a first    *)
(* line, whatever the agent has already.                                   *)
THEOREM WaypointExists ==
    ASSUME NEW g \in Graph, NEW goal \in Items, NEW enough,
           \A b \in ItemsBelow(g.needs, goal) : ~OnCycle(g.needs, b)
    PROVE  FirstWaypoints(g, goal, enough) # {}
<1> DEFINE unmet == [i \in Items |-> g.needs[i] \ enough]
           S == ItemsBelow(unmet, goal)
<1>1. g.needs \in Needs
  BY DEF Graph
<1>2. unmet \in Needs /\ \A i \in Items : unmet[i] \subseteq g.needs[i]
  BY <1>1 DEF Needs
<1>3. FirstWaypoints(g, goal, enough) = {b \in S : unmet[b] = {}}
  BY DEF FirstWaypoints
<1> HIDE DEF unmet
<1>4. S \in SUBSET Items /\ goal \in S
  BY DEF ItemsBelow, Depends
<1>5. S \subseteq ItemsBelow(g.needs, goal)
  <2>1. \A T \in SUBSET Items : Closed(g.needs, T) => Closed(unmet, T)
    BY <1>2 DEF Closed
  <2> QED
    BY <2>1 DEF ItemsBelow, Depends
<1>6. \A b \in S : ~OnCycle(unmet, b)
  BY <1>2, <1>4, <1>5, FewerNeeds
<1>7. PICK b \in S : unmet[b] \intersect S = {}
  BY <1>2, <1>4, <1>6, LowestItem
<1>8. unmet[b] \subseteq S
  <2>1. unmet[b] \subseteq Items
    BY <1>2, <1>4 DEF Needs
  <2>2. \A d \in unmet[b] : Depends(unmet, goal, d)
    BY DependsOnNeeds, DependsTransitive DEF ItemsBelow
  <2> QED
    BY <2>1, <2>2 DEF ItemsBelow
<1> QED
  BY <1>3, <1>7, <1>8

(* The items to clear are determined: another set that is closed under the *)
(* rule the code follows is the same.                                      *)
THEOREM ClearingIsDetermined ==
    ASSUME NEW needs, NEW open \in SUBSET Items,
           NEW C \in SUBSET open, ClearedUpTo(needs, open, C, N)
    PROVE  C = Cleared(needs, open)
<1> DEFINE D == Cleared(needs, open)
           differ == {i \in open : ~(i \in C <=> i \in D)}
<1>1. N \in Nat /\ \A i \in open : i \in Nat /\ i <= N
  BY NumberOfItems DEF Items
<1>2. /\ D \in SUBSET open
      /\ \A i \in open : i \in D <=> OnCycle(Without(needs, {j \in D : j < i}), i)
  <2>1. \E E \in SUBSET open :
          \A i \in open : i \in E <=> OnCycle(Without(needs, {j \in E : j < i}), i)
    BY <1>1 DEF ClearedUpTo
  <2> QED
    BY <2>1 DEF Cleared
<1>3. \A i \in open : i \in C <=> OnCycle(Without(needs, {j \in C : j < i}), i)
  BY <1>1 DEF ClearedUpTo
<1> HIDE DEF D
<1>4. SUFFICES ASSUME differ # {} PROVE FALSE
  BY <1>2 DEF D
<1>5. differ \in SUBSET Nat
  BY <1>1
<1>6. PICK i \in differ : \A k \in differ : i <= k
  BY <1>4, <1>5, LeastNatural
<1>7. {j \in C : j < i} = {j \in D : j < i}
  BY <1>1, <1>2, <1>5, <1>6
<1> QED
  BY <1>2, <1>3, <1>6, <1>7

-----------------------------------------------------------------------------
(* The order in which frontier items are tried.                            *)
LEMMA LevelTyped ==
    ASSUME NEW g \in Graph, NEW i \in Items
    PROVE  CountOf(g, i) \in Nat /\ Level(g, i) \in Nat
<1>1. CountOf(g, i) \in Nat
  <2>1. CountCap \in Nat /\ g.count[i] \in 0..CountCap
    BY GraphAssumption DEF Graph
  <2> QED
    BY <2>1 DEF CountOf
<1>2. Level(g, i) \in Nat
  <2> DEFINE S == {b \in ItemsBelow(g.needs, i) :
                      \A c \in ItemsBelow(g.needs, b) : ~OnCycle(g.needs, c)}
  <2>1. S \in SUBSET Items
    BY DEF ItemsBelow
  <2>2. Level(g, i) = Cardinality(S)
    BY DEF Level
  <2> HIDE DEF S
  <2>3. Cardinality(S) \in 0..N
    BY <2>1, ItemsFinite
  <2> QED
    BY <2>2, <2>3, NumberOfItems
<1> QED
  BY <1>1, <1>2

(* The path to an item is longer than the path to any of its ingredients.  *)
THEOREM LevelRises ==
    ASSUME NEW g \in Graph, NEW i \in Items, NEW d \in g.needs[i],
           \A b \in ItemsBelow(g.needs, i) : ~OnCycle(g.needs, b)
    PROVE  Level(g, d) < Level(g, i)
<1> DEFINE below(a) == ItemsBelow(g.needs, a)
<1>1. g.needs \in Needs
  BY DEF Graph
<1>2. i \in below(i) /\ d \in below(i)
  BY <1>1, DependsOnNeeds DEF ItemsBelow, Needs
<1>3. \A a \in below(i) : below(a) \subseteq below(i)
  BY DependsTransitive DEF ItemsBelow
<1>4. \A a \in below(i) : Level(g, a) = Cardinality(below(a))
  <2> SUFFICES ASSUME NEW a \in below(i) PROVE Level(g, a) = Cardinality(below(a))
    OBVIOUS
  <2>1. {b \in below(a) : \A c \in below(b) : ~OnCycle(g.needs, c)} = below(a)
    BY <1>3
  <2> QED
    BY <2>1 DEF Level
<1>5. Cardinality(below(d)) < Cardinality(below(i))
  BY <1>1, <1>2, BelowIngredients
<1> HIDE DEF below
<1> QED
  BY <1>2, <1>4, <1>5

LEMMA BeforeIsOrder ==
    ASSUME NEW g \in Graph
    PROVE  /\ \A i, j, k \in Items : Before(g, i, j) /\ Before(g, j, k) => Before(g, i, k)
           /\ \A S \in SUBSET Items : S # {} => \E i \in S : \A j \in S : Before(g, i, j)
<1>1. \A i \in Items : CountOf(g, i) \in Nat /\ Level(g, i) \in Nat
  BY LevelTyped
<1>2. \A i, j, k \in Items : Before(g, i, j) /\ Before(g, j, k) => Before(g, i, k)
  BY <1>1 DEF Before
<1>3. ASSUME NEW S \in SUBSET Items, S # {}
      PROVE  \E i \in S : \A j \in S : Before(g, i, j)
  <2> DEFINE counts == {CountOf(g, i) : i \in S}
  <2>0. counts \in SUBSET Nat /\ counts # {}
    BY <1>1, <1>3
  <2>1. PICK m \in counts : \A n \in counts : m <= n
    <3> HIDE DEF counts
    <3> QED
      BY <2>0, LeastNatural
  <2> DEFINE least == {i \in S : CountOf(g, i) = m}
             levels == {Level(g, i) : i \in least}
  <2>2. levels \in SUBSET Nat /\ levels # {}
    BY <1>1, <2>1
  <2>3. PICK l \in levels : \A n \in levels : l <= n
    <3> HIDE DEF levels
    <3> QED
      BY <2>2, LeastNatural
  <2>4. PICK i \in least : Level(g, i) = l
    BY DEF levels
  <2>5. ASSUME NEW j \in S PROVE Before(g, i, j)
    <3>1. CountOf(g, i) = m /\ m <= CountOf(g, j) /\ m \in Nat /\ CountOf(g, j) \in Nat
      BY <1>1, <2>1, <2>4
    <3>2. CASE CountOf(g, j) = m
      BY <2>3, <2>4, <3>1, <3>2 DEF Before
    <3>3. CASE CountOf(g, j) # m
      BY <3>1, <3>3 DEF Before
    <3> QED
      BY <3>2, <3>3
  <2> QED
    BY <2>4, <2>5
<1> QED
  BY <1>2, <1>3
=============================================================================
