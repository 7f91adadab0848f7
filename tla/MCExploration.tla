--------------------------- MODULE MCExploration ---------------------------
(* Two exploring processes on four items: 1 is mined, 2 and 3 are crafted  *)
(* from 1, and 4 from 2 and 3.                                             *)
EXTENDS Exploration, TLC

MCOracle == <<[needs |-> {}, verb |-> "mine"], [needs |-> {1}, verb |-> "craft"],
              [needs |-> {1}, verb |-> "craft"], [needs |-> {2, 3}, verb |-> "craft"]>>

(* The verified items an item is compared with are those before it.        *)
MCNearest == [i \in 1..4 |-> [V \in SUBSET (1..4) |-> {v \in V : v < i}]]

Bare(v) == [verb |-> v, bare |-> TRUE]
MCFreeAnswers == {Bare("craft")}

(* Asked for item 2 the planner may aim at item 3.                         *)
MCStrays == <<{}, {3}, {}, {}>>

File(d) == [state |-> "whole", data |-> d]

Once(outcome, keys) ==
    [k \in Keys |-> [success |-> IF k \in keys /\ outcome = "success" THEN 1 ELSE 0,
                     failure |-> IF k \in keys /\ outcome = "failure" THEN 1 ELSE 0]]

(* Item 1 has been mined before; the others have failed by two of the      *)
(* three actions.                                                          *)
History == <<Once("success", {[verb |-> "mine", bare |-> FALSE]}),
             Once("failure", {Bare("mine"), Bare("smelt")}),
             Once("failure", {Bare("mine"), Bare("smelt")}),
             Once("failure", {Bare("mine"), Bare("smelt")})>>

Recipe(needs) == File([needs |-> needs, resource |-> FALSE])
Hypothesis(needs, count) == File([needs |-> needs, count |-> count])

Disk(files) ==
    [f \in Files |->
        IF f = GoalsFile THEN File([p \in Procs |-> 0])
        ELSE IF f = EpisodesFile THEN File(0)
        ELSE IF f \in DOMAIN files THEN files[f]
        ELSE [state |-> "missing"]]

Tried == [f \in {Memory(i) : i \in Items} |-> File(History[f[2]])]

(* A hypothesis that is right, two that need each other, and a directory   *)
(* where nothing is verified yet.  In the last two an episode fails by its *)
(* time limit only, which is enough to count and revise a hypothesis.      *)
Right == Verified(1) :> Recipe({}) @@ Verified(2) :> Recipe({1})
           @@ Hypothesized(2) :> Hypothesis({1}, 1)
           @@ Hypothesized(3) :> Hypothesis({1}, 1) @@ Hypothesized(4) :> Hypothesis({2}, 1)
           @@ Tried
Cyclic == Verified(1) :> File([needs |-> {}, resource |-> TRUE])
           @@ Verified(2) :> Recipe({1})
           @@ Hypothesized(3) :> Hypothesis({4}, 2) @@ Hypothesized(4) :> Hypothesis({3}, 1)
           @@ Tried
Fresh == Hypothesized(1) :> Hypothesis({}, 1) @@ Hypothesized(3) :> Hypothesis({}, 2)

MCStarts == {[disk |-> Disk(Right), acts |-> 2], [disk |-> Disk(Cyclic), acts |-> 0],
             [disk |-> Disk(Fresh), acts |-> 0]}

Symmetry == Permutations(Procs)
=============================================================================
