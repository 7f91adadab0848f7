------------------------------ MODULE CapDraws ------------------------------
(***************************************************************************)
(* What cact/protocol_v2.py reads off the paired bootstrap draws of a      *)
(* group (_cap_draws): quantiles of the benefit, of the two risks and of   *)
(* the CAP scalar of each draw.                                            *)
(*                                                                         *)
(* A draw is a triple of integers in some unit of probability.  np.quantile*)
(* interpolates, so what is read off the draws, and with it every budget,  *)
(* limit and charge, is counted in that unit divided by AlphaDen.  Prices  *)
(* (lambda) are natural numbers.                                           *)
(***************************************************************************)
EXTENDS Integers, FiniteSets

CONSTANTS
    Draws,              \* how many draws a group has
    AlphaNum, AlphaDen, \* alpha, as a fraction
    CapEpsilon,         \* cap_epsilon
    Delta0              \* delta0, the benefit scale

ASSUME DrawsAssumption ==
    /\ Draws \in Nat \ {0} /\ AlphaDen \in Nat \ {0} /\ AlphaNum \in 0..AlphaDen
    /\ CapEpsilon \in Nat \ {0} /\ Delta0 \in Nat \ {0}

Sample == [1..Draws -> Int]
JointDraws == [1..Draws -> [y : Int, inc : Int, abs : Int]]

Pos(x) == IF x > 0 THEN x ELSE 0

-----------------------------------------------------------------------------
(* v is the k-th smallest of the values of x.                              *)
IsOrder(x, k, v) ==
    /\ \E i \in 1..Draws : v = x[i]
    /\ Cardinality({i \in 1..Draws : x[i] < v}) < k
    /\ k <= Cardinality({i \in 1..Draws : x[i] <= v})

Order(x, k) == CHOOSE v \in {x[i] : i \in 1..Draws} : IsOrder(x, k, v)

(* np.quantile at num / AlphaDen, AlphaDen-fold: between the two values    *)
(* next to the place (Draws - 1) * num / AlphaDen, in proportion.          *)
Quantile(x, num) ==
    LET place == (Draws - 1) * num
        k     == place \div AlphaDen + 1
        rest  == place % AlphaDen
    IN  (AlphaDen - rest) * Order(x, k)
          + (IF rest = 0 THEN 0 ELSE rest * Order(x, k + 1))

(* Mutant: q_t grows with the opportunities still expected.                *)
CapDrawScaled(d, lambda, b, n) ==
    d.y * (b * (1 + n) + CapEpsilon) - lambda * Delta0 * Pos(d.inc)

(* The CAP of one draw, y / delta0 - lambda * max(inc, 0) / (q_t + eps)    *)
(* with q_t = b / (1 + n), multiplied by its positive denominators.        *)
CapDraw(d, lambda, b, n) ==
    d.y * (b + CapEpsilon * (1 + n)) - (lambda * Delta0 * Pos(d.inc)) * (1 + n)

(* The alpha-quantile of CAP is positive.                                  *)
CapPositive(draws, lambda, b, n) ==
    Quantile([i \in 1..Draws |-> CapDraw(draws[i], lambda, b, n)], AlphaNum) > 0

RiskIncUcb(draws) == Quantile([i \in 1..Draws |-> draws[i].inc], AlphaDen - AlphaNum)
RiskAbsUcb(draws) == Quantile([i \in 1..Draws |-> draws[i].abs], AlphaDen - AlphaNum)
=============================================================================
