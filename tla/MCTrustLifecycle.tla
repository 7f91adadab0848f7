-------------------------- MODULE MCTrustLifecycle --------------------------
(* TrustLifecycle on two items in one context, with posteriors on both     *)
(* sides of every threshold of the lifecycle.                              *)
EXTENDS TrustLifecycle, TLC

CONSTANTS k1, k2, c1

MCKids == {k1, k2}
MCContexts == {c1}
MCWeights == {5}

MCPosteriors ==
    {[pi |-> 20, harm |-> 25],   \* poor and harmful
     [pi |-> 95, harm |-> 5],    \* certifiable
     [pi |-> 40, harm |-> 16]}   \* not certifiable, harm above 1.5 HStar

Symmetry == Permutations(MCKids)
=============================================================================
