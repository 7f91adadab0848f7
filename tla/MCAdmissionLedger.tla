-------------------------- MODULE MCAdmissionLedger --------------------------
(* A small policy artifact for AdmissionLedger: groups of three draws each  *)
(* that between them reach every refusal, offered through short backoff     *)
(* chains.  With alpha = 1/4 a quantile is twice the sum of the two least,  *)
(* or the two greatest, of a group's draws.                                 *)
EXTENDS AdmissionLedger, TLC

MCKeys == {"none", "mixed", "cheap", "saves", "risky", "dear"}

Group(y, inc, abs, margin) ==
    [supported |-> TRUE,
     draws |-> [d \in 1..3 |-> [y |-> y[d], inc |-> inc[d], abs |-> abs]],
     margin |-> [y |-> margin[1], seY |-> 1, inc |-> margin[2], seInc |-> 1,
                 abs |-> margin[3], seAbs |-> 1]]

NoGroup == [Group(<<0, 0, 0>>, <<0, 0, 0>>, 0, <<0, 0, 0>>) EXCEPT !.supported = FALSE]

MCEstimates ==
    [none  |-> NoGroup,
     mixed |-> Group(<<2, 0, 2>>, <<-1, 3, -1>>, 1, <<5, 4, 4>>), \* helps at some risk
     cheap |-> Group(<<2, 0, 2>>, <<-1, 2, -1>>, 1, <<5, 1, 8>>), \* fits the tolerance
     saves |-> Group(<<1, 1, 2>>, <<-1, -1, -1>>, 0, <<3, -2, 0>>),\* reduces risk
     risky |-> Group(<<2, 2, 2>>, <<0, 0, 0>>, 9, <<5, 0, 9>>),   \* absolutely too risky
     dear  |-> NoGroup]

(* All groups but the risky one are worth either price; of three groups one *)
(* is worth price 0 only, and never affordable; the audit refutes what was  *)
(* selected.                                                                *)
MCCalibrations == {"steady", "priced", "refuted"}
MCSelectEstimates ==
    [steady  |-> MCEstimates,
     priced  |-> [k \in MCKeys |->
                    IF k \in {"mixed", "saves"} THEN MCEstimates[k]
                    ELSE IF k = "dear" THEN Group(<<1, 1, 1>>, <<2, 2, 2>>, 1, <<5, 6, 1>>)
                    ELSE NoGroup],
     refuted |-> MCEstimates]
MCAuditEstimates ==
    [MCSelectEstimates EXCEPT !.refuted.cheap = Group(<<2, 0, 2>>, <<-1, 2, -1>>, 9, <<5, 1, 8>>)]

Chains == {<<a, "none", "none", "none">> : a \in MCKeys \ {"none"}}
            \cup {<<"none", "risky", "mixed", "none">>, <<"none", "none", "none", "cheap">>}

MCOpportunities ==
    [eligible: {TRUE}, applicable: {TRUE}, remaining: {-1, 9}, keys: Chains]
      \cup [eligible: BOOLEAN, applicable: {FALSE}, remaining: {0},
            keys: {<<"none", "none", "none", "none">>}]

MCLambdas == {0, 1}

CONSTANTS ep1, ep2
MCEpisodes == {ep1, ep2}
EpisodeSymmetry == Permutations(MCEpisodes)
=============================================================================
