---------------------------- MODULE MCEpisodeLoop ----------------------------
(* EpisodeLoop on two waypoints, with processes of every kind: collecting  *)
(* under the protocol, with and without the sanitizer, accumulating with   *)
(* the controller, frozen, and without knowledge.                          *)
EXTENDS EpisodeLoop, TLC

CONSTANTS w1, w2

MCWaypoints == {w1, w2}

Symmetry == Permutations(MCWaypoints)

MCConfigs ==
    {[frozen |-> FALSE, base |-> FALSE, protocol |-> TRUE, sanitizer |-> TRUE],
     [frozen |-> FALSE, base |-> FALSE, protocol |-> TRUE, sanitizer |-> FALSE],
     [frozen |-> FALSE, base |-> FALSE, protocol |-> FALSE, sanitizer |-> TRUE],
     [frozen |-> TRUE, base |-> FALSE, protocol |-> TRUE, sanitizer |-> FALSE],
     [frozen |-> FALSE, base |-> TRUE, protocol |-> FALSE, sanitizer |-> TRUE]}
=============================================================================
