-------------------------- MODULE MCParallelRunner --------------------------
(* ParallelRunner on a grid of three cells: two workers, two ports, and a  *)
(* key that two of the cells share, as the two branches of a pair do.      *)
EXTENDS ParallelRunner

MCKeys == {"a", "b"}
MCKey == <<"a", "b", "b">>
MCPorts == {1, 2}
MCPort == <<1, 2, 1>>
=============================================================================
