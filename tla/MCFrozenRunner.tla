--------------------------- MODULE MCFrozenRunner ---------------------------
(* ParallelRunner on two frozen cells that use one planning server, on     *)
(* which they have to wait for each other.                                 *)
EXTENDS ParallelRunner

MCKeys == {"a", "b"}
MCKey == <<"a", "b">>
MCPorts == {1}
MCPort == <<1, 1>>
=============================================================================
