--------------------------- MODULE MCCoordination ---------------------------
(* Instances of Coordination for TLC.                                      *)
EXTENDS Coordination

CONSTANTS a, b, c

NoStacks == {}
BOnA == {<<b, a>>}
=============================================================================
