---------------------------- MODULE MCEvalIngest ----------------------------
(* Instances of EvalIngest for TLC: two runs that have one content in      *)
(* common and list their subjects in opposite orders.                      *)
EXTENDS EvalIngest

CONSTANTS r1, r2, k, x1, x2, y

MCRuns == {r1, r2}
MCVersion == {x1, x2, y}
MCSubjectOf == [v \in MCVersion |-> IF v = y THEN "y" ELSE "x"]
MCVersionsOf == [i \in Items |->
  CASE i = r1 -> <<x1, y>> [] i = r2 -> <<y, x2>> [] i = k -> <<>>]
MCFlaws == {{}, {r1, k}}
MCStartedAt == [i \in Items |->
  CASE i = r1 -> 1 [] i = r2 -> 2 [] i = k -> 3]
=============================================================================
