----------------------------- MODULE MCPrQueue -----------------------------
(* Instances of PrQueue for TLC: three pull requests, each free in what its *)
(* edges and its gate depend on.                                            *)
EXTENDS PrQueue

MCPRs == 1..3

MCBranches == {"main", "b1", "b2", "b3"}

HeadOf(n) == CASE n = 1 -> "b1" [] n = 2 -> "b2" [] n = 3 -> "b3"

MCPaths == {"own1", "own2", "own3", "shared", "task"}

MCDirOf == [p \in MCPaths |-> IF p = "task" THEN "tasks" ELSE "src"]

Touch(p) == [path |-> p, adds |-> TRUE]

Own(n) == Touch(CASE n = 1 -> "own1" [] n = 2 -> "own2" [] n = 3 -> "own3")

\* A pull request that nothing holds back.
Clean(n, base, declares, files, size) ==
  [base |-> base, head |-> HeadOf(n), declares |-> declares, files |-> files,
   size |-> size, hot |-> FALSE, mergeable |-> "MERGEABLE", checks |-> {"passed"},
   draft |-> FALSE, threads |-> FALSE, changes |-> FALSE, conforms |-> TRUE,
   behind |-> FALSE, queued |-> FALSE]

\* The same under each kind of gate.
Gated(pr) == {pr, [pr EXCEPT !.hot = TRUE], [pr EXCEPT !.checks = {"pending"}],
              [pr EXCEPT !.threads = TRUE, !.draft = TRUE]}

\* A dependency by stack or by declaration, in either direction.
Stacks ==
  { [n \in MCPRs |-> Clean(n, bases[n], declares[n], {Own(n)}, 1)] :
      bases \in {<<"main", "main", "main">>, <<"main", "b1", "b2">>, <<"b3", "main", "b2">>},
      declares \in {<<{}, {}, {}>>, <<{2}, {}, {}>>, <<{3}, {1}, {}>>, <<{}, {}, {1, 2}>>} }

\* Pull requests that share a file or a directory, one of them a sweep.
Overlaps ==
  { [n \in MCPRs |-> Clean(n, base[n], {}, files[n], size[n])] :
      base \in {<<"main", "main", "main">>, <<"main", "b1", "main">>},
      files \in {<<{Touch("shared")}, {Touch("shared")}, {Own(3)}>>,
                 <<{Touch("task")}, {[path |-> "task", adds |-> FALSE]}, {Touch("shared")}>>,
                 <<{Touch("shared")}, {Touch("shared")}, {Touch("shared"), Touch("task")}>>},
      size \in {<<1, 1, 1>>, <<2, 1, 2>>} }

\* Fewer than three are open, or two are open on one branch.
Few ==
  { <<>>, <<Clean(1, "main", {}, {}, 0)>>,
    [n \in {2, 3} |-> [Clean(n, "main", {}, {Own(n)}, 1) EXCEPT !.head = "b2"]],
    [n \in MCPRs |-> [Clean(n, IF n = 3 THEN "b1" ELSE "main", {}, {Own(n)}, 1)
                        EXCEPT !.head = IF n = 3 THEN "b3" ELSE "b1"]] }

\* Every gate of the first two, the third as it comes.
MCQueues ==
  Few \cup UNION { { [q EXCEPT ![1] = one, ![2] = two] :
      one \in Gated(q[1]), two \in Gated(q[2]) } : q \in Stacks \cup Overlaps }

MCSnapshotPaths == {"task"}

\* The whole queue, or one pull request by --pr: in the middle of it, or one
\* that is not open.
MCOnlyChoices == {0, 2, 4}
=============================================================================
