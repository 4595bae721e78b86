------------------------------ MODULE PrQueue ------------------------------
(***************************************************************************)
(* One pass of the pull-request queue operator (scripts/pr-queue-operator  *)
(* and the scripts/lib/pr-queue files): derive the order to merge the open *)
(* pull requests in from one snapshot, decide each under its mechanical    *)
(* ceiling, spread escalations down the dependencies, log, and execute in  *)
(* that order.                                                             *)
(*                                                                         *)
(* The two loops of the code (the topological sort and the search for      *)
(* descendants) are steps of their own, so that what they leave behind is  *)
(* a matter of invariants.  The headless model that decides and executes   *)
(* is external: it may answer anything its schema lets through, or fail.   *)
(***************************************************************************)
EXTENDS Integers, Sequences, FiniteSets

CONSTANTS
  PRs,            \* pull-request numbers
  Branches,       \* branch names
  Paths,          \* file paths
  DirOf,          \* [Paths -> directories]
  TopLevel,       \* the directory of a path without one
  SnapshotPaths,  \* the paths SNAPSHOT_PATH matches
  Queues,         \* the snapshots of open pull requests a pass may fetch
  OnlyChoices     \* values of --pr, 0 when absent

Verdicts == {"ESCALATE", "ACT", "WAIT", "ENQUEUE"}

File == [path : Paths, adds : BOOLEAN]

\* The facts of one pull request.  `hot` stands for the stop areas of §5 a path
\* can touch; `checks` for the states its checks are in, none when empty.
Facts == [base : Branches, head : Branches, declares : SUBSET PRs,
          files : SUBSET File, size : Nat, hot : BOOLEAN,
          mergeable : {"MERGEABLE", "CONFLICTING", "UNKNOWN"},
          checks : SUBSET {"passed", "failed", "pending"},
          draft : BOOLEAN, threads : BOOLEAN, changes : BOOLEAN,
          conforms : BOOLEAN, behind : BOOLEAN, queued : BOOLEAN]

ASSUME QueueAssumption ==
  /\ PRs \subseteq Nat \ {0}
  /\ IsFiniteSet(PRs)
  /\ \A q \in Queues : DOMAIN q \subseteq PRs /\ q \in [DOMAIN q -> Facts]
  /\ OnlyChoices \subseteq Nat

VARIABLES
  queue,     \* the snapshot: facts by number
  only,      \* options.only
  apply,     \* options.apply
  edges,     \* deriveOrder's edges
  phase,     \* where the pass is
  indegree,  \* topoSort's indegree
  ready,     \* topoSort's ready list, which it keeps ascending
  order,     \* topoSort's order
  sequence,  \* the entries of the pass, in order
  at,        \* index of the entry in hand
  verdict,   \* the decided verdict by number, "none" before
  pending,   \* descendants' work list
  reached,   \* descendants' result
  executed   \* the entries handed to the apply pass

vars == <<queue, only, apply, edges, phase, indegree, ready, order, sequence, at,
          verdict, pending, reached, executed>>

Numbers == DOMAIN queue

Greatest(S) == CHOOSE n \in S : \A m \in S : m <= n

Least(S) == CHOOSE n \in S : \A m \in S : n <= m

\* The sequences that list a finite set, each member once.
Listings(S) == {s \in [1..Cardinality(S) -> S] : {s[i] : i \in 1..Cardinality(S)} = S}

-----------------------------------------------------------------------------
(* Edges: `from` merges before `to` *)

Edge(from, rule, to) == [from |-> from, rule |-> rule, to |-> to]

\* O1: a pull request after the one whose head it targets; of two with the
\* same head the later one in the snapshot counts.
StackEdges(q) ==
  { Edge(Greatest({m \in DOMAIN q : q[m].head = q[n].base}), "O1", n) :
      n \in {k \in DOMAIN q : {m \in DOMAIN q : q[m].head = q[k].base} # {}} }

\* O2: after every open pull request its body declares.
DeclaredEdges(q) ==
  UNION { { Edge(m, "O2", n) : m \in q[n].declares \cap DOMAIN q } : n \in DOMAIN q }

PathsOf(pr) == {f.path : f \in pr.files}

DirsOf(pr) == {DirOf[p] : p \in PathsOf(pr)} \ {TopLevel}

\* O3: of two that touch a common path the smaller first, ties by number.
Smaller(q, n, m) == q[n].size < q[m].size \/ (q[n].size = q[m].size /\ n < m)

OverlapEdges(q) ==
  UNION { { Edge(n, "O3", m) : n \in {k \in DOMAIN q \ {m} :
              PathsOf(q[k]) \cap PathsOf(q[m]) # {} /\ Smaller(q, k, m)} } :
          m \in DOMAIN q }

\* O4: a delete-only sweep after what it shares a directory with.
IsSnapshot(pr) ==
  pr.files # {} /\ \A f \in pr.files : f.path \in SnapshotPaths /\ ~f.adds

SnapshotEdges(q) ==
  UNION { { Edge(n, "O4", m) : n \in {k \in DOMAIN q :
              ~IsSnapshot(q[k]) /\ DirsOf(q[k]) \cap DirsOf(q[m]) # {}} } :
          m \in {k \in DOMAIN q : IsSnapshot(q[k])} }

\* deriveOrder; a pull request is never its own predecessor.
DerivedEdges(q) ==
  {e \in StackEdges(q) \cup DeclaredEdges(q) \cup OverlapEdges(q) \cup SnapshotEdges(q) :
     e.from # e.to}

\* Mutant: what is inferred is left out of the count.
IntoDeclared(n) == {e \in edges : e.to = n /\ e.rule # "O3"}

Into(n) == {e \in edges : e.to = n}

Between(n, m) == {e \in edges : e.from = n /\ e.to = m}

-----------------------------------------------------------------------------
(* The gate *)

\* detectStops: what no reasoning clears.
Stopped(pr) == pr.files = {} \/ pr.hot \/ pr.mergeable = "CONFLICTING"

\* detectBlockers: the verdict of each §2 gate that does not hold.
Blockers(pr) ==
  {row[2] : row \in {r \in {
     <<pr.draft, "WAIT">>,                       \* E1
     <<pr.mergeable = "UNKNOWN", "WAIT">>,       \* E2
     <<"failed" \in pr.checks, "ACT">>,          \* E3
     <<"pending" \in pr.checks, "WAIT">>,
     <<pr.checks = {}, "ESCALATE">>,
     <<pr.threads, "ACT">>,                      \* E4
     <<pr.changes, "ACT">>,                      \* E5
     <<~pr.conforms, "ACT">>,                    \* E6, E7
     <<pr.behind, "ACT">>,                       \* E10
     <<pr.queued, "WAIT">>} : r[1]}}             \* E11

\* PRECEDENCE, strictest first.
Rank == [v \in Verdicts |->
  CASE v = "ESCALATE" -> 1 [] v = "ACT" -> 2 [] v = "WAIT" -> 3 [] v = "ENQUEUE" -> 4]

Strictest(vs) ==
  IF vs = {} THEN "ENQUEUE" ELSE CHOOSE v \in vs : \A w \in vs : Rank[v] <= Rank[w]

\* evaluateGate's verdict.
Ceiling(pr) == IF Stopped(pr) THEN "ESCALATE" ELSE Strictest(Blockers(pr))

IsWithinCeiling(ceiling, proposed) == Rank[proposed] <= Rank[ceiling]

\* What runDecision may return: a failure, or a verdict with an action list
\* that names a forbidden command or none.
Reply == [usable : BOOLEAN, verdict : Verdicts, forbidden : BOOLEAN]

\* decide: the model may move the verdict toward ESCALATE, never past it.
Judged(pr, reply) ==
  IF Stopped(pr) \/ ~reply.usable \/ reply.forbidden THEN "ESCALATE"
  ELSE IF IsWithinCeiling(Ceiling(pr), reply.verdict) THEN reply.verdict
  ELSE Ceiling(pr)

-----------------------------------------------------------------------------
Init ==
  /\ queue \in Queues
  /\ only \in OnlyChoices
  /\ apply \in BOOLEAN
  /\ edges = DerivedEdges(queue)
  /\ phase = IF Numbers = {} THEN "done" ELSE "sort"
  /\ indegree = [n \in Numbers |-> Cardinality(Into(n))]
  /\ ready = {n \in Numbers : Into(n) = {}}
  /\ order = <<>>
  /\ sequence = <<>>
  /\ at = 1
  /\ verdict = [n \in Numbers |-> "none"]
  /\ pending = {}
  /\ reached = {}
  /\ executed = <<>>

Fixed == UNCHANGED <<queue, only, apply, edges>>

Placed == {order[i] : i \in 1..Len(order)}

Entries == {sequence[i] : i \in 1..Len(sequence)}

\* Mutant: the first edge to reach a number releases it.
PlaceEagerly ==
  /\ phase = "sort"
  /\ ready # {}
  /\ LET n == Least(ready)
     IN  /\ order' = Append(order, n)
         /\ indegree' = [m \in Numbers |-> indegree[m] - Cardinality(Between(n, m))]
         /\ ready' = (ready \ {n}) \cup {m \in Numbers : Between(n, m) # {}}
  /\ Fixed
  /\ UNCHANGED <<phase, sequence, at, verdict, pending, reached, executed>>

\* One turn of topoSort's loop: the least ready number is placed and each of
\* its edges lowers the indegree of the other end.
Place ==
  /\ phase = "sort"
  /\ ready # {}
  /\ LET n == Least(ready)
     IN  /\ order' = Append(order, n)
         /\ indegree' = [m \in Numbers |-> indegree[m] - Cardinality(Between(n, m))]
         /\ ready' = (ready \ {n}) \cup
                       {m \in Numbers : Between(n, m) # {} /\ indegree'[m] = 0}
  /\ Fixed
  /\ UNCHANGED <<phase, sequence, at, verdict, pending, reached, executed>>

\* The filter of main, over a list of all numbers.
Selected(all) ==
  IF only = 0 THEN all ELSE IF only \in Numbers THEN <<only>> ELSE <<>>

\* Mutant: the pass walks the snapshot, not the merge order.
SortedByNumber ==
  /\ phase = "sort"
  /\ ready = {}
  /\ \E all \in Listings(Numbers) : sequence' = Selected(all)
  /\ phase' = "decide"
  /\ Fixed
  /\ UNCHANGED <<indegree, ready, order, at, verdict, pending, reached, executed>>

\* main: what could not be placed comes last, then --pr selects.  The cycle is
\* listed in the order of the snapshot; any order will do, for all of it escalates.
Sorted ==
  /\ phase = "sort"
  /\ ready = {}
  /\ \E cycle \in Listings(Numbers \ Placed) : sequence' = Selected(order \o cycle)
  /\ phase' = "decide"
  /\ Fixed
  /\ UNCHANGED <<indegree, ready, order, at, verdict, pending, reached, executed>>

\* main's map over the sequence: forced for an unplaced one, else decide.
Decide ==
  /\ phase = "decide"
  /\ at <= Len(sequence)
  /\ \E reply \in Reply :
       verdict' = [verdict EXCEPT ![sequence[at]] =
         IF sequence[at] \notin Placed THEN "ESCALATE"
         ELSE Judged(queue[sequence[at]], reply)]
  /\ at' = at + 1
  /\ Fixed
  /\ UNCHANGED <<phase, indegree, ready, order, sequence, pending, reached, executed>>

\* propagateEscalations: the search starts at every escalated entry.
Decided ==
  /\ phase = "decide"
  /\ at > Len(sequence)
  /\ phase' = "spread"
  /\ pending' = {n \in Entries : verdict[n] = "ESCALATE"}
  /\ Fixed
  /\ UNCHANGED <<indegree, ready, order, sequence, at, verdict, reached, executed>>

\* Mutants: only the direct dependents are found; what was found before is
\* searched again.
ReachOnce ==
  /\ phase = "spread"
  /\ \E n \in pending :
       /\ reached' = reached \cup {m \in Numbers : Between(n, m) # {}}
       /\ pending' = pending \ {n}
  /\ Fixed
  /\ UNCHANGED <<phase, indegree, ready, order, sequence, at, verdict, executed>>

ReachAgain ==
  /\ phase = "spread"
  /\ \E n \in pending :
       LET found == {m \in Numbers : Between(n, m) # {}}
       IN  /\ reached' = reached \cup found
           /\ pending' = (pending \ {n}) \cup found
  /\ Fixed
  /\ UNCHANGED <<phase, indegree, ready, order, sequence, at, verdict, executed>>

\* One turn of descendants' loop; which pending number comes first is
\* immaterial to what is reached.
Reach ==
  /\ phase = "spread"
  /\ \E n \in pending :
       LET found == {m \in Numbers : Between(n, m) # {}} \ reached
       IN  /\ reached' = reached \cup found
           /\ pending' = (pending \ {n}) \cup found
  /\ Fixed
  /\ UNCHANGED <<phase, indegree, ready, order, sequence, at, verdict, executed>>

\* The escalations are recorded and the decision log is written; a dry run
\* executes nothing.
Record ==
  /\ phase = "spread"
  /\ pending = {}
  /\ verdict' = [n \in Numbers |->
       IF n \in Entries /\ n \in reached THEN "ESCALATE" ELSE verdict[n]]
  /\ phase' = IF apply THEN "apply" ELSE "done"
  /\ at' = 1
  /\ Fixed
  /\ UNCHANGED <<indegree, ready, order, sequence, pending, reached, executed>>

\* applyDecisions: a verdict that authorises actions is executed, whether or
\* not that goes well; another is passed over.
Execute ==
  /\ phase = "apply"
  /\ at <= Len(sequence)
  /\ verdict[sequence[at]] \in {"ACT", "ENQUEUE"}
  /\ \E outcome \in {"done", "error"} :
       executed' = Append(executed, [number |-> sequence[at], outcome |-> outcome])
  /\ at' = at + 1
  /\ Fixed
  /\ UNCHANGED <<phase, indegree, ready, order, sequence, verdict, pending, reached>>

PassOver ==
  /\ phase = "apply"
  /\ at <= Len(sequence)
  /\ verdict[sequence[at]] \notin {"ACT", "ENQUEUE"}
  /\ at' = at + 1
  /\ Fixed
  /\ UNCHANGED <<phase, indegree, ready, order, sequence, verdict, pending, reached, executed>>

Finish ==
  /\ phase = "apply"
  /\ at > Len(sequence)
  /\ phase' = "done"
  /\ Fixed
  /\ UNCHANGED <<indegree, ready, order, sequence, at, verdict, pending, reached, executed>>

\* What is thrown past the handlers of a run (an action list that is no list,
\* a log that cannot be written, an outcome that is no record) ends the pass
\* where it stands.
Fail ==
  /\ phase \in {"decide", "spread", "apply"}
  /\ phase' = "failed"
  /\ Fixed
  /\ UNCHANGED <<indegree, ready, order, sequence, at, verdict, pending, reached, executed>>

Next == Place \/ Sorted \/ Decide \/ Decided \/ Reach \/ Record
          \/ Execute \/ PassOver \/ Finish \/ Fail

Spec == Init /\ [][Next]_vars

\* The script is one synchronous program, and every run of the model it waits
\* for has a time limit.
FairSpec == Spec /\ WF_vars(Next)

-----------------------------------------------------------------------------
(* Properties *)

\* Every variable keeps to its values.
TypeOK ==
  /\ Numbers \subseteq PRs
  /\ queue \in [Numbers -> Facts]
  /\ only \in OnlyChoices
  /\ apply \in BOOLEAN
  /\ edges \subseteq [from : Numbers, rule : {"O1", "O2", "O3", "O4"}, to : Numbers]
  /\ phase \in {"sort", "decide", "spread", "apply", "done", "failed"}
  /\ indegree \in [Numbers -> Nat]
  /\ ready \subseteq Numbers
  /\ order \in Seq(Numbers)
  /\ sequence \in Seq(Numbers)
  /\ at \in Nat \ {0}
  /\ verdict \in [Numbers -> Verdicts \cup {"none"}]
  /\ pending \subseteq Numbers
  /\ reached \subseteq Numbers
  /\ executed \in Seq([number : Numbers, outcome : {"done", "error"}])

\* The order is a merge order: each number once, and never before one it
\* merges after (topoSort).
MergeOrder ==
  /\ \A i, j \in 1..Len(order) : order[i] = order[j] => i = j
  /\ \A e \in edges : \A j \in 1..Len(order) :
       order[j] = e.to => \E i \in 1..(j - 1) : order[i] = e.from

\* The sort places everything it can: what stays unplaced when it ends waits
\* for something unplaced, so it lies on a cycle or below one (topoSort's cycle).
OnlyCyclesUnplaced ==
  phase # "sort" =>
    \A n \in Numbers \ Placed : \E e \in Into(n) : e.from \notin Placed

\* Two passes over one snapshot agree: a number placed after a greater one
\* could not come earlier, for something it merges after was still unplaced
\* (topoSort's ascending ready list; "the sort being total so two passes agree").
LeastReadyFirst ==
  \A i, j \in 1..Len(order) : i < j /\ order[j] < order[i] =>
    \E e \in Into(order[j]) : \E k \in i..(j - 1) : order[k] = e.from

\* Nothing runs past its leash: an executed pull request was placed, trips no
\* stop, and its verdict is no weaker than its ceiling (isWithinCeiling, decide).
LeashHolds ==
  \A i \in 1..Len(executed) :
    LET n == executed[i].number
    IN  /\ n \in Placed
        /\ ~Stopped(queue[n])
        /\ verdict[n] \in Verdicts
        /\ IsWithinCeiling(Ceiling(queue[n]), verdict[n])

\* The decisions are recorded, or even executed in part.
Applied == phase \in {"apply", "done"} \/ executed # <<>>

\* Once a pass may execute, an escalation has reached everything that merges
\* after it, directly or not (propagateEscalations, descendants).
EscalationsSpread ==
  Applied =>
    \A e \in edges : {e.from, e.to} \subseteq Entries /\ verdict[e.from] = "ESCALATE"
                        => verdict[e.to] = "ESCALATE"

\* The entries the model or the gate escalated before the escalations spread.
Escalated == {n \in Entries : verdict[n] = "ESCALATE"}

\* What merges after them, directly or not: what is in every set that the edges
\* do not lead out of.
Below ==
  {n \in Numbers : \A S \in SUBSET Numbers :
     (\A e \in edges : e.from \in Escalated \cup S => e.to \in S) => n \in S}

\* A pass goes on to record only after it has escalated everything that merges
\* after an escalation, and nothing else: no other verdict has changed
\* (propagateEscalations, descendants).
SpreadsExactly ==
  [][phase = "spread" /\ phase' \in {"apply", "done"} =>
       \A n \in Numbers :
         verdict'[n] = IF n \in Entries \cap Below THEN "ESCALATE" ELSE verdict[n]]_vars

\* What the loop of each phase has before it: numbers to place, entries to go
\* through, edges to follow.
Left ==
  CASE phase = "sort" -> Cardinality(Numbers \ Placed)
    [] phase = "spread" -> 2 * Cardinality(Numbers \ reached) + Cardinality(pending)
    [] OTHER -> Len(sequence) + 1 - at

Phases == [sort |-> 0, decide |-> 1, spread |-> 2, apply |-> 3, done |-> 4, failed |-> 4]

\* Every step ends a phase for a later one, or brings its loop closer to an end
\* it cannot miss (topoSort, descendants, applyDecisions).
PassAdvances ==
  [][\/ Phases[phase] < Phases[phase']
     \/ phase' = phase /\ Left' \in 0..(Left - 1)]_vars

\* What is executed is executed once, and after everything executed that it
\* merges after (applyDecisions walks the sorted entries).
ExecutesInOrder ==
  /\ \A i, j \in 1..Len(executed) : executed[i].number = executed[j].number => i = j
  /\ \A e \in edges : \A i, j \in 1..Len(executed) :
       executed[i].number = e.from /\ executed[j].number = e.to => i < j

\* No pull request is executed while one it merges after is stopped by the
\* gate (COMMANDS.md of --pr: "decide one PR, still judged in the context of
\* the whole set's ordering").
JudgedInContext ==
  \A i \in 1..Len(executed) : \A e \in Into(executed[i].number) :
    ~Stopped(queue[e.from])

\* The pass ends (main).
PassEnds == <>(phase \in {"done", "failed"})
=============================================================================
